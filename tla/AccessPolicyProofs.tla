------------------------- MODULE AccessPolicyProofs -------------------------
(***************************************************************************)
(* AccessNetwork implements AccessPolicy: in every topology, and for all   *)
(* configurations and bounds, the steps of consumers are the steps of the  *)
(* policy and those of routers and producer its deliveries.                *)
(*                                                                         *)
(* What a packet on its way to a consumer may be is known, of each         *)
(* consumer, from the invariants of the modules below, as long as          *)
(* retransmissions leave the Interest pending alone.  As the code is, they *)
(* take the consumer's id off the entry hash, so that routers may take     *)
(* consumers of one edge for each other; but between the edges that hash   *)
(* still names the edge (Behind), as no consumer puts the id of a router   *)
(* on it.  So a verdict that is passed on stays behind the edge of the     *)
(* Interest it was made for (Near), a verdict made anew is right for its   *)
(* Interest's consumer (Telling), and what an edge that admits nobody      *)
(* learns are the bits of good tags (Learns).  The first part of this      *)
(* module proves that (EdgeInv).  It follows that a denial is made only if *)
(* some consumer's tags are spoilt, and on nothing else the faults of the  *)
(* code depend.                                                            *)
(*                                                                         *)
(* The second part proves the refinements: Data is sent to a consumer only *)
(* in answer to an in-record, which its edge has of an Interest the        *)
(* consumer sent, whatever the defects; what it may be follows from the    *)
(* invariants, of each consumer or of the consumers of each edge.          *)
(***************************************************************************)
EXTENDS AuthRequestProofs


AllSound == \A c \in Consumer : Sound(c)

\* An edge that somebody is admitted, or denied, behind.
Admits(e) == \E c \in Consumer : Up[c] = e /\ Authorised(c)
Denies(e) == \E c \in Consumer : Up[c] = e /\ ~Sound(c)

Behind(trk, e) == trk.entry \cap Router = {e}

\* The locator of a sound consumer's tag is the producer's, and only an edge
\* that admits somebody vouches for a tag that has this locator.
Telling(i) ==
  i.tag # NoTag =>
    /\ Sound(i.owner) => i.tag.loc = "producer"
    /\ i.vouched /\ i.tag.loc = "producer" => Admits(Up[i.owner])

\* An Interest that an edge has let in.
Entered(i) ==
  /\ Telling(i) /\ Behind(i.trk, Up[i.owner])
  /\ i.tag # NoTag => i.tag.route = i.trk.entry

EdgeUp(m) ==
  IF m.from \in Consumer THEN Telling(m.pkt) /\ m.pkt.trk.entry \cap Router = {}
  ELSE Entered(m.pkt)

EdgeRecord(rec) ==
  /\ Telling(rec.pkt) /\ Behind(rec.pkt.trk, Up[rec.pkt.owner])
  /\ rec.from \notin Consumer => Entered(rec.pkt)

EdgeRecords == {rec \in AnyRecord : EdgeRecord(rec)}

\* A content, or a denial, that may go to consumers of e; and what the kind
\* of a Data says whomever it is for.
Near(d, e) ==
  d.name \in Content =>
    (d.kind = "Blob" => Admits(e)) /\ (d.kind = "Nack" => Denies(e))

KindFits(d) ==
  /\ d.kind = "Auth" => d.name \in Consumer
  /\ d.kind = "Nack" => d.name \in Content /\ ~AllSound

EdgeData(d) ==
  /\ KindFits(d)
  /\ d.trk # NoTracker => \A e \in Router : Behind(d.trk, e) => Near(d, e)

EdgeDown(m) == EdgeData(m.pkt) /\ (m.to \in Consumer => Near(m.pkt, Up[m.to]))

\* The bits that an edge learns where nobody is admitted are good.
Learns(n, c) == Admits(n) \/ c.pos.bits \subseteq GoodBits

EdgePackets ==
  /\ \A m \in interests : EdgeUp(m)
  /\ \A m \in datas : EdgeDown(m)
  /\ \A n \in Router, x \in Name : pit[n][x] \in Seq(EdgeRecords)
  /\ \A n \in Router \cup {Provider} : \A d \in cs[n] : EdgeData(d)

EdgeCaches == \A n \in Router : Learns(n, cache[n])

EdgeHosts ==
  /\ \A c \in Consumer : tag[c] # NoTag /\ Sound(c) => tag[c].loc = "producer"
  /\ \A c \in Consumer : \A i \in asked[c] :
       Telling(i) /\ i.trk.entry \cap Router = {}

EdgeInv == EdgePackets /\ EdgeCaches /\ EdgeHosts /\ SoundRunsOn

-----------------------------------------------------------------------------
\* What an Interest and its record tell of the edge they came by.
LEMMA ArrivedEdge ==
  ASSUME NEW m \in UpInterest, EdgeUp(m)
  PROVE  LET i == Arrived(m.to, m)
         IN  /\ Telling(i) /\ Behind(i.trk, Up[i.owner])
             /\ m.from \notin Consumer => Entered(i)
<1>. DEFINE i == Arrived(m.to, m)
<1>1. /\ m \in SentInterest /\ m.from \in Host /\ m.to = Up[m.from] /\ m.to \in Id
      /\ m.pkt.trk.net = UpNet(m.from)
      /\ m.from \in Consumer => m.pkt.owner = m.from
      /\ m.pkt \in Interest /\ m.pkt.trk \in Tracker(Id)
  BY Links DEF UpInterest, SentInterest, Hop, HonestInterest, Interest
<1>2. /\ i.trk = Update(m.pkt.trk, m.to) /\ i.tag = m.pkt.tag
      /\ i.owner = m.pkt.owner /\ i.vouched = m.pkt.vouched
  BY <1>1 DEF Arrived, Interest
<1>. HIDE DEF i
<1>3. Telling(i)
  BY <1>2 DEF EdgeUp, Entered, Telling
<1>4. CASE m.from \in Consumer
  <2>1. i.trk.entry = Flip(m.pkt.trk.entry, m.to) /\ m.to \in Router
    BY <1>1, <1>2, <1>4, Networks, Links, UpdateFields
  <2>2. m.pkt.trk.entry \cap Router = {}
    BY <1>4 DEF EdgeUp
  <2>3. Behind(i.trk, m.to)
    BY <2>1, <2>2 DEF Behind, Flip
  <2>. QED  BY <1>1, <1>2, <1>3, <1>4, <2>3 DEF i
<1>5. CASE m.from \notin Consumer
  <2>1. m.pkt.trk.net # "ENTRY"
    BY <1>1, <1>5 DEF UpNet
  <2>2. i.trk.entry = m.pkt.trk.entry
    BY <1>1, <1>2, <2>1, UpdateFields
  <2>3. Entered(i)
    BY <1>2, <1>3, <1>5, <2>2 DEF EdgeUp, Entered, Behind
  <2>. QED  BY <2>3 DEF Entered, i
<1>. QED  BY <1>4, <1>5

LEMMA RecordEdge ==
  ASSUME NEW n \in Router, NEW m \in UpInterest, m.to = n, EdgeUp(m)
  PROVE  InRecord(n, m) \in EdgeRecords
<1>. DEFINE rec == InRecord(n, m)
<1>1. rec.from = m.from /\ rec.pkt = Arrived(m.to, m)
  BY DEF InRecord
<1>2. rec \in AnyRecord
  BY RecordRouted DEF RecordOf, Record
<1>. HIDE DEF rec
<1>3. EdgeRecord(rec)
  BY <1>1, ArrivedEdge DEF EdgeRecord
<1>. QED  BY <1>2, <1>3 DEF EdgeRecords, rec

\* A tag that a router accepts is that of a consumer of an edge that admits
\* somebody, and it accepts those of sound consumers.
LEMMA AcceptedNear ==
  ASSUME NEW i \in HonestInterest, Telling(i),
         i.tag # NoTag, i.tag.loc = "producer", i.vouched \/ i.tag.sig
  PROVE  Admits(Up[i.owner])
<1>1. CASE i.vouched
  BY <1>1 DEF Telling
<1>2. CASE i.tag.sig
  <2>1. i.tag.owner = i.owner /\ Genuine(i.tag) /\ i.owner \in Consumer
    BY DEF HonestInterest, Honest, Interest
  <2>2. Authorised(i.owner)
    BY <1>2, <2>1 DEF Genuine, Authorised
  <2>. QED  BY <2>1, <2>2 DEF Admits
<1>. QED  BY <1>1, <1>2

LEMMA SoundTold ==
  ASSUME NEW i \in HonestInterest, Telling(i), i.name \in Content, Sound(i.owner)
  PROVE  i.tag # NoTag /\ i.tag.loc = "producer" /\ i.tag.sig
<1>1. i.tag # NoTag /\ i.tag.owner = i.owner /\ Genuine(i.tag)
  BY DEF HonestInterest, Honest
<1>. QED  BY <1>1 DEF Genuine, Telling, Sound, Signed

\* The edge lets in what bears the route of its tag, and vouches only for what
\* it knows.
LEMMA EnterEdge ==
  ASSUME NEW i \in HonestInterest, Telling(i), NEW c \in HonestCaches,
         NEW n \in Router, n = Up[i.owner], Learns(n, c)
  PROVE  LET result == EnterNetwork(i, c)
             j == result.pkt
         IN  /\ j.tag = i.tag /\ j.owner = i.owner /\ j.trk = i.trk
             /\ Telling(j) /\ Learns(n, result.cache)
             /\ result.sent /\ i.tag # NoTag => i.tag.route = i.trk.entry
<1>. DEFINE known    == Holds(c.pos, i.tag)
            verified == ~known /\ Holds(c.neg, i.tag) /\ i.tag.sig
            pos      == Refreshed(c.pos)
            newpos   == IF verified THEN Inserted(pos, {i.tag}, 1) ELSE pos
            newneg   == IF known THEN c.neg ELSE Refreshed(c.neg)
            j        == [i EXCEPT !.vouched = known \/ verified]
<1>0. i \in Interest /\ Honest(i) /\ i.owner \in Consumer
  BY DEF HonestInterest, Interest
<1>1. CASE i.tag = NoTag \/ i.trk.entry # i.tag.route
  BY <1>1 DEF EnterNetwork
<1>2. CASE ~(i.tag = NoTag \/ i.trk.entry # i.tag.route)
  <2>1. i.tag \in Tag /\ Genuine(i.tag) /\ i.tag.owner = i.owner
    BY <1>0, <1>2 DEF Interest, Honest
  <2>2. /\ EnterNetwork(i, c).pkt = j
        /\ EnterNetwork(i, c).cache = [pos |-> newpos, neg |-> newneg]
    BY <1>2 DEF EnterNetwork
  <2>3. j.tag = i.tag /\ j.owner = i.owner /\ j.trk = i.trk /\ (j.vouched <=> known \/ verified)
    BY <1>0 DEF Interest
  <2>4. pos.bits \subseteq c.pos.bits
    BY DEF Refreshed, EmptyFilter
  <2>5. verified => Hash(i.tag) \subseteq GoodBits
    BY <2>1, GoodTag
  <2>6. known \/ verified => Admits(n) \/ Hash(i.tag) \subseteq GoodBits
    BY <2>4, <2>5 DEF Holds, Learns
  <2>7. Learns(n, EnterNetwork(i, c).cache)
    <3>1. Inserted(pos, {i.tag}, 1).bits = pos.bits \cup Hash(i.tag)
      BY DEF Inserted
    <3>2. Admits(n) \/ newpos.bits \subseteq GoodBits
      BY <2>4, <2>5, <3>1 DEF Learns
    <3>. QED  BY <2>2, <3>2 DEF Learns
  <2>. HIDE DEF known, verified, j
  <2>8. ASSUME j.vouched, i.tag.loc = "producer" PROVE Admits(n)
    <3>1. CASE Hash(i.tag) \subseteq GoodBits
      <4>1. Authorised(i.owner)
        BY <2>1, <2>8, <3>1 DEF Genuine, Authorised
      <4>. QED  BY <1>0, <4>1 DEF Admits
    <3>. QED  BY <2>3, <2>6, <2>8, <3>1
  <2>9. Telling(j)
    BY <2>3, <2>8 DEF Telling
  <2>. QED  BY <1>2, <2>2, <2>3, <2>7, <2>9
<1>. QED  BY <1>1, <1>2

LEMMA FilterEdge ==
  ASSUME NEW n \in Router, NEW x, NEW rec \in RecordOf(n, x), EdgeRecord(rec),
         NEW c \in HonestCaches, Learns(n, c)
  PROVE  LET result == FilterOutgoingInterest(n, rec.from, rec.pkt, c)
         IN  /\ result.sent => EdgeUp(Packet(n, Up[n], result.pkt))
             /\ Learns(n, result.cache)
<1>. DEFINE i == rec.pkt
            result == FilterOutgoingInterest(n, rec.from, i, c)
            j == result.pkt
            at(net) == [i EXCEPT !.trk = SetCurrentNetwork(@, net)]
<1>1. /\ i \in HonestInterest /\ i \in Interest /\ i.trk \in Tracker(Id)
      /\ i.owner \in Consumer /\ rec.from \in Host /\ Up[rec.from] = n
      /\ rec.from \in Consumer => rec.from = i.owner
  BY RecordFacts
<1>2. ASSUME NEW net \in Network
      PROVE  /\ at(net) \in HonestInterest /\ at(net).tag = i.tag
             /\ at(net).owner = i.owner /\ at(net).vouched = i.vouched
             /\ at(net).trk.entry = i.trk.entry
  <2>1. SetCurrentNetwork(i.trk, net) \in Tracker(Id)
        /\ SetCurrentNetwork(i.trk, net).entry = i.trk.entry
    BY <1>1, SetNetworkType, SetNetworkTrace
  <2>2. at(net) \in HonestInterest
    BY <1>1, <2>1, HonestRetraced
  <2>. QED  BY <1>1, <2>1, <2>2 DEF Interest
<1>3. "INTERNET" \in Network /\ "EXIT" \in Network
  BY DEF Network
<1>. HIDE DEF at
<1>4. ASSUME Entered(j)
      PROVE  EdgeUp(Packet(n, Up[n], j))
  BY <1>4, NotConsumers DEF EdgeUp, Packet
<1>5. CASE rec.from \in Consumer
  <2>1. EdgeFace(n, rec.from) /\ ~EdgeFace(n, Up[n])
    BY <1>1, <1>5, Links, TopologyAssumption, NodesAssumption DEF EdgeFace, Host, Router
  <2>2. result = EnterNetwork(at("INTERNET"), c)
    BY <2>1 DEF FilterOutgoingInterest, at
  <2>3. Telling(at("INTERNET"))
    BY <1>2, <1>3 DEF EdgeRecord, Telling
  <2>4. /\ j.tag = i.tag /\ j.owner = i.owner /\ j.trk = at("INTERNET").trk
        /\ Telling(j) /\ Learns(n, result.cache)
        /\ result.sent /\ i.tag # NoTag => i.tag.route = i.trk.entry
    <3>. HIDE DEF i, result
    <3>. DEFINE k == at("INTERNET")
    <3>1. k \in HonestInterest /\ k.tag = i.tag /\ k.owner = i.owner /\ k.trk.entry = i.trk.entry
      BY <1>2, <1>3
    <3>2. n = Up[k.owner]
      BY <1>1, <1>5, <3>1
    <3>. HIDE DEF k
    <3>3. /\ result.pkt.tag = k.tag /\ result.pkt.owner = k.owner /\ result.pkt.trk = k.trk
          /\ Telling(result.pkt) /\ Learns(n, result.cache)
          /\ result.sent /\ k.tag # NoTag => k.tag.route = k.trk.entry
      BY <2>2, <2>3, <3>1, <3>2, EnterEdge DEF k
    <3>. QED  BY <3>1, <3>3 DEF k
  <2>5. result.sent => Entered(j)
    BY <1>2, <1>3, <2>4 DEF EdgeRecord, Entered, Behind
  <2>. QED  BY <1>4, <2>4, <2>5
<1>6. CASE rec.from \in Router
  <2>1. ~EdgeFace(n, rec.from)
    BY <1>6, NotConsumers DEF EdgeFace
  <2>2. j \in {i, at("EXIT")} /\ result.cache = c
    BY <2>1 DEF FilterOutgoingInterest, at
  <2>3. Entered(i)
    BY <1>6, NotConsumers DEF EdgeRecord
  <2>4. j.tag = i.tag /\ j.owner = i.owner /\ j.vouched = i.vouched /\ j.trk.entry = i.trk.entry
    BY <1>2, <1>3, <2>2
  <2>5. Entered(j)
    BY <2>3, <2>4 DEF Entered, Telling, Behind
  <2>. QED  BY <1>4, <2>2, <2>5
<1>. QED  BY <1>1, <1>5, <1>6 DEF Host


-----------------------------------------------------------------------------
\* The verdict a router passes on: kept, if the Data bears the route of the
\* record, and thus was meant for the same edge; its own otherwise.
LEMMA JudgedEdge ==
  ASSUME NEW n \in Router, NEW d \in DataAt(n), d.trk # NoTracker, EdgeData(d),
         NEW rec \in RecordOf(n, d.name), EdgeRecord(rec)
  PROVE  LET e == Judged(n, rec.from, rec.pkt, d)
         IN  KindFits(e) /\ Near(e, Up[rec.pkt.owner])
<1>. DEFINE i == rec.pkt
            e == Judged(n, rec.from, i, d)
            up == Up[i.owner]
<1>1. /\ i \in HonestInterest /\ i.name = d.name /\ i.owner \in Consumer
      /\ Telling(i) /\ Behind(i.trk, up) /\ up \in Router
  BY RecordFacts, NotConsumers DEF EdgeRecord
<1>2. d \in Data /\ d.name \in Name /\ KindFits(d)
  BY DEF DataAt, RightfulData, Data, EdgeData
<1>3. CASE Preserved(i, d)
  <2>1. \E trk : e \in {d, [d EXCEPT !.trk = trk]}
    BY <1>3 DEF Judged
  <2>2. e.kind = d.kind /\ e.name = d.name
    BY <1>2, <2>1 DEF Data
  <2>3. Near(d, up)
    BY <1>1, <1>3 DEF Preserved, SameRoutes, Behind, EdgeData
  <2>. HIDE DEF e, up
  <2>4. KindFits(e) /\ Near(e, up)
    BY <1>2, <2>2, <2>3 DEF KindFits, Near
  <2>. QED  BY <2>4 DEF e, up
<1>4. CASE ~Preserved(i, d)
  <2>. DEFINE flag == ~Public(d.name) /\ Checked(i, d) /\ i.vouched
  <2>1. e = [d EXCEPT !.trk = i.trk,
                      !.kind = IF Accepts(i, d) THEN "Blob" ELSE "Nack",
                      !.nrc = @ \/ flag]
    BY <1>4 DEF Judged
  <2>2. e.name = d.name /\ e.kind = (IF Accepts(i, d) THEN "Blob" ELSE "Nack")
    <3>. HIDE DEF flag, e
    <3>. QED  BY <1>2, <2>1 DEF Data
  <2>. HIDE DEF e
  <2>3. ASSUME Accepts(i, d), d.name \in Content PROVE Admits(up)
    BY <1>1, <1>2, <2>3, AcceptedNear, NoContentIsPublic DEF Accepts, Checked
  <2>4. ASSUME ~Accepts(i, d) PROVE d.name \in Content /\ ~Sound(i.owner)
    <3>1. d.name \in Content
      BY <1>2, <2>4, NoContentIsPublic DEF Accepts
    <3>. QED  BY <1>1, <2>4, <3>1, SoundTold DEF Accepts, Checked
  <2>5. KindFits(e) /\ Near(e, up)
    BY <1>1, <2>2, <2>3, <2>4 DEF KindFits, Near, Denies, AllSound
  <2>. QED  BY <2>5 DEF e
<1>. QED  BY <1>3, <1>4

LEMMA AnswerEdge ==
  ASSUME NEW n \in Router, NEW d \in DataAt(n), d.trk # NoTracker, EdgeData(d),
         NEW rec \in RecordOf(n, d.name), EdgeRecord(rec)
  PROVE  EdgeDown(Packet(n, rec.from, Stamped(Judged(n, rec.from, rec.pkt, d), n)))
<1>. DEFINE i == rec.pkt
            e == Judged(n, rec.from, i, d)
            s == Stamped(e, n)
            up == Up[i.owner]
            m == Packet(n, rec.from, s)
<1>1. /\ rec.from \in Host /\ Up[rec.from] = n /\ n \in Id /\ up \in Router
      /\ rec.from \in Consumer => rec.from = i.owner
      /\ Behind(i.trk, up)
  BY RecordFacts, NotConsumers DEF EdgeRecord
<1>2. /\ e \in Data /\ e.trk \in Tracker(Id) /\ e.trk # NoTracker
      /\ e.trk.net = UpNet(rec.from) /\ e.trk.entry = i.trk.entry
  BY JudgedRouted, NoneAssumption DEF RightfulData
<1>3. KindFits(e) /\ Near(e, up)
  BY JudgedEdge
<1>. HIDE DEF e
<1>4. s.name = e.name /\ s.kind = e.kind /\ s.trk = Update(e.trk, n)
  BY <1>2 DEF Stamped, Data
<1>5. m.to = rec.from /\ m.pkt = s
  BY DEF Packet
<1>. HIDE DEF s, m, up
<1>6. KindFits(s) /\ Near(s, up)
  BY <1>3, <1>4 DEF KindFits, Near
<1>7. ASSUME NEW r \in Router, Behind(s.trk, r) PROVE r = up
  <2>1. CASE rec.from \in Consumer
    <3>1. s.trk.entry = Flip(i.trk.entry, n) /\ n = up
      BY <1>1, <1>2, <1>4, <2>1, Networks, UpdateFields DEF up
    <3>2. s.trk.entry \cap Router = {}
      BY <1>1, <3>1 DEF Behind, Flip
    <3>. QED  BY <1>7, <3>2 DEF Behind
  <2>2. CASE rec.from \in Router
    <3>1. e.trk.net # "ENTRY"
      BY <1>2, <2>2, Networks
    <3>2. s.trk.entry = i.trk.entry
      BY <1>1, <1>2, <1>4, <3>1, UpdateFields
    <3>. QED  BY <1>1, <1>7, <3>2 DEF Behind
  <2>. QED  BY <1>1, <2>1, <2>2 DEF Host
<1>8. EdgeData(s)
  BY <1>6, <1>7 DEF EdgeData
<1>9. m.to \in Consumer => Near(s, Up[m.to])
  BY <1>1, <1>5, <1>6 DEF up
<1>10. EdgeDown(m)
  BY <1>5, <1>8, <1>9 DEF EdgeDown
<1>. QED  BY <1>10 DEF m, s, e

\* What an edge learns from the Data it sends to its consumers: nothing, where
\* nobody is admitted.
LEMMA LearnedEdge ==
  ASSUME NEW n \in Router, NEW d \in DataAt(n), EdgeData(d), Learns(n, cache[n]),
         NEW recs \in Seq(RecordOf(n, d.name)), recs \in Seq(EdgeRecords),
         NEW R \in SUBSET (1..Len(recs)), R # {} => d.trk # NoTracker
  PROVE  Learns(n, Learned(n, recs, R, d))
<1>. DEFINE leaving == {k \in R : ~EdgeFace(n, Up[n]) /\ EdgeFace(n, recs[k].from)
                                   /\ ~Public(d.name)}
            judged(k) == Judged(n, recs[k].from, recs[k].pkt, d)
            bad  == {k \in leaving : judged(k).kind = "Nack"}
            good == {k \in leaving \ bad : ~judged(k).nrc}
            tags(K) == {recs[k].pkt.tag : k \in K}
            pos == Inserted(cache[n].pos, tags(good), Cardinality(good))
<1>1. Learned(n, recs, R, d).pos = pos
  BY DEF Learned
<1>2. ASSUME ~Admits(n), NEW k \in leaving, judged(k).kind # "Nack" PROVE FALSE
  <2>1. recs[k] \in RecordOf(n, d.name) /\ EdgeRecord(recs[k])
    <3>1. recs[k] \in EdgeRecords
      BY ElementOfSeq
    <3>. QED  BY <3>1, RecordsRouted DEF EdgeRecords
  <2>2. EdgeFace(n, recs[k].from) /\ ~Public(d.name) /\ d.trk # NoTracker
    OBVIOUS
  <2>3. /\ recs[k].from \in Consumer /\ Up[recs[k].from] = n
        /\ recs[k].from = recs[k].pkt.owner
    BY <2>1, <2>2, RecordFacts, Links DEF EdgeFace
  <2>4. d.name \in Content /\ d.name \notin Consumer
    BY <2>2, NoContentIsPublic DEF DataAt, RightfulData, Data, Public
  <2>5. judged(k).name = d.name /\ judged(k) \in Data
    BY <2>1, <2>2, JudgedRouted DEF RightfulData
  <2>6. KindFits(judged(k)) /\ Near(judged(k), n)
    BY <2>1, <2>2, <2>3, JudgedEdge
  <2>. HIDE DEF judged
  <2>. QED  BY <1>2, <2>4, <2>5, <2>6 DEF KindFits, Near, Data
<1>3. ASSUME ~Admits(n) PROVE tags(good) = {}
  BY <1>2, <1>3
<1>4. ~Admits(n) => pos.bits = cache[n].pos.bits
  <2>. HIDE DEF tags, good
  <2>. QED  BY <1>3 DEF Inserted
<1>. HIDE DEF pos
<1>. QED  BY <1>1, <1>4 DEF Learns

LEMMA ServeEdge ==
  ASSUME NetworkInv, EdgeCaches, NEW n \in Router, NEW d \in DataAt(n), EdgeData(d),
         NEW recs \in Seq(RecordOf(n, d.name)), recs \in Seq(EdgeRecords),
         NEW k \in 1..(Len(recs) + 1), NEW left, \A m \in left : EdgeDown(m),
         Serve(n, recs, k, d, left)
  PROVE  (\A m \in datas' : EdgeDown(m)) /\ EdgeCaches' /\ SoundRunsOn'
<1>. DEFINE crash(j) == Crashes(n, recs[j].from, recs[j].pkt, d)
            throws(j) == Throws(n, recs[j].from, recs[j].pkt, d)
            fails  == {j \in k..Len(recs) : crash(j) \/ throws(j)}
            served == {j \in k..Len(recs) : \A f \in fails : f < j}
            answer(j) == Stamped(Judged(n, recs[j].from, recs[j].pkt, d), n)
<1>1. /\ datas' = left \cup {Packet(n, recs[j].from, answer(j)) : j \in served}
      /\ cache' = [cache EXCEPT ![n] = Learned(n, recs, served, d)]
      /\ crashed' = \E f \in fails : crash(f) /\ \A g \in fails : g <= f
  BY DEF Serve
<1>2. served \in SUBSET (1..Len(recs)) /\ fails \in SUBSET (1..Len(recs))
  BY RecordsRouted
<1>3. ASSUME NEW j \in served PROVE d.trk # NoTracker
  <2>1. j \notin fails
    BY <1>2
  <2>2. ~throws(j)
    BY <2>1
  <2>. QED  BY <2>2 DEF Throws
<1>. HIDE DEF fails, served
<1>4. ASSUME NEW j \in 1..Len(recs)
      PROVE  recs[j] \in RecordOf(n, d.name) /\ EdgeRecord(recs[j])
  <2>1. recs[j] \in EdgeRecords
    BY ElementOfSeq
  <2>. QED  BY <2>1, RecordsRouted DEF EdgeRecords
<1>5. \A m \in datas' : EdgeDown(m)
  <2>1. ASSUME NEW j \in served PROVE EdgeDown(Packet(n, recs[j].from, answer(j)))
    BY <1>2, <1>3, <1>4, AnswerEdge
  <2>. QED  BY <1>1, <2>1
<1>6. EdgeCaches'
  <2>1. Learns(n, Learned(n, recs, served, d))
    BY <1>2, <1>3, LearnedEdge DEF EdgeCaches
  <2>2. \A l \in Router :
          cache'[l] = IF l = n THEN Learned(n, recs, served, d) ELSE cache[l]
    BY <1>1 DEF NetworkInv
  <2>3. \A l \in Router : Learns(l, cache'[l])
    BY <2>1, <2>2 DEF EdgeCaches
  <2>. QED  BY <2>3 DEF EdgeCaches, Learns
<1>7. ASSUME AllSound PROVE ~crashed'
  <2>. SUFFICES ASSUME NEW f \in fails, crash(f) PROVE FALSE
    BY <1>1
  <2>1. d.trk # NoTracker /\ Judged(n, recs[f].from, recs[f].pkt, d).kind = "Nack"
    BY DEF Crashes
  <2>2. KindFits(Judged(n, recs[f].from, recs[f].pkt, d))
    BY <1>2, <1>4, <2>1, JudgedEdge
  <2>. QED  BY <1>7, <2>1, <2>2 DEF KindFits
<1>. QED  BY <1>5, <1>6, <1>7 DEF SoundRunsOn, AllSound, Sound

-----------------------------------------------------------------------------
\* What the producer answers is for the edge whose id the Interest bears.
LEMMA ReplyEdge ==
  ASSUME NEW m \in UpInterest, m.to = Provider, EdgeUp(m)
  PROVE  EdgeData(Reply(Arrived(Provider, m)))
<1>. DEFINE i == Arrived(Provider, m)
            d == Reply(i)
            up == Up[i.owner]
<1>1. m.from \notin Consumer
  <2>1. m.from \in Host /\ Up[m.from] = Provider
    BY DEF UpInterest
  <2>. QED  BY <2>1, Links, NotConsumers
<1>2. /\ i \in HonestInterest /\ i.owner \in Consumer /\ i.name \in Name
      /\ Entered(i) /\ Telling(i) /\ Behind(i.trk, up) /\ up \in Router
  BY <1>1, ArrivedRouted, ArrivedEdge, NotConsumers DEF HonestInterest, Interest
<1>. HIDE DEF i, up
<1>3. d.name = i.name /\ d.trk = i.trk
  BY DEF Reply, AuthReply, ContentReply
<1>4. \A e \in Router : Behind(d.trk, e) => e = up
  BY <1>2, <1>3 DEF Behind
<1>5. CASE i.name \in Consumer
  <2>1. d.kind = "Auth" /\ d.name \notin Content
    BY <1>3, <1>5, NodesAssumption DEF Reply, Public, AuthReply
  <2>. HIDE DEF d
  <2>2. EdgeData(d)
    BY <1>3, <1>5, <2>1 DEF EdgeData, KindFits, Near
  <2>. QED  BY <2>2 DEF d, i
<1>6. CASE i.name \in Content
  <2>. DEFINE passes == /\ i.tag # NoTag /\ i.tag.loc = "producer"
                        /\ i.tag.route = i.trk.entry /\ i.tag.sig
  <2>1. d = ContentReply(i)
    BY <1>2, <1>6, NoContentIsPublic DEF Reply
  <2>2. d.kind = IF passes THEN "Blob" ELSE "Nack"
    BY <2>1 DEF ContentReply
  <2>3. passes => Admits(up)
    BY <1>2, AcceptedNear DEF up
  <2>4. ~passes => ~Sound(i.owner)
    BY <1>2, <1>6, SoundTold DEF Entered
  <2>. HIDE DEF d, passes
  <2>5. EdgeData(d)
    BY <1>2, <1>3, <1>4, <1>6, <2>2, <2>3, <2>4
    DEF EdgeData, KindFits, Near, Denies, AllSound, up
  <2>. QED  BY <2>5 DEF d, i
<1>. QED  BY <1>2, <1>5, <1>6 DEF Name

LEMMA ProviderSendsEdge ==
  ASSUME EdgePackets, NEW m \in interests, m \in UpInterest, m.to = Provider,
         NEW d \in DataAt(Provider), EdgeData(d), SendFromProvider(m, d)
  PROVE  /\ \A a \in interests' : EdgeUp(a)
         /\ \A a \in datas' : EdgeDown(a)
<1>. DEFINE e == Decoded(d)
            s == Stamped(e, Provider)
            p == Packet(Provider, m.from, s)
<1>1. datas' = datas \cup {p} /\ interests' = interests \ {m}
  BY DEF SendFromProvider
<1>2. p.to = m.from /\ p.pkt = s
  BY DEF Packet
<1>3. m.from \notin Consumer
  <2>1. m.from \in Host /\ Up[m.from] = Provider
    BY DEF UpInterest
  <2>. QED  BY <2>1, Links, NotConsumers
<1>4. /\ e \in DataAt(Provider) /\ e \in Data /\ Provider \in Id
      /\ e.trk # NoTracker => e.trk \in Tracker(Id) /\ e.trk.net = "EXIT"
  BY DecodedRouted, Networks, NotConsumers DEF DataAt, RightfulData, Data
<1>5. e.name = d.name /\ e.kind = d.kind /\ e.trk \in {d.trk, NoTracker}
  BY DEF Decoded, DataAt, RightfulData, Data
<1>. HIDE DEF e
<1>6. /\ s.name = e.name /\ s.kind = e.kind
      /\ s.trk = IF e.trk = NoTracker THEN NoTracker ELSE Update(e.trk, Provider)
  BY <1>4 DEF Stamped, Data
<1>. HIDE DEF s, p
<1>7. s.trk # NoTracker => d.trk # NoTracker /\ s.trk.entry = d.trk.entry
  BY <1>4, <1>5, <1>6, UpdateFields
<1>8. EdgeData(s)
  BY <1>5, <1>6, <1>7 DEF EdgeData, KindFits, Near, Behind
<1>9. EdgeDown(p)
  BY <1>2, <1>3, <1>8 DEF EdgeDown
<1>. QED  BY <1>1, <1>9 DEF EdgePackets

-----------------------------------------------------------------------------
\* What becomes of the parts of the state that an action changes.
LEMMA EntryEdge ==
  ASSUME NetworkInv, EdgePackets, NEW n \in Router, NEW x \in Name,
         NEW recs \in Seq(EdgeRecords), pit' = [pit EXCEPT ![n][x] = recs]
  PROVE  \A l \in Router, y \in Name : pit'[l][y] \in Seq(EdgeRecords)
<1>1. pit \in [Router -> [Name -> Seq(AnyRecord)]]
  BY DEF NetworkInv
<1>2. \A l \in Router, y \in Name : pit[l][y] \in Seq(EdgeRecords)
  BY DEF EdgePackets
<1>3. \A l \in Router, y \in Name :
        pit'[l][y] = IF l = n /\ y = x THEN recs ELSE pit[l][y]
  BY <1>1
<1>. HIDE DEF NetworkInv, EdgePackets
<1>. QED  BY <1>2, <1>3

LEMMA StoreEdge ==
  ASSUME NetworkInv, EdgePackets, NEW n \in Router \cup {Provider}, NEW d, EdgeData(d),
         NEW S \in Stored(cs[n], d) \cup {cs[n]}, cs' = [cs EXCEPT ![n] = S]
  PROVE  \A l \in Router \cup {Provider} : \A e \in cs'[l] : EdgeData(e)
<1>1. S \subseteq cs[n] \cup {d}
  BY DEF Stored
<1>2. cs \in [Router \cup {Provider} -> SUBSET RightfulData]
  BY DEF NetworkInv
<1>3. \A l \in Router \cup {Provider} : \A e \in cs[l] : EdgeData(e)
  BY DEF EdgePackets
<1>4. \A l \in Router \cup {Provider} : cs'[l] = IF l = n THEN S ELSE cs[l]
  BY <1>2
<1>. HIDE DEF NetworkInv, EdgePackets, EdgeData
<1>. QED  BY <1>1, <1>3, <1>4

LEMMA PacketsEdge ==
  ASSUME EdgePackets, UNCHANGED <<pit, cs>>, \A m \in interests' : EdgeUp(m),
         \A m \in datas' : EdgeDown(m)
  PROVE  EdgePackets'
BY DEF EdgePackets

LEMMA HostsEdge ==
  ASSUME EdgeHosts, UNCHANGED hosts
  PROVE  EdgeHosts'
BY DEF EdgeHosts, hosts

LEMMA SameEdge ==
  ASSUME EdgeCaches, SoundRunsOn
  PROVE  (UNCHANGED cache => EdgeCaches') /\ (UNCHANGED crashed => SoundRunsOn')
BY DEF EdgeCaches, SoundRunsOn, Learns

LEMMA InitEdge == Init => EdgeInv
<1>. SUFFICES ASSUME Init PROVE EdgeInv
  OBVIOUS
<1>1. \A S : <<>> \in Seq(S)
  OBVIOUS
<1>2. EdgePackets /\ SoundRunsOn
  BY <1>1 DEF Init, EdgePackets, SoundRunsOn
<1>3. \A n \in Router : cache[n].pos.bits = {}
  BY DEF Init, EmptyFilter
<1>4. EdgeCaches
  BY <1>3 DEF EdgeCaches, Learns
<1>5. ASSUME NEW c \in Consumer, tag[c] # NoTag, Sound(c) PROVE tag[c].loc = "producer"
  <2>1. tag[c] = Spoilt(c, {c, Up[c]})
    BY <1>5 DEF Init
  <2>. QED  BY <1>5, <2>1 DEF Spoilt, Sound
<1>6. EdgeHosts
  BY <1>5 DEF Init, EdgeHosts
<1>. QED  BY <1>2, <1>4, <1>6 DEF EdgeInv

-----------------------------------------------------------------------------
\* Actions of the consumers.
LEMMA RequestEdge ==
  ASSUME IInv, EdgeInv, NEW c \in Consumer, NEW x \in Name, Request(c, x)
  PROVE  EdgeInv'
<1>0. EdgePackets /\ EdgeCaches /\ EdgeHosts /\ SoundRunsOn
  BY DEF EdgeInv
<1>. DEFINE i == [name |-> x, owner |-> c, nonce |-> sends[c],
                  tag |-> IF x = c THEN NoTag ELSE tag[c],
                  trk |-> Update(FreshTracker, c), vouched |-> FALSE]
            m == Packet(c, Up[c], i)
<1>1. /\ interests' = interests \cup {m}
      /\ asked' = [asked EXCEPT ![c] = @ \cup {i}]
      /\ UNCHANGED <<datas, pit, cs, cache, tag, crashed>>
  BY DEF Request
<1>2. /\ i.owner = c /\ i.tag \in {NoTag, tag[c]} /\ ~i.vouched
      /\ i.trk.entry \cap Router = {}
  <2>1. Update(FreshTracker, c).entry = {c}
    BY DEF Update, FreshTracker, Flip
  <2>. QED  BY <2>1, NodesAssumption
<1>. HIDE DEF i
<1>3. m.from = c /\ m.pkt = i
  BY DEF Packet
<1>. HIDE DEF m
<1>4. Telling(i)
  BY <1>0, <1>2 DEF Telling, EdgeHosts
<1>5. EdgeUp(m)
  BY <1>2, <1>3, <1>4 DEF EdgeUp
<1>6. EdgePackets'
  BY <1>0, <1>1, <1>5, PacketsEdge DEF EdgePackets
<1>7. EdgeHosts'
  <2>1. \A b \in Consumer : asked'[b] = IF b = c THEN asked[b] \cup {i} ELSE asked[b]
    BY <1>1 DEF IInv, HostInv
  <2>. QED  BY <1>0, <1>1, <1>2, <1>4, <2>1 DEF EdgeHosts
<1>. QED  BY <1>0, <1>1, <1>6, <1>7, SameEdge DEF EdgeInv

LEMMA RetransmitEdge ==
  ASSUME IInv, Routed, EdgeInv, NEW c \in Consumer, Retransmit(c)
  PROVE  EdgeInv'
<1>0. EdgePackets /\ EdgeCaches /\ EdgeHosts /\ SoundRunsOn
  BY DEF EdgeInv
<1>1. PICK i \in asked[c] :
        LET j == IF "reused-interest" \in Defects
                 THEN [i EXCEPT !.trk = Update(@, c)] ELSE i
        IN  /\ interests' = interests \cup {Packet(c, Up[c], j)}
            /\ asked' = [asked EXCEPT ![c] = (@ \ {i}) \cup {j}]
            /\ UNCHANGED <<datas, pit, cs, cache, tag, crashed>>
  BY DEF Retransmit
<1>. DEFINE j == IF "reused-interest" \in Defects
                 THEN [i EXCEPT !.trk = Update(@, c)] ELSE i
            m == Packet(c, Up[c], j)
<1>2. /\ i \in Interest /\ i.trk \in Tracker(Id) /\ i.trk.net = "ENTRY"
      /\ Telling(i) /\ i.trk.entry \cap Router = {}
  BY <1>0 DEF Routed, HomeInv, PendingInterest, OwnInterest, HonestInterest, Interest,
              EdgeHosts
<1>3. Update(i.trk, c).entry \cap Router = {}
  <2>1. Update(i.trk, c).entry = Flip(i.trk.entry, c)
    BY <1>2, NotConsumers, UpdateFields
  <2>. QED  BY <1>2, <2>1, NodesAssumption DEF Flip
<1>4. /\ j.owner = i.owner /\ j.tag = i.tag /\ j.vouched = i.vouched
      /\ j.trk.entry \cap Router = {}
  BY <1>2, <1>3 DEF Interest
<1>5. /\ interests' = interests \cup {m}
      /\ asked' = [asked EXCEPT ![c] = (@ \ {i}) \cup {j}]
      /\ UNCHANGED <<datas, pit, cs, cache, tag, crashed>>
  BY <1>1
<1>. HIDE DEF j
<1>6. m.from = c /\ m.pkt = j
  BY DEF Packet
<1>. HIDE DEF m
<1>7. Telling(j)
  BY <1>2, <1>4 DEF Telling
<1>8. EdgeUp(m)
  BY <1>4, <1>6, <1>7 DEF EdgeUp
<1>9. EdgePackets'
  BY <1>0, <1>5, <1>8, PacketsEdge DEF EdgePackets
<1>10. EdgeHosts'
  <2>1. \A b \in Consumer :
          asked'[b] = IF b = c THEN (asked[b] \ {i}) \cup {j} ELSE asked[b]
    BY <1>5 DEF IInv, HostInv
  <2>. QED  BY <1>0, <1>4, <1>5, <1>7, <2>1 DEF EdgeHosts
<1>. QED  BY <1>0, <1>5, <1>9, <1>10, SameEdge DEF EdgeInv

LEMMA ReceiveAnswerEdge ==
  ASSUME IInv, EdgeInv, NEW c \in Consumer, NEW m \in datas, ReceiveAnswer(c, m)
  PROVE  EdgeInv'
<1>0. EdgePackets /\ EdgeCaches /\ EdgeHosts /\ SoundRunsOn
  BY DEF EdgeInv
<1>1. /\ datas' = datas \ {m}
      /\ asked' = [asked EXCEPT ![c] = {i \in @ : i.name # m.pkt.name}]
      /\ tag' = [tag EXCEPT ![c] = Spoilt(c, m.pkt.grant)] \/ tag' = tag
      /\ UNCHANGED <<interests, pit, cs, cache, crashed>>
  BY DEF ReceiveAnswer
<1>2. EdgePackets'
  BY <1>0, <1>1, PacketsEdge DEF EdgePackets
<1>3. ASSUME NEW b \in Consumer, tag'[b] # NoTag, Sound(b)
      PROVE  tag'[b].loc = "producer"
  <2>1. tag'[b] = tag[b] \/ tag'[b] = Spoilt(b, m.pkt.grant)
    BY <1>1 DEF IInv, HostInv
  <2>2. Spoilt(b, m.pkt.grant).loc = "producer"
    BY <1>3 DEF Spoilt, Sound
  <2>. QED  BY <1>0, <1>3, <2>1, <2>2 DEF EdgeHosts
<1>4. \A b \in Consumer : asked'[b] \subseteq asked[b]
  BY <1>1 DEF IInv, HostInv
<1>5. EdgeHosts'
  BY <1>0, <1>3, <1>4 DEF EdgeHosts
<1>. QED  BY <1>0, <1>1, <1>2, <1>5, SameEdge DEF EdgeInv

-----------------------------------------------------------------------------
\* Actions of the routers.
LEMMA AnswerFromStoreEdge ==
  ASSUME IInv, Routed, EdgeInv, NEW n \in Router, NEW m \in interests,
         AnswerFromStore(n, m)
  PROVE  EdgeInv'
<1>0. /\ RouteInv /\ NetworkInv
      /\ EdgePackets /\ EdgeCaches /\ EdgeHosts /\ SoundRunsOn
  BY DEF Routed, IInv, EdgeInv
<1>1. PICK d \in Matches(n, m.pkt.name) : Serve(n, <<InRecord(n, m)>>, 1, d, datas)
  BY DEF AnswerFromStore
<1>2. m.to = n /\ interests' = interests \ {m} /\ UNCHANGED <<pit, cs, hosts>>
  BY DEF AnswerFromStore, Accepted
<1>3. d \in DataAt(n) /\ EdgeData(d) /\ d.name = m.pkt.name /\ m \in UpInterest
      /\ EdgeUp(m)
  BY <1>0 DEF Matches, RouteInv, EdgePackets
<1>4. InRecord(n, m) \in RecordOf(n, d.name) /\ InRecord(n, m) \in EdgeRecords
  BY <1>2, <1>3, RecordRouted, RecordEdge
<1>. DEFINE recs == <<InRecord(n, m)>>
<1>5. recs \in Seq(RecordOf(n, d.name)) /\ recs \in Seq(EdgeRecords) /\ Len(recs) = 1
  BY <1>4
<1>6. 1 \in 1..(Len(recs) + 1)
  BY <1>5
<1>. HIDE DEF recs
<1>7. Serve(n, recs, 1, d, datas) /\ \A a \in datas : EdgeDown(a)
  BY <1>0, <1>1 DEF recs, EdgePackets
<1>8. (\A a \in datas' : EdgeDown(a)) /\ EdgeCaches' /\ SoundRunsOn'
  BY <1>0, <1>3, <1>5, <1>6, <1>7, ServeEdge
<1>9. EdgePackets'
  BY <1>0, <1>2, <1>8, PacketsEdge DEF EdgePackets
<1>. QED  BY <1>0, <1>2, <1>8, <1>9, HostsEdge DEF EdgeInv

LEMMA AggregateEdge ==
  ASSUME IInv, Routed, EdgeInv, NEW n \in Router, NEW m \in interests,
         AggregateInterest(n, m)
  PROVE  EdgeInv'
<1>0. /\ RouteInv /\ NetworkInv
      /\ EdgePackets /\ EdgeCaches /\ EdgeHosts /\ SoundRunsOn
  BY DEF Routed, IInv, EdgeInv
<1>. DEFINE x == m.pkt.name
            recs == Append(pit[n][x], InRecord(n, m))
<1>1. /\ m.to = n /\ interests' = interests \ {m}
      /\ pit' = [pit EXCEPT ![n][x] = recs]
      /\ UNCHANGED <<datas, cs, cache, hosts, crashed>>
  BY DEF AggregateInterest, Missed, Accepted
<1>2. x \in Name /\ InRecord(n, m) \in EdgeRecords /\ pit[n][x] \in Seq(EdgeRecords)
  BY <1>0, <1>1, InFlight, RecordEdge DEF RouteInv, EdgePackets
<1>3. recs \in Seq(EdgeRecords)
  BY <1>2
<1>. HIDE DEF recs, x
<1>4. \A l \in Router, y \in Name : pit'[l][y] \in Seq(EdgeRecords)
  BY <1>0, <1>1, <1>2, <1>3, EntryEdge
<1>5. EdgePackets'
  BY <1>0, <1>1, <1>4 DEF EdgePackets
<1>. QED  BY <1>0, <1>1, <1>5, HostsEdge, SameEdge DEF EdgeInv

LEMMA ForwardEdge ==
  ASSUME IInv, Routed, EdgeInv, NEW n \in Router, NEW m \in interests,
         ForwardInterest(n, m)
  PROVE  EdgeInv'
<1>0. /\ RouteInv /\ NetworkInv
      /\ EdgePackets /\ EdgeCaches /\ EdgeHosts /\ SoundRunsOn
  BY DEF Routed, IInv, EdgeInv
<1>. DEFINE x == m.pkt.name
            recs == Append(pit[n][x], InRecord(n, m))
            picked == Head(recs)
            result == FilterOutgoingInterest(n, picked.from, picked.pkt, cache[n])
            m2 == Packet(n, Up[n], result.pkt)
<1>1. /\ m.to = n
      /\ interests' = (interests \ {m}) \cup (IF result.sent THEN {m2} ELSE {})
      /\ pit' = [pit EXCEPT ![n][x] = recs]
      /\ cache' = [cache EXCEPT ![n] = result.cache]
      /\ UNCHANGED <<datas, cs, hosts, crashed>>
  BY DEF ForwardInterest, Missed, Accepted
<1>2. /\ x \in Name
      /\ InRecord(n, m) \in EdgeRecords /\ InRecord(n, m) \in RecordOf(n, x)
      /\ pit[n][x] \in Seq(EdgeRecords) /\ pit[n][x] \in Seq(RecordOf(n, x))
  BY <1>0, <1>1, InFlight, RecordEdge, RecordRouted DEF RouteInv, EdgePackets
<1>3. recs \in Seq(EdgeRecords) /\ recs \in Seq(RecordOf(n, x)) /\ recs # <<>>
  BY <1>2
<1>. HIDE DEF recs, x
<1>4. picked \in RecordOf(n, x) /\ picked \in EdgeRecords
  BY <1>3
<1>5. EdgeRecord(picked) /\ cache[n] \in HonestCaches /\ Learns(n, cache[n])
  BY <1>0, <1>4 DEF EdgeRecords, NetworkInv, EdgeCaches
<1>6. (result.sent => EdgeUp(m2)) /\ Learns(n, result.cache)
  BY <1>4, <1>5, FilterEdge
<1>. HIDE DEF m2, result
<1>7. \A a \in interests' : EdgeUp(a)
  BY <1>0, <1>1, <1>6 DEF EdgePackets
<1>8. \A l \in Router, y \in Name : pit'[l][y] \in Seq(EdgeRecords)
  BY <1>0, <1>1, <1>2, <1>3, EntryEdge
<1>9. EdgePackets'
  BY <1>0, <1>1, <1>7, <1>8 DEF EdgePackets
<1>10. EdgeCaches'
  <2>1. \A l \in Router : cache'[l] = IF l = n THEN result.cache ELSE cache[l]
    BY <1>0, <1>1 DEF NetworkInv
  <2>2. \A l \in Router : Learns(l, cache'[l])
    BY <1>0, <1>6, <2>1 DEF EdgeCaches
  <2>. QED  BY <2>2 DEF EdgeCaches, Learns
<1>. QED  BY <1>0, <1>1, <1>9, <1>10, HostsEdge, SameEdge DEF EdgeInv

LEMMA ReceiveDataEdge ==
  ASSUME IInv, Routed, EdgeInv, NEW n \in Router, NEW m \in datas, ReceiveData(n, m)
  PROVE  EdgeInv'
<1>0. /\ RouteInv /\ NetworkInv
      /\ EdgePackets /\ EdgeCaches /\ EdgeHosts /\ SoundRunsOn
  BY DEF Routed, IInv, EdgeInv
<1>. DEFINE d == m.pkt
            recs == pit[n][d.name]
<1>1. /\ m.to = n
      /\ \E S \in Stored(cs[n], d) : cs' = [cs EXCEPT ![n] = S]
      /\ pit' = [pit EXCEPT ![n][d.name] = <<>>]
      /\ \E k \in 1..(Len(recs) + 1) : Serve(n, recs, k, d, datas \ {m})
      /\ UNCHANGED <<interests, hosts>>
  BY DEF ReceiveData
<1>2. /\ d \in DataAt(n) /\ EdgeData(d) /\ d.name \in Name
      /\ recs \in Seq(RecordOf(n, d.name)) /\ recs \in Seq(EdgeRecords)
  BY <1>0, <1>1, InFlight DEF RouteInv, DownData, EdgePackets, EdgeDown
<1>3. \A l \in Router \cup {Provider} : \A e \in cs'[l] : EdgeData(e)
  BY <1>0, <1>1, <1>2, StoreEdge
<1>4. \A a \in datas \ {m} : EdgeDown(a)
  BY <1>0 DEF EdgePackets
<1>5. <<>> \in Seq(EdgeRecords)
  OBVIOUS
<1>. HIDE DEF recs, d
<1>6. \A l \in Router, y \in Name : pit'[l][y] \in Seq(EdgeRecords)
  BY <1>0, <1>1, <1>2, <1>5, EntryEdge
<1>7. (\A a \in datas' : EdgeDown(a)) /\ EdgeCaches' /\ SoundRunsOn'
  BY <1>0, <1>1, <1>2, <1>4, ServeEdge
<1>8. EdgePackets'
  BY <1>0, <1>1, <1>3, <1>6, <1>7 DEF EdgePackets
<1>. QED  BY <1>0, <1>1, <1>7, <1>8, HostsEdge DEF EdgeInv

LEMMA IgnoreDataEdge ==
  ASSUME IInv, EdgeInv, NEW n \in Router, NEW m \in datas, IgnoreData(n, m)
  PROVE  EdgeInv'
<1>0. NetworkInv /\ EdgePackets /\ EdgeCaches /\ EdgeHosts /\ SoundRunsOn
  BY DEF IInv, EdgeInv
<1>1. /\ m.to = n /\ datas' = datas \ {m}
      /\ \E S \in Stored(cs[n], m.pkt) \cup {cs[n]} : cs' = [cs EXCEPT ![n] = S]
      /\ UNCHANGED <<interests, pit, cache, hosts, crashed>>
  BY DEF IgnoreData
<1>2. EdgeData(m.pkt)
  BY <1>0 DEF EdgePackets, EdgeDown
<1>3. \A l \in Router \cup {Provider} : \A e \in cs'[l] : EdgeData(e)
  BY <1>0, <1>1, <1>2, StoreEdge
<1>4. EdgePackets'
  BY <1>0, <1>1, <1>3 DEF EdgePackets
<1>. QED  BY <1>0, <1>1, <1>4, HostsEdge, SameEdge DEF EdgeInv

LEMMA EraseEdge ==
  ASSUME IInv, EdgeInv, NEW n \in Router, NEW x \in Name, Erase(n, x)
  PROVE  EdgeInv'
<1>0. NetworkInv /\ EdgePackets /\ EdgeCaches /\ EdgeHosts /\ SoundRunsOn
  BY DEF IInv, EdgeInv
<1>1. /\ pit' = [pit EXCEPT ![n][x] = <<>>]
      /\ UNCHANGED <<interests, datas, cs, cache, hosts, crashed>>
  BY DEF Erase
<1>2. <<>> \in Seq(EdgeRecords)
  OBVIOUS
<1>3. \A l \in Router, y \in Name : pit'[l][y] \in Seq(EdgeRecords)
  BY <1>0, <1>1, <1>2, EntryEdge
<1>4. EdgePackets'
  BY <1>0, <1>1, <1>3 DEF EdgePackets
<1>. QED  BY <1>0, <1>1, <1>4, HostsEdge, SameEdge DEF EdgeInv

-----------------------------------------------------------------------------
\* Actions of the producer's node.
LEMMA ProviderStoreEdge ==
  ASSUME IInv, Routed, EdgeInv, NEW m \in interests, AnswerFromProviderStore(m)
  PROVE  EdgeInv'
<1>0. EdgePackets /\ EdgeCaches /\ EdgeHosts /\ SoundRunsOn
  BY DEF EdgeInv
<1>1. PICK d \in Matches(Provider, m.pkt.name) : SendFromProvider(m, d)
  BY DEF AnswerFromProviderStore
<1>2. m.to = Provider /\ UNCHANGED <<pit, cs, cache, hosts, crashed>>
  BY DEF AnswerFromProviderStore
<1>3. d \in DataAt(Provider) /\ EdgeData(d) /\ m \in UpInterest
  BY <1>0 DEF Matches, Routed, RouteInv, EdgePackets
<1>4. /\ \A a \in interests' : EdgeUp(a)
      /\ \A a \in datas' : EdgeDown(a)
  BY <1>0, <1>1, <1>2, <1>3, ProviderSendsEdge
<1>5. EdgePackets'
  BY <1>0, <1>2, <1>4, PacketsEdge
<1>. QED  BY <1>0, <1>2, <1>5, HostsEdge, SameEdge DEF EdgeInv

LEMMA ProduceEdge ==
  ASSUME IInv, Routed, EdgeInv, NEW m \in interests, Produce(m)
  PROVE  EdgeInv'
<1>0. /\ NetworkInv /\ RouteInv
      /\ EdgePackets /\ EdgeCaches /\ EdgeHosts /\ SoundRunsOn
  BY DEF IInv, Routed, EdgeInv
<1>. DEFINE d == Reply(Arrived(Provider, m))
<1>1. /\ m.to = Provider
      /\ SendFromProvider(m, d)
      /\ \E S \in Stored(cs[Provider], d) : cs' = [cs EXCEPT ![Provider] = S]
      /\ UNCHANGED <<pit, cache, hosts, crashed>>
  BY DEF Produce
<1>2. m \in UpInterest /\ EdgeUp(m)
  BY <1>0 DEF RouteInv, EdgePackets
<1>3. d \in DataAt(Provider) /\ EdgeData(d)
  BY <1>1, <1>2, ReplyRouted, ReplyEdge
<1>. HIDE DEF d
<1>4. /\ \A a \in interests' : EdgeUp(a)
      /\ \A a \in datas' : EdgeDown(a)
  BY <1>0, <1>1, <1>2, <1>3, ProviderSendsEdge
<1>5. \A l \in Router \cup {Provider} : \A e \in cs'[l] : EdgeData(e)
  BY <1>0, <1>1, <1>3, StoreEdge
<1>6. EdgePackets'
  BY <1>0, <1>1, <1>4, <1>5 DEF EdgePackets
<1>. QED  BY <1>0, <1>1, <1>6, HostsEdge, SameEdge DEF EdgeInv

\* The key locator the producer misses is that of a spoilt tag.
LEMMA ProducerFaultEdge ==
  ASSUME IInv, EdgeInv, NEW m \in interests, ProducerFault(m)
  PROVE  EdgeInv'
<1>0. EdgePackets /\ EdgeCaches /\ EdgeHosts /\ SoundRunsOn
  BY DEF EdgeInv
<1>1. /\ ProducerCrashes(m.pkt)
      /\ UNCHANGED <<interests, datas, pit, cs, cache, hosts>>
  BY DEF ProducerFault
<1>2. ~AllSound
  <2>1. m.pkt.tag # NoTag /\ m.pkt.tag.loc = "none"
    BY <1>1 DEF ProducerCrashes
  <2>2. Telling(m.pkt)
    BY <1>0 DEF EdgePackets, EdgeUp, Entered
  <2>3. m.pkt.owner \in Consumer
    BY InFlight DEF IInv, HonestInterest, Interest
  <2>. QED  BY <2>1, <2>2, <2>3 DEF Telling, AllSound
<1>3. SoundRunsOn'
  BY <1>2 DEF SoundRunsOn, AllSound, Sound
<1>4. EdgePackets'
  BY <1>0, <1>1, PacketsEdge DEF EdgePackets
<1>. QED  BY <1>0, <1>1, <1>3, <1>4, HostsEdge, SameEdge DEF EdgeInv

\* Actions that only drop a packet.
LEMMA DropEdge ==
  ASSUME EdgeInv, interests' \subseteq interests, datas' \subseteq datas,
         UNCHANGED <<pit, cs, cache, hosts, crashed>>
  PROVE  EdgeInv'
<1>1. EdgePackets'
  BY PacketsEdge DEF EdgeInv, EdgePackets
<1>. QED  BY <1>1, HostsEdge, SameEdge DEF EdgeInv

LEMMA NextEdge == IInv /\ Routed /\ EdgeInv /\ [Next]_vars => EdgeInv'
<1>. SUFFICES ASSUME IInv, Routed, EdgeInv, [Next]_vars PROVE EdgeInv'
  OBVIOUS
<1>1. ASSUME NEW c \in Consumer, NEW x \in Name, Request(c, x) PROVE EdgeInv'
  BY <1>1, RequestEdge
<1>2. ASSUME NEW c \in Consumer, Retransmit(c) PROVE EdgeInv'
  BY <1>2, RetransmitEdge
<1>3. ASSUME NEW c \in Consumer, NEW m \in datas, ReceiveAnswer(c, m) PROVE EdgeInv'
  BY <1>3, ReceiveAnswerEdge
<1>4. ASSUME NEW n \in Router, NEW m \in interests, LoopInterest(n, m) PROVE EdgeInv'
  BY <1>4, DropEdge DEF LoopInterest
<1>5. ASSUME NEW n \in Router, NEW m \in interests, AnswerFromStore(n, m) PROVE EdgeInv'
  BY <1>5, AnswerFromStoreEdge
<1>6. ASSUME NEW n \in Router, NEW m \in interests, AggregateInterest(n, m) PROVE EdgeInv'
  BY <1>6, AggregateEdge
<1>7. ASSUME NEW n \in Router, NEW m \in interests, ForwardInterest(n, m) PROVE EdgeInv'
  BY <1>7, ForwardEdge
<1>8. ASSUME NEW n \in Router, NEW m \in datas, ReceiveData(n, m) PROVE EdgeInv'
  BY <1>8, ReceiveDataEdge
<1>9. ASSUME NEW n \in Router, NEW m \in datas, IgnoreData(n, m) PROVE EdgeInv'
  BY <1>9, IgnoreDataEdge
<1>10. ASSUME NEW n \in Router, NEW x \in Name, Erase(n, x) PROVE EdgeInv'
  BY <1>10, EraseEdge
<1>11. ASSUME NEW m \in interests, AnswerFromProviderStore(m) PROVE EdgeInv'
  BY <1>11, ProviderStoreEdge
<1>12. ASSUME NEW m \in interests, Produce(m) PROVE EdgeInv'
  BY <1>12, ProduceEdge
<1>13. ASSUME NEW m \in interests, ProducerFault(m) PROVE EdgeInv'
  BY <1>13, ProducerFaultEdge
<1>14. CASE Lose
  BY <1>14, DropEdge DEF Lose
<1>15. CASE UNCHANGED vars
  BY <1>15, DropEdge DEF vars, hosts
<1>. QED
  BY <1>1, <1>2, <1>3, <1>4, <1>5, <1>6, <1>7, <1>8, <1>9, <1>10, <1>11, <1>12,
     <1>13, <1>14, <1>15 DEF Next

LEMMA EdgeInvariance == Spec => []EdgeInv
<1>1. Init => EdgeInv
  BY InitEdge
<1>. QED  BY <1>1, NextEdge, Invariance, RoutedInvariance, PTL DEF Spec

\* In every topology, and with whatever packets are lost, retransmitted,
\* aggregated, stored or denied, the simulation runs on if no consumer's
\* configuration spoils its tags: the faults of the code are reached through
\* denials and spoilt tags alone, also when retransmissions alter the
\* Interests pending.
THEOREM RunsOnWhenSound == Spec => []SoundRunsOn
<1>1. EdgeInv => SoundRunsOn
  BY DEF EdgeInv
<1>. QED  BY <1>1, EdgeInvariance, PTL

-----------------------------------------------------------------------------
\* The steps of the network between consumers.

\* Consumers' requests come from consumers: those of the next state were there.
LEMMA NoNewRequests ==
  ASSUME \A m \in interests' : m.from \in Consumer => m \in interests,
         \A c \in Consumer, x \in Name :
           InPit(c, x)' => \/ InPit(c, x)
                           \/ \E m \in interests : m.from = c /\ m.pkt.name = x
  PROVE  Requests' \in SUBSET Requests
BY DEF Requests

\* What is sent to consumers is sent to those who asked.
Solicited(m) == [from |-> m.to, name |-> m.pkt.name] \in Requests

Delivery ==
  /\ ~crashed /\ UNCHANGED hosts /\ Requests' \in SUBSET Requests
  /\ \A m \in datas' : m.to \in Consumer => m \in datas \/ Solicited(m)

\* What consumers do is nobody's doing but theirs, whatever they may have.
ConsumerMove ==
  /\ ~crashed /\ UNCHANGED crashed
  /\ \/ \E c \in Consumer, x \in Name : Policy!Ask(c, x) \/ Policy!AskAgain(c, x)
     \/ \E a \in Arriving : Policy!Receive(a)

\* Data that a router serves to a consumer answers a request.
LEMMA ServeSolicited ==
  ASSUME NEW n \in Router, NEW d \in DataAt(n),
         NEW recs \in Seq(RecordOf(n, d.name)), NEW k \in 1..(Len(recs) + 1),
         NEW left, Serve(n, recs, k, d, left), d.name \in Name,
         \A j \in 1..Len(recs) : recs[j].from \in Consumer =>
           [from |-> recs[j].from, name |-> d.name] \in Requests
  PROVE  \A m \in datas' : m.to \in Consumer =>
           m \in left \/ Solicited(m)
<1>. DEFINE crash(j) == Crashes(n, recs[j].from, recs[j].pkt, d)
            throws(j) == Throws(n, recs[j].from, recs[j].pkt, d)
            fails  == {j \in k..Len(recs) : crash(j) \/ throws(j)}
            served == {j \in k..Len(recs) : \A f \in fails : f < j}
            answer(j) == Stamped(Judged(n, recs[j].from, recs[j].pkt, d), n)
<1>1. datas' = left \cup {Packet(n, recs[j].from, answer(j)) : j \in served}
  BY DEF Serve
<1>2. served \in SUBSET (1..Len(recs))
  BY RecordsRouted
<1>3. ASSUME NEW j \in served PROVE d.trk # NoTracker
  <2>1. j \notin fails
    BY <1>2
  <2>2. ~throws(j)
    BY <2>1
  <2>. QED  BY <2>2 DEF Throws
<1>. HIDE DEF fails, served
<1>4. ASSUME NEW j \in served, recs[j].from \in Consumer
      PROVE  Solicited(Packet(n, recs[j].from, answer(j)))
  <2>. DEFINE e == Judged(n, recs[j].from, recs[j].pkt, d)
  <2>1. recs[j] \in RecordOf(n, d.name)
    BY <1>2, RecordsRouted
  <2>2. e \in Data /\ e.name = d.name
    BY <1>3, <2>1, JudgedRouted DEF RightfulData
  <2>. HIDE DEF e
  <2>3. Stamped(e, n).name = d.name
    BY <2>2 DEF Stamped, Data
  <2>4. LET m == Packet(n, recs[j].from, Stamped(e, n))
        IN  m.to = recs[j].from /\ m.pkt.name = d.name
    BY <2>3 DEF Packet
  <2>5. Solicited(Packet(n, recs[j].from, Stamped(e, n)))
    BY <1>2, <1>4, <2>4 DEF Solicited
  <2>. QED  BY <2>5 DEF e
<1>5. \A j \in served : Packet(n, recs[j].from, answer(j)).to = recs[j].from
  BY DEF Packet
<1>. QED  BY <1>1, <1>4, <1>5

\* The in-records of an edge for the Interests of a consumer.
LEMMA RecordIsRequest ==
  ASSUME NEW n \in Router, NEW x \in Name, pit[n][x] \in Seq(RecordOf(n, x)),
         NEW j \in 1..Len(pit[n][x]), pit[n][x][j].from \in Consumer
  PROVE  [from |-> pit[n][x][j].from, name |-> x] \in Requests
<1>1. pit[n][x][j] \in RecordOf(n, x)
  BY RecordsRouted
<1>2. Up[pit[n][x][j].from] = n
  BY <1>1, RecordFacts
<1>3. InPit(pit[n][x][j].from, x)
  BY <1>2 DEF InPit
<1>. QED  BY <1>3 DEF Requests

\* An entry that has a new record, that of an Interest that has arrived.
LEMMA RecordAdded ==
  ASSUME IInv, Routed, NEW n \in Router, NEW m \in interests, m.to = n,
         pit' = [pit EXCEPT ![n][m.pkt.name] = Append(@, InRecord(n, m))]
  PROVE  \A c \in Consumer, x \in Name :
           InPit(c, x)' => \/ InPit(c, x)
                           \/ \E p \in interests : p.from = c /\ p.pkt.name = x
<1>. SUFFICES ASSUME NEW c \in Consumer, NEW x \in Name, InPit(c, x)', ~InPit(c, x)
              PROVE  m.from = c /\ m.pkt.name = x
  OBVIOUS
<1>1. pit \in [Router -> [Name -> Seq(AnyRecord)]] /\ m.pkt.name \in Name
      /\ Up[c] \in Router /\ InRecord(n, m) \in AnyRecord
  BY InFlight, NotConsumers, RecordMade DEF IInv, NetworkInv, Record
<1>2. PICK k \in DOMAIN pit'[Up[c]][x] : pit'[Up[c]][x][k].from = c
  BY DEF InPit
<1>3. Up[c] = n /\ x = m.pkt.name
  BY <1>1, <1>2 DEF InPit
<1>. DEFINE recs == pit[n][x]
<1>4. recs \in Seq(AnyRecord) /\ pit'[n][x] = Append(recs, InRecord(n, m))
  BY <1>1, <1>3
<1>5. k \in 1..(Len(recs) + 1)
      /\ pit'[n][x][k] = IF k <= Len(recs) THEN recs[k] ELSE InRecord(n, m)
  <2>. HIDE DEF recs
  <2>. QED  BY <1>1, <1>2, <1>3, <1>4
<1>6. ~(k \in 1..Len(recs))
  <2>1. DOMAIN recs = 1..Len(recs)
    BY <1>4
  <2>. QED  BY <1>2, <1>3, <1>5, <2>1 DEF InPit
<1>7. pit'[n][x][k] = InRecord(n, m)
  BY <1>5, <1>6
<1>. QED  BY <1>2, <1>3, <1>7 DEF InRecord

\* An entry that loses its records.
LEMMA RecordsGone ==
  ASSUME IInv, NEW n \in Router, NEW x \in Name, pit' = [pit EXCEPT ![n][x] = <<>>]
  PROVE  \A c \in Consumer, y \in Name : InPit(c, y)' => InPit(c, y)
<1>1. pit \in [Router -> [Name -> Seq(AnyRecord)]]
  BY DEF IInv, NetworkInv
<1>. SUFFICES ASSUME NEW c \in Consumer, NEW y \in Name, InPit(c, y)' PROVE InPit(c, y)
  OBVIOUS
<1>2. PICK k \in DOMAIN pit'[Up[c]][y] : pit'[Up[c]][y][k].from = c
  BY DEF InPit
<1>3. Up[c] \in Router
  BY NotConsumers
<1>4. ~(Up[c] = n /\ y = x)
  BY <1>1, <1>2
<1>5. pit'[Up[c]][y] = pit[Up[c]][y]
  BY <1>1, <1>3, <1>4
<1>. QED  BY <1>2, <1>5 DEF InPit

LEMMA SamePit ==
  ASSUME UNCHANGED pit
  PROVE  \A c \in Consumer, y \in Name : InPit(c, y)' <=> InPit(c, y)
BY DEF InPit

-----------------------------------------------------------------------------
\* Consumers.
LEMMA RequestStep ==
  ASSUME IInv, Routed, NEW c \in Consumer, NEW x \in Name, Request(c, x)
  PROVE  ConsumerMove
<1>. DEFINE i == [name |-> x, owner |-> c, nonce |-> sends[c],
                  tag |-> IF x = c THEN NoTag ELSE tag[c],
                  trk |-> Update(FreshTracker, c), vouched |-> FALSE]
            m == Packet(c, Up[c], i)
<1>1. /\ ~crashed /\ c \notin waiting /\ ~Pending(c, x)
      /\ IF HasAuth(c) THEN x \in Content ELSE x = c
      /\ interests' = interests \cup {m}
      /\ asked' = [asked EXCEPT ![c] = @ \cup {i}]
      /\ waiting' = IF x = c THEN waiting \cup {c} ELSE waiting
      /\ UNCHANGED <<datas, pit, tag, crashed>>
  BY DEF Request
<1>2. i.name = x /\ m.from = c /\ m.pkt = i
  BY DEF Packet
<1>. HIDE DEF i, m
<1>3. asked \in [Consumer -> SUBSET HonestInterest]
  BY DEF IInv, HostInv
<1>4. PendingNames' = [PendingNames EXCEPT ![c] = @ \cup {x}]
  BY <1>1, <1>2, <1>3 DEF PendingNames
<1>5. Requests' = Requests \cup {[from |-> c, name |-> x]}
  BY <1>1, <1>2, SamePit DEF Requests
<1>6. Holders' = Holders /\ Arriving' = Arriving
  BY <1>1 DEF Holders, Arriving
<1>7. x = c \/ (x \in Content /\ c \in Holders)
  BY <1>1 DEF HasAuth, Holders
<1>8. x \notin PendingNames[c]
  BY <1>1 DEF PendingNames, Pending
<1>9. Policy!Ask(c, x)
  BY <1>1, <1>4, <1>5, <1>6, <1>7, <1>8 DEF Policy!Ask, Policy!Request
<1>. QED  BY <1>1, <1>9 DEF ConsumerMove

LEMMA RetransmitStep ==
  ASSUME IInv, Routed, NEW c \in Consumer, Retransmit(c)
  PROVE  ConsumerMove
<1>1. PICK i \in asked[c] :
        LET j == IF "reused-interest" \in Defects
                 THEN [i EXCEPT !.trk = Update(@, c)] ELSE i
        IN  /\ ~crashed
            /\ interests' = interests \cup {Packet(c, Up[c], j)}
            /\ asked' = [asked EXCEPT ![c] = (@ \ {i}) \cup {j}]
            /\ UNCHANGED <<datas, pit, tag, waiting, crashed>>
  BY DEF Retransmit
<1>. DEFINE j == IF "reused-interest" \in Defects
                 THEN [i EXCEPT !.trk = Update(@, c)] ELSE i
            x == i.name
            m == Packet(c, Up[c], j)
<1>2. asked \in [Consumer -> SUBSET HonestInterest] /\ i \in Interest /\ x \in Name
  BY DEF IInv, HostInv, HonestInterest, Interest
<1>3. j.name = x
  BY <1>2 DEF Interest
<1>4. /\ ~crashed /\ interests' = interests \cup {m}
      /\ asked' = [asked EXCEPT ![c] = (@ \ {i}) \cup {j}]
      /\ UNCHANGED <<datas, pit, tag, waiting, crashed>>
  BY <1>1
<1>. HIDE DEF j
<1>5. m.from = c /\ m.pkt = j
  BY DEF Packet
<1>. HIDE DEF m
<1>6. \A b \in Consumer :
        asked'[b] = IF b = c THEN (asked[b] \ {i}) \cup {j} ELSE asked[b]
  BY <1>2, <1>4
<1>7. PendingNames' = PendingNames
  <2>1. {a.name : a \in asked'[c]} = {a.name : a \in asked[c]}
    BY <1>3, <1>6
  <2>. QED  BY <1>6, <2>1 DEF PendingNames
<1>8. Requests' = Requests \cup {[from |-> c, name |-> x]}
  BY <1>2, <1>3, <1>4, <1>5, SamePit DEF Requests
<1>9. Holders' = Holders /\ Arriving' = Arriving
  BY <1>4 DEF Holders, Arriving
<1>10. x \in PendingNames[c]
  BY DEF PendingNames
<1>11. Policy!AskAgain(c, x)
  BY <1>4, <1>7, <1>8, <1>9, <1>10 DEF Policy!AskAgain, Policy!Request
<1>. QED  BY <1>2, <1>4, <1>11 DEF ConsumerMove

LEMMA ReceiveAnswerStep ==
  ASSUME IInv, Routed, NEW c \in Consumer, NEW m \in datas, ReceiveAnswer(c, m)
  PROVE  ConsumerMove
<1>. DEFINE d == m.pkt
            a == AnswerIn(m)
            granted == d.kind = "Auth" /\ Pending(c, d.name)
<1>1. /\ ~crashed /\ m.to = c
      /\ datas' = datas \ {m}
      /\ asked' = [asked EXCEPT ![c] = {i \in @ : i.name # d.name}]
      /\ tag' = IF granted THEN [tag EXCEPT ![c] = Spoilt(c, d.grant)] ELSE tag
      /\ waiting' = IF granted THEN waiting \ {c} ELSE waiting
      /\ UNCHANGED <<interests, pit, crashed>>
  BY DEF ReceiveAnswer
<1>2. a.to = c /\ a.name = d.name /\ a.kind = d.kind /\ a \in Arriving
  BY <1>1 DEF AnswerIn, Arriving
<1>3. granted <=> a.kind = "Auth" /\ a.name \in PendingNames[c]
  BY <1>2 DEF Pending, PendingNames
<1>4. Arriving' \in {Arriving, Arriving \ {a}}
  BY <1>1 DEF Arriving
<1>. HIDE DEF granted
<1>5. /\ asked \in [Consumer -> SUBSET HonestInterest]
      /\ tag \in [Consumer -> Tag \cup {NoTag}]
      /\ d.grant \in SUBSET Id
  BY InFlight DEF IInv, HostInv, RightfulData, Data
<1>6. PendingNames' = [PendingNames EXCEPT ![c] = @ \ {d.name}]
  <2>1. \A b \in Consumer :
          asked'[b] = IF b = c THEN {i \in asked[b] : i.name # d.name} ELSE asked[b]
    BY <1>1, <1>5
  <2>. QED  BY <2>1 DEF PendingNames
<1>7. Holders' = IF granted THEN Holders \cup {c} ELSE Holders
  <2>1. Spoilt(c, d.grant) # NoTag
    BY <1>5, SpoiltType, NoneAssumption DEF Tag
  <2>. QED  BY <1>1, <1>5, <2>1 DEF Holders
<1>8. Requests' = Requests
  BY <1>1, SamePit DEF Requests
<1>. HIDE DEF a, d
<1>9. Policy!Receive(a)
  BY <1>1, <1>2, <1>3, <1>4, <1>6, <1>7, <1>8 DEF Policy!Receive
<1>. QED  BY <1>1, <1>2, <1>9 DEF ConsumerMove

-----------------------------------------------------------------------------
\* Routers.
LEMMA AnswerFromStoreStep ==
  ASSUME IInv, Routed, NEW n \in Router, NEW m \in interests,
         AnswerFromStore(n, m)
  PROVE  Delivery
<1>0. RouteInv /\ NetworkInv
  BY DEF Routed, IInv
<1>1. PICK d \in Matches(n, m.pkt.name) : Serve(n, <<InRecord(n, m)>>, 1, d, datas)
  BY DEF AnswerFromStore
<1>2. /\ ~crashed /\ m.to = n /\ interests' = interests \ {m}
      /\ UNCHANGED <<pit, hosts>>
  BY DEF AnswerFromStore, Accepted
<1>3. d \in DataAt(n) /\ d.name = m.pkt.name /\ m \in UpInterest /\ d.name \in Name
  BY <1>0, InFlight DEF Matches, RouteInv
<1>4. InRecord(n, m) \in RecordOf(n, d.name)
  BY <1>2, <1>3, RecordRouted
<1>. DEFINE recs == <<InRecord(n, m)>>
<1>5. /\ recs \in Seq(RecordOf(n, d.name)) /\ Len(recs) = 1
      /\ \A j \in 1..Len(recs) : recs[j].from = m.from
  BY <1>4 DEF InRecord
<1>6. 1 \in 1..(Len(recs) + 1)
  BY <1>5
<1>7. m.from \in Consumer => [from |-> m.from, name |-> d.name] \in Requests
  BY <1>3 DEF Requests
<1>. HIDE DEF recs
<1>8. Serve(n, recs, 1, d, datas)
  BY <1>1 DEF recs
<1>9. \A a \in datas' : a.to \in Consumer =>
        a \in datas \/ Solicited(a)
  BY <1>3, <1>5, <1>6, <1>7, <1>8, ServeSolicited
<1>10. Requests' \in SUBSET Requests
  BY <1>2, SamePit, NoNewRequests
<1>. QED  BY <1>2, <1>9, <1>10 DEF Delivery

LEMMA ReceiveDataStep ==
  ASSUME IInv, Routed, NEW n \in Router, NEW m \in datas, ReceiveData(n, m)
  PROVE  Delivery
<1>0. RouteInv /\ NetworkInv /\ IInv
  BY DEF Routed, IInv
<1>. DEFINE d == m.pkt
            recs == pit[n][d.name]
<1>1. /\ ~crashed /\ m.to = n
      /\ pit' = [pit EXCEPT ![n][d.name] = <<>>]
      /\ \E k \in 1..(Len(recs) + 1) : Serve(n, recs, k, d, datas \ {m})
      /\ UNCHANGED <<interests, hosts>>
  BY DEF ReceiveData
<1>2. d \in DataAt(n) /\ d.name \in Name /\ recs \in Seq(RecordOf(n, d.name))
  BY <1>0, <1>1, InFlight DEF RouteInv, DownData
<1>3. \A j \in 1..Len(recs) : recs[j].from \in Consumer =>
        [from |-> recs[j].from, name |-> d.name] \in Requests
  BY <1>2, RecordIsRequest
<1>. HIDE DEF recs, d
<1>4. \A a \in datas' : a.to \in Consumer =>
        a \in datas \ {m} \/ Solicited(a)
  BY <1>1, <1>2, <1>3, ServeSolicited
<1>5. Requests' \in SUBSET Requests
  BY <1>0, <1>1, <1>2, RecordsGone, NoNewRequests
<1>. QED  BY <1>1, <1>4, <1>5 DEF Delivery

LEMMA AddRecordStep ==
  ASSUME IInv, Routed, NEW n \in Router, NEW m \in interests,
         AggregateInterest(n, m) \/ ForwardInterest(n, m)
  PROVE  Delivery
<1>1. /\ ~crashed /\ m.to = n
      /\ pit' = [pit EXCEPT ![n][m.pkt.name] = Append(@, InRecord(n, m))]
      /\ UNCHANGED <<datas, hosts>>
      /\ \A p \in interests' : p \in interests \/ p.from = n
  <2>1. IInv /\ pit \in [Router -> [Name -> Seq(AnyRecord)]] /\ m.pkt.name \in Name
    BY InFlight DEF IInv, NetworkInv
  <2>2. ASSUME AggregateInterest(n, m)
        PROVE  /\ ~crashed /\ m.to = n
               /\ pit' = [pit EXCEPT ![n][m.pkt.name] = Append(@, InRecord(n, m))]
               /\ UNCHANGED <<datas, hosts>>
               /\ \A p \in interests' : p \in interests \/ p.from = n
    BY <2>2 DEF AggregateInterest, Missed, Accepted
  <2>3. ASSUME ForwardInterest(n, m)
        PROVE  /\ ~crashed /\ m.to = n
               /\ pit' = [pit EXCEPT ![n][m.pkt.name] = Append(@, InRecord(n, m))]
               /\ UNCHANGED <<datas, hosts>>
               /\ \A p \in interests' : p \in interests \/ p.from = n
    <3>. DEFINE x == m.pkt.name
                recs == Append(pit[n][x], InRecord(n, m))
                sent == FilterOutgoingInterest(n, Head(recs).from, Head(recs).pkt, cache[n])
    <3>1. /\ ~crashed /\ m.to = n
          /\ interests' = (interests \ {m}) \cup
                            (IF sent.sent THEN {Packet(n, Up[n], sent.pkt)} ELSE {})
          /\ pit' = [pit EXCEPT ![n][x] = recs]
          /\ UNCHANGED <<datas, hosts>>
      BY <2>3 DEF ForwardInterest, Missed, Accepted
    <3>. HIDE DEF sent
    <3>2. \A p \in interests' : p \in interests \/ p.from = n
      BY <3>1 DEF Packet
    <3>. QED  BY <2>1, <3>1, <3>2
  <2>. QED  BY <2>2, <2>3
<1>2. n \notin Consumer /\ IInv /\ Routed
  BY NotConsumers
<1>3. Requests' \in SUBSET Requests
  BY <1>1, <1>2, RecordAdded, NoNewRequests
<1>. QED  BY <1>1, <1>3 DEF Delivery

LEMMA DropStep ==
  ASSUME IInv, Routed, ~crashed, UNCHANGED hosts,
         interests' \subseteq interests, datas' \subseteq datas,
         \A c \in Consumer, x \in Name : InPit(c, x)' => InPit(c, x)
  PROVE  Delivery
BY NoNewRequests DEF Delivery

-----------------------------------------------------------------------------
\* The producer's node, which no consumer is attached to.
LEMMA ProviderStep ==
  ASSUME IInv, Routed, NEW m \in interests, m.to = Provider, ~crashed,
         NEW d, SendFromProvider(m, d), UNCHANGED <<pit, hosts>>
  PROVE  Delivery
<1>1. m.from \in Host /\ m.from \notin Consumer
  <2>1. m.from \in Host /\ Up[m.from] = Provider
    BY DEF Routed, RouteInv, UpInterest
  <2>. QED  BY <2>1, Links, NotConsumers
<1>2. /\ interests' \subseteq interests
      /\ \A a \in datas' : a \in datas \/ a.to = m.from
  BY DEF SendFromProvider, Packet
<1>3. Requests' \in SUBSET Requests
  BY <1>2, SamePit, NoNewRequests
<1>. QED  BY <1>1, <1>2, <1>3 DEF Delivery

-----------------------------------------------------------------------------
LEMMA Steps ==
  ASSUME IInv, Routed, Next
  PROVE  ConsumerMove \/ Delivery
<1>1. ASSUME NEW c \in Consumer, NEW x \in Name, Request(c, x) PROVE ConsumerMove
  BY <1>1, RequestStep
<1>2. ASSUME NEW c \in Consumer, Retransmit(c) PROVE ConsumerMove
  BY <1>2, RetransmitStep
<1>3. ASSUME NEW c \in Consumer, NEW m \in datas, ReceiveAnswer(c, m) PROVE ConsumerMove
  BY <1>3, ReceiveAnswerStep
<1>4. ASSUME NEW n \in Router, NEW m \in interests, LoopInterest(n, m) PROVE Delivery
  BY <1>4, SamePit, DropStep DEF LoopInterest
<1>5. ASSUME NEW n \in Router, NEW m \in interests, AnswerFromStore(n, m) PROVE Delivery
  BY <1>5, AnswerFromStoreStep
<1>6. ASSUME NEW n \in Router, NEW m \in interests, AggregateInterest(n, m) PROVE Delivery
  BY <1>6, AddRecordStep
<1>7. ASSUME NEW n \in Router, NEW m \in interests, ForwardInterest(n, m) PROVE Delivery
  BY <1>7, AddRecordStep
<1>8. ASSUME NEW n \in Router, NEW m \in datas, ReceiveData(n, m) PROVE Delivery
  BY <1>8, ReceiveDataStep
<1>9. ASSUME NEW n \in Router, NEW m \in datas, IgnoreData(n, m) PROVE Delivery
  BY <1>9, SamePit, DropStep DEF IgnoreData
<1>10. ASSUME NEW n \in Router, NEW x \in Name, Erase(n, x) PROVE Delivery
  BY <1>10, RecordsGone, DropStep DEF Erase
<1>11. ASSUME NEW m \in interests, AnswerFromProviderStore(m) PROVE Delivery
  BY <1>11, ProviderStep DEF AnswerFromProviderStore
<1>12. ASSUME NEW m \in interests, Produce(m) PROVE Delivery
  BY <1>12, ProviderStep DEF Produce
<1>13. ASSUME NEW m \in interests, ProducerFault(m) PROVE Delivery
  BY <1>13, SamePit, DropStep DEF ProducerFault
<1>14. CASE Lose
  BY <1>14, SamePit, DropStep DEF Lose
<1>. QED
  BY <1>1, <1>2, <1>3, <1>4, <1>5, <1>6, <1>7, <1>8, <1>9, <1>10, <1>11, <1>12,
     <1>13, <1>14 DEF Next

LEMMA SameAnswers ==
  ASSUME UNCHANGED vars
  PROVE  /\ UNCHANGED <<PendingNames, waiting, Holders, crashed>>
         /\ Requests' = Requests /\ Arriving' = Arriving
<1>1. UNCHANGED <<interests, datas, pit, tag, asked, waiting, crashed>>
  BY DEF vars
<1>2. Requests' = Requests
  BY <1>1, SamePit DEF Requests
<1>. QED  BY <1>1, <1>2 DEF PendingNames, Holders, Arriving

\* What a delivery is to consumers whose answers are all in a set S.
LEMMA Delivered ==
  ASSUME Delivery, NEW S, \A m \in datas' : m.to \in Consumer => AnswerIn(m) \in S
  PROVE  /\ Arriving' \in SUBSET (Arriving \cup
              {a \in S : [from |-> a.to, name |-> a.name] \in Requests})
         /\ PendingNames' = PendingNames /\ waiting' = waiting /\ Holders' = Holders
<1>1. ASSUME NEW m \in datas', m.to \in Consumer, AnswerIn(m) \notin Arriving
      PROVE  /\ AnswerIn(m) \in S
             /\ [from |-> AnswerIn(m).to, name |-> AnswerIn(m).name] \in Requests
  <2>1. m \notin datas
    BY <1>1 DEF Arriving
  <2>2. Solicited(m)
    BY <1>1, <2>1 DEF Delivery
  <2>. QED  BY <1>1, <2>2 DEF Solicited, AnswerIn
<1>2. Arriving' = {AnswerIn(m) : m \in {m \in datas' : m.to \in Consumer}}
  BY DEF Arriving, AnswerIn
<1>3. PendingNames' = PendingNames /\ waiting' = waiting /\ Holders' = Holders
  BY DEF Delivery, hosts, PendingNames, Holders
<1>. QED  BY <1>1, <1>2, <1>3

LEMMA InitSteps ==
  ASSUME Init
  PROVE  /\ PendingNames = [c \in Consumer |-> {}] /\ Holders \subseteq Consumer
         /\ Requests = {} /\ Arriving = {}
<1>1. \A c \in Consumer, x \in Name : ~InPit(c, x)
  <2>1. \A c \in Consumer : Up[c] \in Router
    BY NotConsumers
  <2>. QED  BY <2>1 DEF Init, InPit
<1>2. PendingNames = [c \in Consumer |-> {}]
  BY DEF Init, PendingNames
<1>3. Requests = {} /\ Arriving = {} /\ Holders \subseteq Consumer
  BY <1>1 DEF Init, Requests, Arriving, Holders
<1>. QED  BY <1>2, <1>3

-----------------------------------------------------------------------------
\* What reaches consumers is what they may have, or what somebody may have who
\* is behind the same edge.
AllPermitted ==
  \A m \in datas : m.to \in Consumer =>
    AnswerIn(m) \in Policy!Answer /\ Policy!Permitted(AnswerIn(m))

AllPermittedNear ==
  \A m \in datas : m.to \in Consumer =>
    AnswerIn(m) \in LocalPolicy!Answer /\ LocalPolicy!Permitted(AnswerIn(m))

LEMMA AnswersPermitted ==
  ASSUME Fresh, IInv, Routed, AuthInv
  PROVE  AllPermitted
<1>. SUFFICES ASSUME NEW m \in datas, m.to \in Consumer
              PROVE  AnswerIn(m) \in Policy!Answer /\ Policy!Permitted(AnswerIn(m))
  BY DEF AllPermitted
<1>. DEFINE d == m.pkt
            a == AnswerIn(m)
<1>1. /\ m \in SentData /\ m \in DownData /\ d \in RightfulData /\ d \in Data
      /\ Merited(d) /\ AuthData(m.to, d)
      /\ d.name \in Name /\ d.kind \in {"Blob", "Nack", "Auth"}
  BY InFlight
  DEF IInv, Routed, RouteInv, AuthInv, DownData, DataAt, RightfulData, Data
<1>2. d.trk # NoTracker /\ Traced(d.trk, m.to)
  BY <1>1 DEF SentData
<1>3. a.to = m.to /\ a.name = d.name /\ a.kind = d.kind
  BY DEF AnswerIn
<1>4. a \in Policy!Answer
  BY <1>1, <1>3 DEF AnswerIn, Policy!Answer, Policy!Name, Name
<1>5. d.kind = "Auth" <=> d.name \in Consumer
  BY <1>1 DEF Merited, AuthData
<1>6. ASSUME d.kind = "Blob" PROVE d.name \in Content /\ m.to \in Admitted
  <2>1. d.name \in Content
    BY <1>1, <1>5, <1>6 DEF Name
  <2>. QED  BY <1>1, <1>2, <1>6, <2>1 DEF RightfulData, Rightful, Admitted
<1>7. ASSUME d.kind = "Nack" PROVE d.name \in Content /\ m.to \notin Unspoilt
  BY <1>1, <1>2, <1>7 DEF Merited, Sound, Unspoilt
<1>. HIDE DEF a, d
<1>8. Policy!Permitted(a)
  BY <1>1, <1>3, <1>5, <1>6, <1>7 DEF Policy!Permitted
<1>. QED  BY <1>4, <1>8 DEF a

LEMMA AnswersPermittedNear ==
  ASSUME IInv, Routed, EdgeInv
  PROVE  AllPermittedNear
<1>. SUFFICES ASSUME NEW m \in datas, m.to \in Consumer
              PROVE  /\ AnswerIn(m) \in LocalPolicy!Answer
                     /\ LocalPolicy!Permitted(AnswerIn(m))
  BY DEF AllPermittedNear
<1>. DEFINE d == m.pkt
            a == AnswerIn(m)
<1>1. /\ d.name \in Name /\ d.kind \in {"Blob", "Nack", "Auth"}
      /\ KindFits(d) /\ Near(d, Up[m.to])
  BY InFlight
  DEF IInv, EdgeInv, EdgePackets, EdgeDown, EdgeData, RightfulData, Data
<1>2. a.to = m.to /\ a.name = d.name /\ a.kind = d.kind
  BY DEF AnswerIn
<1>3. a \in LocalPolicy!Answer
  BY <1>1, <1>2 DEF AnswerIn, LocalPolicy!Answer, LocalPolicy!Name, Name
<1>. HIDE DEF a, d
<1>4. ASSUME d.kind = "Blob", d.name \in Content PROVE m.to \in NearAdmitted
  BY <1>1, <1>4 DEF Near, Admits, NearAdmitted, Neighbours
<1>5. ASSUME d.kind = "Nack" PROVE d.name \in Content /\ m.to \notin NearUnspoilt
  BY <1>1, <1>5 DEF KindFits, Near, Denies, Sound, NearUnspoilt, Neighbours
<1>6. d.kind = "Auth" => d.name \in Consumer
  BY <1>1 DEF KindFits
<1>7. LocalPolicy!Permitted(a)
  BY <1>1, <1>2, <1>4, <1>5, <1>6 DEF LocalPolicy!Permitted
<1>. QED  BY <1>3, <1>7 DEF a

\* Who stops the network has a neighbour, if only himself, whose tags are spoilt.
LEMMA StopsForASpoiltTag ==
  ASSUME crashed \in BOOLEAN, SoundRunsOn
  PROVE  crashed \in {FALSE, Unspoilt # Consumer}
         /\ crashed \in {FALSE, NearUnspoilt # Consumer}
<1>. SUFFICES ASSUME crashed
              PROVE  Unspoilt # Consumer /\ NearUnspoilt # Consumer
  OBVIOUS
<1>1. PICK c \in Consumer : Flaw[c] # "none"
  BY DEF SoundRunsOn
<1>2. c \in Neighbours(c)
  BY DEF Neighbours
<1>. QED  BY <1>1, <1>2 DEF Unspoilt, NearUnspoilt

\* The simulation stops only if not all consumers are in S.
StopsFor(S) == crashed \in {FALSE, S # Consumer}

LEMMA StepKeepsPolicy ==
  ASSUME IInv, Routed, AllPermitted', StopsFor(Unspoilt)', [Next]_vars
  PROVE  [Policy!Next]_Policy!vars
<1>. SUFFICES ASSUME Next PROVE Policy!Next
  BY SameAnswers DEF Policy!vars
<1>1. CASE ConsumerMove
  BY <1>1 DEF ConsumerMove, Policy!Next, Policy!Name, Name
<1>2. CASE Delivery
  <2>. DEFINE S == {a \in Policy!Answer : Policy!Permitted(a)}
  <2>1. \A m \in datas' : m.to \in Consumer => AnswerIn(m) \in S
    BY DEF AllPermitted, AnswerIn
  <2>2. /\ Arriving' \in SUBSET (Arriving \cup
             {a \in S : [from |-> a.to, name |-> a.name] \in Requests})
        /\ PendingNames' = PendingNames /\ waiting' = waiting /\ Holders' = Holders
    <3>. HIDE DEF S
    <3>. QED  BY <1>2, <2>1, Delivered
  <2>3. crashed' \in {FALSE, Unspoilt # Consumer}
    BY DEF StopsFor, Unspoilt
  <2>4. Policy!Deliver
    BY <1>2, <2>2 DEF Delivery, Policy!Deliver, Policy!Solicited, Policy!Request
  <2>. QED  BY <1>2, <2>3, <2>4 DEF Delivery, Policy!Next
<1>. QED  BY <1>1, <1>2, Steps

LEMMA StepKeepsLocalPolicy ==
  ASSUME IInv, Routed, AllPermittedNear', StopsFor(NearUnspoilt)', [Next]_vars
  PROVE  [LocalPolicy!Next]_LocalPolicy!vars
<1>. SUFFICES ASSUME Next PROVE LocalPolicy!Next
  BY SameAnswers DEF LocalPolicy!vars
<1>1. CASE ConsumerMove
  <2>1. ~crashed /\ UNCHANGED crashed
    BY <1>1 DEF ConsumerMove
  <2>2. ASSUME NEW c \in Consumer, NEW x \in Name, Policy!Ask(c, x)
        PROVE  LocalPolicy!Ask(c, x)
    BY <2>2 DEF Policy!Ask, LocalPolicy!Ask, Policy!Request, LocalPolicy!Request
  <2>3. ASSUME NEW c \in Consumer, NEW x \in Name, Policy!AskAgain(c, x)
        PROVE  LocalPolicy!AskAgain(c, x)
    BY <2>3 DEF Policy!AskAgain, LocalPolicy!AskAgain, Policy!Request, LocalPolicy!Request
  <2>4. ASSUME NEW a \in Arriving, Policy!Receive(a) PROVE LocalPolicy!Receive(a)
    BY <2>4 DEF Policy!Receive, LocalPolicy!Receive
  <2>. QED  BY <1>1, <2>1, <2>2, <2>3, <2>4
            DEF ConsumerMove, LocalPolicy!Next, LocalPolicy!Name, Name
<1>2. CASE Delivery
  <2>. DEFINE S == {a \in LocalPolicy!Answer : LocalPolicy!Permitted(a)}
  <2>1. \A m \in datas' : m.to \in Consumer => AnswerIn(m) \in S
    BY DEF AllPermittedNear, AnswerIn
  <2>2. /\ Arriving' \in SUBSET (Arriving \cup
             {a \in S : [from |-> a.to, name |-> a.name] \in Requests})
        /\ PendingNames' = PendingNames /\ waiting' = waiting /\ Holders' = Holders
    <3>. HIDE DEF S
    <3>. QED  BY <1>2, <2>1, Delivered
  <2>3. crashed' \in {FALSE, NearUnspoilt # Consumer}
    BY DEF StopsFor, NearUnspoilt, Neighbours
  <2>4. LocalPolicy!Deliver
    BY <1>2, <2>2
    DEF Delivery, LocalPolicy!Deliver, LocalPolicy!Solicited, LocalPolicy!Request
  <2>. QED  BY <1>2, <2>3, <2>4 DEF Delivery, LocalPolicy!Next
<1>. QED  BY <1>1, <1>2, Steps

\* Unless retransmissions alter the Interests pending, the network keeps the
\* promises of the access control, in every topology, for every configuration
\* of the consumers and whatever is lost, aggregated, stored, denied or sent
\* again: what reaches a consumer it asked for and may have.
THEOREM NetworkKeepsPolicy ==
  "reused-interest" \notin Defects => (Spec => ImplementsPolicy)
<1>. SUFFICES ASSUME Fresh PROVE Spec => ImplementsPolicy
  BY DEF Fresh
<1>1. Init => Policy!Init
  BY InitSteps DEF Init, Policy!Init
<1>2. IInv /\ Routed /\ AuthInv /\ EdgeInv => AllPermitted /\ StopsFor(Unspoilt)
  BY AnswersPermitted, StopsForASpoiltTag DEF IInv, NetworkInv, EdgeInv, StopsFor
<1>3. IInv /\ Routed /\ (AllPermitted /\ StopsFor(Unspoilt))' /\ [Next]_vars
        => [Policy!Next]_Policy!vars
  BY StepKeepsPolicy
<1>4. Spec => []AuthInv
  BY AuthInvariance, PTL
<1>. QED
  BY <1>1, <1>2, <1>3, <1>4, Invariance, RoutedInvariance, EdgeInvariance, PTL
  DEF Spec, ImplementsPolicy, Policy!Spec

\* The code as it is, whatever its retransmissions do, keeps those promises
\* edge by edge: what reaches a consumer it asked for and somebody behind the
\* same edge may have.
THEOREM NetworkKeepsLocalPolicy == Spec => ImplementsLocalPolicy
<1>1. Init => LocalPolicy!Init
  BY InitSteps DEF Init, LocalPolicy!Init
<1>2. IInv /\ Routed /\ EdgeInv => AllPermittedNear /\ StopsFor(NearUnspoilt)
  BY AnswersPermittedNear, StopsForASpoiltTag DEF IInv, NetworkInv, EdgeInv, StopsFor
<1>3. IInv /\ Routed /\ (AllPermittedNear /\ StopsFor(NearUnspoilt))' /\ [Next]_vars
        => [LocalPolicy!Next]_LocalPolicy!vars
  BY StepKeepsLocalPolicy
<1>. QED
  BY <1>1, <1>2, <1>3, Invariance, RoutedInvariance, EdgeInvariance, PTL
  DEF Spec, ImplementsLocalPolicy, LocalPolicy!Spec
=============================================================================
