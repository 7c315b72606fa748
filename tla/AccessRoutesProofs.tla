------------------------ MODULE AccessRoutesProofs -------------------------
(***************************************************************************)
(* The packets of AccessNetwork are where their trackers say, and their    *)
(* routes unwind; a consumer whose configuration spoils nothing has a tag  *)
(* that fits its Interests, is never stopped and never denied.             *)
(*                                                                         *)
(* The argument: an Interest goes up from node to node, and Data goes down *)
(* the same links, so that the link a packet is on tells its network       *)
(* (UpNet).  Hence only the consumer and its edge stamp the entry hash,    *)
(* which stays that of the consumer's home (Home) from there on, in the    *)
(* Interest, in the tag granted for it, and in each Data that is given     *)
(* to it.  So all checks of a sound consumer's tag succeed, and no denial  *)
(* bears its entry hash.  All but the networks rests on retransmissions    *)
(* that leave the Interest pending alone (Fresh).                          *)
(***************************************************************************)
EXTENDS AccessNetworkProofs

Host == Router \cup Consumer

\* The network a packet is in on the link from n toward the producer.
UpNet(n) ==
  IF n \in Consumer THEN "ENTRY"
  ELSE IF n = Provider \/ Up[n] = Provider THEN "EXIT" ELSE "INTERNET"

\* The entry hash that the Interests of consumer c leave its edge with, and
\* the tracker they leave c with.
Home(c) == {c, Up[c]}
Leaving(c) == [FreshTracker EXCEPT !.entry = {c}]

Sound(c) == Flaw[c] = "none"

\* A tag passes the checks its owner's configuration does not spoil.
Fit(t) ==
  /\ Flaw[t.owner] # "bad_route" => t.route = Home(t.owner)
  /\ Sound(t.owner) => t.loc = "producer"

Fitting(i) ==
  /\ i.name \in Consumer => i.owner = i.name
  /\ Fresh /\ i.tag # NoTag => Fit(i.tag)

\* A tag is granted for the consumer's home, and no denial is for a sound
\* consumer.
Merited(d) ==
  Fresh =>
    /\ d.kind = "Auth" => d.name \in Consumer /\ d.grant = Home(d.name)
    /\ d.kind = "Nack" =>
         /\ d.name \in Content
         /\ d.trk # NoTracker =>
              \A c \in Consumer : Traced(d.trk, c) => ~Sound(c)

UpInterest ==
  {m \in SentInterest :
     /\ m.from \in Host /\ m.to = Up[m.from]
     /\ m.pkt.trk.net = UpNet(m.from)
     /\ Fitting(m.pkt)
     /\ Fresh => IF m.from \in Consumer THEN m.pkt.trk = Leaving(m.from)
                 ELSE m.pkt.trk.entry = Home(m.pkt.owner)}

RecordOf(n, x) ==
  {rec \in Record(x) :
     /\ rec.from \in Host /\ Up[rec.from] = n
     /\ rec.pkt.trk.net = UpNet(rec.from)
     /\ Fitting(rec.pkt)
     /\ Fresh =>
          /\ rec.pkt.trk.entry = Home(rec.pkt.owner)
          /\ rec.from \in Consumer =>
               rec.pkt.trk.internet = {} /\ rec.pkt.trk.exit = {}}

\* Data that is kept at n, or on its way to n from upstream.
DataAt(n) ==
  {d \in RightfulData :
     /\ Merited(d)
     /\ d.trk # NoTracker => d.trk.net = UpNet(n)}

DownData ==
  {m \in SentData :
     /\ m.to \in Host /\ m.from = Up[m.to]
     /\ m.pkt \in DataAt(m.to)
     /\ Fresh /\ m.to \in Consumer => m.pkt.trk = Leaving(m.to)}

PendingInterest(c) ==
  {i \in OwnInterest(c) :
     i.trk.net = "ENTRY" /\ Fitting(i) /\ (Fresh => i.trk = Leaving(c))}

RouteInv ==
  /\ interests \subseteq UpInterest
  /\ datas \subseteq DownData
  /\ \A n \in Router, x \in Name : pit[n][x] \in Seq(RecordOf(n, x))
  /\ \A n \in Router \cup {Provider} : cs[n] \subseteq DataAt(n)
  /\ Fresh => SoundIsForwarded

HomeInv ==
  /\ \A c \in Consumer : Fresh /\ tag[c] # NoTag => Fit(tag[c])
  /\ \A c \in Consumer : asked[c] \subseteq PendingInterest(c)

Routed == RouteInv /\ HomeInv

-----------------------------------------------------------------------------
\* The links and their networks.
LEMMA Links ==
  /\ \A n \in Host : n \in Id /\ n # Provider /\ Up[n] \in Id /\ Up[n] \in Router \cup {Provider}
  /\ \A c \in Consumer : c \notin Router /\ Up[c] \in Router /\ Up[c] \in Edge /\ c # Up[c]
BY NodesAssumption, TopologyAssumption DEF Host, Id, Router

LEMMA Networks ==
  /\ \A c \in Consumer : UpNet(c) = "ENTRY" /\ UpNet(Up[c]) = "INTERNET"
  /\ \A n \in Router : UpNet(n) = IF Up[n] = Provider THEN "EXIT" ELSE "INTERNET"
  /\ UpNet(Provider) = "EXIT"
  /\ \A n \in Id : UpNet(n) \in Network
BY NodesAssumption, TopologyAssumption DEF UpNet, Id, Router, Network

LEMMA UpdateFields ==
  ASSUME NEW trk \in Tracker(Id), NEW n \in Id
  PROVE  /\ Update(trk, n).net = trk.net
         /\ trk.net # "ENTRY" => Update(trk, n).entry = trk.entry
         /\ trk.net = "ENTRY" =>
              /\ Update(trk, n).entry = Flip(trk.entry, n)
              /\ Update(trk, n).internet = trk.internet
              /\ Update(trk, n).exit = trk.exit
<1>1. trk.net \in Network
  BY DEF Tracker
<1>. QED  BY <1>1 DEF Update, Tracker, Network

LEMMA LeavingFields ==
  ASSUME NEW c
  PROVE  /\ Leaving(c).net = "ENTRY" /\ Leaving(c).entry = {c}
         /\ Leaving(c).internet = {} /\ Leaving(c).exit = {}
BY DEF Leaving, FreshTracker

\* An Interest as the node it reaches sees it.
LEMMA ArrivedRouted ==
  ASSUME NEW m \in UpInterest
  PROVE  LET i == Arrived(m.to, m)
         IN  /\ i \in HonestInterest /\ i.name = m.pkt.name /\ i.owner = m.pkt.owner
             /\ i.trk.net = UpNet(m.from)
             /\ Fitting(i)
             /\ Fresh =>
                  /\ i.trk.entry = Home(i.owner)
                  /\ m.from \in Consumer => i.trk.internet = {} /\ i.trk.exit = {}
<1>. DEFINE i == Arrived(m.to, m)
<1>1. /\ m \in SentInterest /\ m.from \in Host /\ m.to = Up[m.from]
      /\ m.pkt.trk.net = UpNet(m.from) /\ Fitting(m.pkt)
      /\ m.from \in Consumer => m.pkt.owner = m.from
      /\ m.pkt \in Interest /\ m.pkt.trk \in Tracker(Id)
  BY DEF UpInterest, SentInterest, Hop, HonestInterest, Interest
<1>2. m.to \in Id /\ m.to \notin Consumer
  BY <1>1, Links, NotConsumers
<1>3. /\ i \in HonestInterest /\ i.name = m.pkt.name /\ i.owner = m.pkt.owner
  BY <1>1, <1>2, HonestArrival
<1>4. i.trk = Update(m.pkt.trk, m.to) /\ i.tag = m.pkt.tag
  BY <1>1 DEF Arrived, Interest
<1>. HIDE DEF i
<1>5. i.trk.net = UpNet(m.from)
  BY <1>1, <1>2, <1>4, UpdateFields
<1>6. Fitting(i)
  BY <1>1, <1>3, <1>4 DEF Fitting
<1>7. ASSUME Fresh, m.from \in Consumer
      PROVE  i.trk.entry = Home(i.owner) /\ i.trk.internet = {} /\ i.trk.exit = {}
  <2>1. m.pkt.trk = Leaving(m.from)
    BY <1>7 DEF UpInterest
  <2>2. Flip({m.from}, m.to) = Home(m.from)
    BY <1>1, <1>7, Links DEF Flip, Home
  <2>3. /\ m.pkt.trk.net = "ENTRY" /\ m.pkt.trk.entry = {m.from}
        /\ m.pkt.trk.internet = {} /\ m.pkt.trk.exit = {}
    BY <2>1, LeavingFields
  <2>4. i.trk.entry = Flip({m.from}, m.to) /\ i.trk.internet = {} /\ i.trk.exit = {}
    <3>1. /\ Update(m.pkt.trk, m.to).entry = Flip(m.pkt.trk.entry, m.to)
          /\ Update(m.pkt.trk, m.to).internet = m.pkt.trk.internet
          /\ Update(m.pkt.trk, m.to).exit = m.pkt.trk.exit
      BY <1>1, <1>2, <2>3, UpdateFields
    <3>2. Flip(m.pkt.trk.entry, m.to) = Flip({m.from}, m.to)
      BY <2>3
    <3>. QED  BY <1>4, <2>3, <3>1, <3>2
  <2>. QED  BY <1>1, <1>3, <1>7, <2>2, <2>4
<1>8. ASSUME Fresh, m.from \notin Consumer
      PROVE  i.trk.entry = Home(i.owner)
  <2>1. m.pkt.trk.entry = Home(m.pkt.owner)
    BY <1>8 DEF UpInterest
  <2>2. m.pkt.trk.net # "ENTRY"
    BY <1>1, <1>8 DEF UpNet
  <2>. QED  BY <1>1, <1>2, <1>3, <1>4, <2>1, <2>2, UpdateFields
<1>9. Fresh =>
        /\ i.trk.entry = Home(i.owner)
        /\ m.from \in Consumer => i.trk.internet = {} /\ i.trk.exit = {}
  BY <1>7, <1>8
<1>. QED  BY <1>3, <1>5, <1>6, <1>9 DEF i

LEMMA RecordRouted ==
  ASSUME NEW n \in Router, NEW m \in UpInterest, m.to = n
  PROVE  InRecord(n, m) \in RecordOf(n, m.pkt.name)
<1>1. m \in SentInterest /\ m.from \in Host /\ m.to = Up[m.from]
  BY DEF UpInterest
<1>2. InRecord(n, m) \in Record(m.pkt.name)
  BY <1>1, RecordMade
<1>3. InRecord(n, m).from = m.from /\ InRecord(n, m).pkt = Arrived(m.to, m)
  BY DEF InRecord
<1>. QED  BY <1>1, <1>2, <1>3, ArrivedRouted DEF RecordOf

\* What a record of a router is.
LEMMA RecordFacts ==
  ASSUME NEW n, NEW x, NEW rec \in RecordOf(n, x)
  PROVE  /\ rec.pkt \in HonestInterest /\ rec.pkt \in Interest /\ Honest(rec.pkt)
         /\ rec.pkt.trk \in Tracker(Id) /\ rec.pkt.name = x
         /\ rec.pkt.owner \in Consumer
         /\ rec.from \in Host /\ rec.from \in Id /\ Up[rec.from] = n
         /\ rec.from \in Consumer => rec.from = rec.pkt.owner
         /\ rec.pkt.trk.net = UpNet(rec.from) /\ Fitting(rec.pkt)
         /\ Fresh => /\ rec.pkt.trk.entry = Home(rec.pkt.owner)
                     /\ rec.from \in Consumer =>
                          rec.pkt.trk.internet = {} /\ rec.pkt.trk.exit = {}
BY DEF RecordOf, Record, AnyRecord, HonestInterest, Interest

\* The tag of a sound consumer's Interest for a content is accepted.
LEMMA SoundAccepted ==
  ASSUME Fresh, NEW i \in HonestInterest, Fitting(i), i.name \in Content, Sound(i.owner)
  PROVE  /\ i.tag # NoTag /\ i.tag.loc = "producer" /\ i.tag.sig
         /\ i.tag.route = Home(i.owner)
<1>1. i.tag # NoTag /\ i.tag.owner = i.owner /\ Genuine(i.tag) /\ Fit(i.tag)
  BY DEF HonestInterest, Honest, Fitting
<1>. QED  BY <1>1 DEF Genuine, Fit, Sound, Signed

-----------------------------------------------------------------------------
\* A router gives a record Data that is on the way to where the record came
\* from, with the hashes of the record.
LEMMA JudgedRouted ==
  ASSUME NEW n \in Router, NEW d \in DataAt(n), d.trk # NoTracker,
         NEW rec \in RecordOf(n, d.name)
  PROVE  LET e == Judged(n, rec.from, rec.pkt, d)
         IN  /\ e \in RightfulData /\ e.name = d.name
             /\ e.trk \in Tracker(Id) /\ e.trk.net = UpNet(rec.from)
             /\ e.trk.entry = rec.pkt.trk.entry
             /\ e.trk.internet = rec.pkt.trk.internet /\ e.trk.exit = rec.pkt.trk.exit
             /\ Merited(e)
<1>. DEFINE i == rec.pkt
            e == Judged(n, rec.from, i, d)
<1>1. /\ i \in HonestInterest /\ i \in Interest /\ Honest(i) /\ i.trk \in Tracker(Id)
      /\ i.name = d.name /\ i.trk.net = UpNet(rec.from) /\ Fitting(i)
      /\ i.owner \in Consumer /\ rec.from \in Host /\ Up[rec.from] = n
  BY RecordFacts
<1>2. /\ d \in RightfulData /\ d \in Data /\ d.trk \in Tracker(Id) /\ d.name \in Name
      /\ Merited(d) /\ d.trk.net = UpNet(n)
  BY DEF DataAt, RightfulData, Data
<1>3. e \in RightfulData /\ e.name = d.name /\ e.trk \in Tracker(Id)
  BY <1>1, <1>2, JudgedRightful
<1>4. CASE Preserved(i, d)
  <2>. DEFINE net == IF EdgeFace(n, rec.from) THEN "ENTRY" ELSE "INTERNET"
              crosses == EdgeFace(n, Up[n]) # EdgeFace(n, rec.from)
              f == [d EXCEPT !.trk = SetCurrentNetwork(@, net)]
  <2>1. e = IF crosses THEN f ELSE d
    BY <1>4 DEF Judged
  <2>2. SetCurrentNetwork(d.trk, net) = [d.trk EXCEPT !.net = net]
    BY DEF SetCurrentNetwork
  <2>3. /\ f.kind = d.kind /\ f.grant = d.grant /\ f.trk.net = net
        /\ f.trk.entry = d.trk.entry /\ f.trk.internet = d.trk.internet
        /\ f.trk.exit = d.trk.exit
    <3>1. f.trk = [d.trk EXCEPT !.net = net] /\ f.kind = d.kind /\ f.grant = d.grant
      BY <1>2, <2>2 DEF Data
    <3>. HIDE DEF f
    <3>. QED  BY <1>2, <3>1 DEF Tracker
  <2>4. (IF crosses THEN net ELSE d.trk.net) = UpNet(rec.from)
    <3>1. CASE rec.from \in Consumer
      <4>1. n \in Edge /\ EdgeFace(n, rec.from) /\ ~EdgeFace(n, Up[n])
        BY <1>1, <3>1, Links, TopologyAssumption, NodesAssumption DEF EdgeFace, Host, Router
      <4>. QED  BY <3>1, <4>1, Networks
    <3>2. CASE rec.from \in Router
      <4>1. ~EdgeFace(n, rec.from) /\ UpNet(rec.from) = "INTERNET"
        BY <1>1, <3>2, NodesAssumption, Networks, Links, NotConsumers DEF EdgeFace
      <4>2. EdgeFace(n, Up[n]) <=> Up[n] = Provider
        BY NotConsumers, TopologyAssumption DEF EdgeFace
      <4>. QED  BY <1>2, <4>1, <4>2, Networks
    <3>. QED  BY <1>1, <3>1, <3>2 DEF Host
  <2>5. /\ e.kind = d.kind /\ e.grant = d.grant /\ e.trk.net = UpNet(rec.from)
        /\ e.trk.entry = d.trk.entry /\ e.trk.internet = d.trk.internet
        /\ e.trk.exit = d.trk.exit
    <3>. HIDE DEF f, net, crosses, e
    <3>1. CASE crosses
      BY <2>1, <2>3, <2>4, <3>1
    <3>2. CASE ~crosses
      BY <2>1, <2>4, <3>2
    <3>. QED  BY <3>1, <3>2
  <2>6. /\ d.trk.entry = i.trk.entry /\ d.trk.internet = i.trk.internet
        /\ d.trk.exit = i.trk.exit
    BY <1>4 DEF Preserved, SameRoutes
  <2>. HIDE DEF e
  <2>7. Merited(e)
    BY <1>2, <1>3, <2>5 DEF Merited, Traced
  <2>. QED  BY <1>3, <2>5, <2>6, <2>7 DEF e
<1>5. CASE ~Preserved(i, d)
  <2>. DEFINE flag == ~Public(d.name) /\ Checked(i, d) /\ i.vouched
  <2>1. e = [d EXCEPT !.trk = i.trk,
                      !.kind = IF Accepts(i, d) THEN "Blob" ELSE "Nack",
                      !.nrc = @ \/ flag]
    BY <1>5 DEF Judged
  <2>2. e.trk = i.trk /\ e.kind = (IF Accepts(i, d) THEN "Blob" ELSE "Nack")
    <3>. HIDE DEF flag, e
    <3>. QED  BY <1>2, <2>1 DEF Data
  <2>. HIDE DEF e
  <2>3. ASSUME Fresh, e.kind = "Nack"
        PROVE  d.name \in Content /\ ~Sound(i.owner)
    <3>1. ~Accepts(i, d)
      BY <2>2, <2>3
    <3>2. d.name \in Content
      BY <1>2, <3>1, NoContentIsPublic DEF Accepts
    <3>. QED  BY <1>1, <2>3, <3>1, <3>2, SoundAccepted DEF Accepts, Checked
  <2>4. ASSUME Fresh, NEW c \in Consumer, Traced(e.trk, c)
        PROVE  c = i.owner
    BY <1>1, <2>2, <2>4, SameTrace DEF Honest
  <2>5. e.kind # "Auth"
    BY <2>2
  <2>6. Merited(e)
    BY <1>1, <1>3, <2>3, <2>4, <2>5 DEF Merited
  <2>. QED  BY <1>1, <1>3, <2>2, <2>6 DEF e
<1>. QED  BY <1>4, <1>5

\* Stamping and encoding a Data leave its merits alone.
LEMMA StampedRouted ==
  ASSUME NEW d \in RightfulData, Merited(d), NEW n \in Id, n \notin Consumer
  PROVE  /\ Merited(Stamped(d, n))
         /\ d.trk = NoTracker => Stamped(d, n).trk = NoTracker
         /\ d.trk # NoTracker => Stamped(d, n).trk = Update(d.trk, n)
<1>. DEFINE e == Stamped(d, n)
<1>1. CASE d.trk = NoTracker
  BY <1>1 DEF Stamped
<1>2. CASE d.trk # NoTracker
  <2>1. e = [d EXCEPT !.trk = Update(@, n)]
    BY <1>2 DEF Stamped
  <2>2. /\ e.name = d.name /\ e.kind = d.kind /\ e.grant = d.grant
        /\ e.trk = Update(d.trk, n)
    BY <2>1 DEF RightfulData, Data
  <2>3. \A c : Traced(e.trk, c) <=> Traced(d.trk, c)
    BY <1>2, StampedRightful
  <2>. HIDE DEF e
  <2>4. Merited(e)
    BY <1>2, <2>2, <2>3 DEF Merited
  <2>. QED  BY <1>2, <2>2, <2>4 DEF e
<1>. QED  BY <1>1, <1>2

LEMMA DecodedRouted ==
  ASSUME NEW d \in DataAt(Provider)
  PROVE  Decoded(d) \in DataAt(Provider)
<1>1. d \in RightfulData /\ Merited(d) /\ Decoded(d) \in RightfulData
  BY DecodedRightful DEF DataAt
<1>2. CASE Mangled(d)
  <2>1. Decoded(d) = [d EXCEPT !.trk = NoTracker]
    BY <1>2 DEF Decoded
  <2>2. /\ Decoded(d).trk = NoTracker /\ Decoded(d).kind = d.kind
        /\ Decoded(d).name = d.name /\ Decoded(d).grant = d.grant
    BY <1>1, <2>1 DEF RightfulData, Data
  <2>3. Merited(Decoded(d))
    BY <1>1, <2>2 DEF Merited
  <2>. QED  BY <1>1, <2>2, <2>3 DEF DataAt
<1>3. CASE ~Mangled(d)
  BY <1>3 DEF Decoded
<1>. QED  BY <1>2, <1>3

\* The producer denies no sound consumer, and grants a tag for its home.
LEMMA ReplyRouted ==
  ASSUME NEW m \in UpInterest, m.to = Provider
  PROVE  Reply(Arrived(Provider, m)) \in DataAt(Provider)
<1>. DEFINE i == Arrived(Provider, m)
            d == Reply(i)
<1>1. /\ i \in HonestInterest /\ i.name = m.pkt.name /\ i.owner = m.pkt.owner
      /\ i.trk.net = UpNet(m.from) /\ Fitting(i)
      /\ Fresh => i.trk.entry = Home(i.owner)
  BY ArrivedRouted
<1>2. UpNet(m.from) = "EXIT"
  <2>1. m.from \in Host /\ Up[m.from] = Provider
    BY DEF UpInterest
  <2>2. m.from \notin Consumer
    BY <2>1, Links, NotConsumers
  <2>. QED  BY <2>1, <2>2 DEF UpNet
<1>. HIDE DEF i
<1>3. /\ i \in Interest /\ Honest(i) /\ i.name \in Name /\ i.owner \in Consumer
      /\ i.trk \in Tracker(Id)
  BY <1>1 DEF HonestInterest, Interest
<1>4. d \in RightfulData /\ d.name = i.name
  BY <1>1, ReplyRightful
<1>5. d.trk = i.trk
  BY DEF Reply, AuthReply, ContentReply
<1>6. CASE i.name \in Consumer
  <2>1. d = AuthReply(i)
    BY <1>6 DEF Reply, Public
  <2>2. d.kind = "Auth" /\ d.grant = i.trk.entry
    BY <2>1 DEF AuthReply
  <2>3. i.owner = i.name
    BY <1>1, <1>6 DEF Fitting
  <2>. HIDE DEF d
  <2>4. Merited(d)
    BY <1>1, <1>4, <1>6, <2>2, <2>3 DEF Merited
  <2>. QED  BY <1>1, <1>2, <1>4, <1>5, <2>4, Networks DEF DataAt, d, i
<1>7. CASE i.name \in Content
  <2>1. d = ContentReply(i)
    BY <1>3, <1>7, NoContentIsPublic DEF Reply
  <2>2. /\ d.kind # "Auth"
        /\ d.kind = "Nack" => ~(/\ i.tag # NoTag /\ i.tag.loc = "producer"
                                /\ i.tag.route = i.trk.entry /\ i.tag.sig)
    BY <2>1 DEF ContentReply
  <2>. HIDE DEF d
  <2>3. Fresh /\ d.kind = "Nack" => ~Sound(i.owner)
    BY <1>1, <1>7, <2>2, SoundAccepted
  <2>4. ASSUME Fresh, NEW c \in Consumer, Traced(d.trk, c)
        PROVE  c = i.owner
    BY <1>3, <1>5, <2>4, SameTrace DEF Honest
  <2>5. Merited(d)
    BY <1>3, <1>4, <1>7, <2>2, <2>3, <2>4 DEF Merited
  <2>. QED  BY <1>1, <1>2, <1>4, <1>5, <2>5, Networks DEF DataAt, d, i
<1>. QED  BY <1>3, <1>6, <1>7 DEF Name
-----------------------------------------------------------------------------
\* What a router answers the records of an entry with.
LEMMA RecordsRouted ==
  ASSUME NEW n, NEW x, NEW recs \in Seq(RecordOf(n, x))
  PROVE  /\ recs \in Seq(Record(x)) /\ Len(recs) \in Nat
         /\ \A j \in 1..Len(recs) : recs[j] \in RecordOf(n, x)
<1>1. RecordOf(n, x) \subseteq Record(x)
  BY DEF RecordOf
<1>2. recs \in Seq(Record(x))
  BY <1>1, SeqMonotone
<1>3. Len(recs) \in Nat
  BY LenProperties
<1>4. \A j \in 1..Len(recs) : recs[j] \in RecordOf(n, x)
  BY ElementOfSeq
<1>. QED  BY <1>2, <1>3, <1>4

LEMMA SameTracker ==
  ASSUME NEW a \in Tracker(Id), NEW b \in Tracker(Id), a.net = b.net,
         a.entry = b.entry, a.internet = b.internet, a.exit = b.exit
  PROVE  a = b
BY DEF Tracker

LEMMA AnswerDown ==
  ASSUME NEW n \in Router, NEW d \in DataAt(n), d.trk # NoTracker,
         NEW recs \in Seq(RecordOf(n, d.name)), NEW j \in 1..Len(recs)
  PROVE  Packet(n, recs[j].from,
                Stamped(Judged(n, recs[j].from, recs[j].pkt, d), n)) \in DownData
<1>. DEFINE from == recs[j].from
            i == recs[j].pkt
            e == Judged(n, from, i, d)
            s == Stamped(e, n)
<1>1. recs \in Seq(Record(d.name)) /\ recs[j] \in RecordOf(n, d.name)
  BY RecordsRouted
<1>2. /\ from \in Host /\ from \in Id /\ Up[from] = n
      /\ from \in Consumer => from = i.owner
      /\ Fresh => /\ i.trk.entry = Home(i.owner)
                  /\ from \in Consumer => i.trk.internet = {} /\ i.trk.exit = {}
  BY <1>1, RecordFacts
<1>3. /\ e \in RightfulData /\ e.trk \in Tracker(Id) /\ e.trk.net = UpNet(from)
      /\ e.trk.entry = i.trk.entry /\ e.trk.internet = i.trk.internet
      /\ e.trk.exit = i.trk.exit /\ Merited(e)
  BY <1>1, JudgedRouted
<1>4. d \in RightfulData
  BY DEF DataAt
<1>5. Packet(n, from, s) \in SentData
  BY <1>1, <1>4, AnswerSent
<1>6. n \in Id /\ n \notin Consumer /\ e.trk # NoTracker
  BY <1>3, NotConsumers, NoneAssumption
<1>. HIDE DEF e
<1>7. s \in RightfulData /\ Merited(s) /\ s.trk = Update(e.trk, n)
  BY <1>3, <1>6, StampedRightful, StampedRouted
<1>. HIDE DEF s
<1>8. s.trk \in Tracker(Id) /\ s.trk.net = UpNet(from)
  BY <1>3, <1>6, <1>7, UpdateType, UpdateFields
<1>9. ASSUME Fresh, from \in Consumer
      PROVE  s.trk = Leaving(from)
  <2>1. e.trk.net = "ENTRY" /\ e.trk.entry = Home(from) /\ n = Up[from] /\ n # from
    BY <1>2, <1>3, <1>9, Links, Networks
  <2>2. Flip(e.trk.entry, n) = {from}
    BY <2>1 DEF Flip, Home
  <2>3. /\ Update(e.trk, n).entry = Flip(e.trk.entry, n)
        /\ Update(e.trk, n).internet = e.trk.internet
        /\ Update(e.trk, n).exit = e.trk.exit
    BY <1>3, <1>6, <2>1, UpdateFields
  <2>4. /\ s.trk.entry = {from} /\ s.trk.internet = {} /\ s.trk.exit = {}
        /\ s.trk.net = "ENTRY"
    BY <1>2, <1>3, <1>7, <1>8, <1>9, <2>1, <2>2, <2>3
  <2>5. Leaving(from) \in Tracker(Id)
    BY <1>2, FreshType DEF Leaving, Tracker
  <2>. QED  BY <1>8, <2>4, <2>5, LeavingFields, SameTracker
<1>. HIDE DEF from
<1>10. /\ Packet(n, from, s).to = from /\ Packet(n, from, s).from = n
       /\ Packet(n, from, s).pkt = s
  BY DEF Packet
<1>11. s \in DataAt(from)
  BY <1>7, <1>8 DEF DataAt
<1>12. Packet(n, from, s) \in DownData
  BY <1>2, <1>5, <1>9, <1>10, <1>11 DEF DownData
<1>. QED  BY <1>12 DEF from, s, e

LEMMA ServeRouted ==
  ASSUME NEW n \in Router, NEW d \in DataAt(n),
         NEW recs \in Seq(RecordOf(n, d.name)), NEW k \in 1..(Len(recs) + 1),
         NEW left \in SUBSET DownData, Serve(n, recs, k, d, left)
  PROVE  datas' \subseteq DownData
<1>. DEFINE crash(j) == Crashes(n, recs[j].from, recs[j].pkt, d)
            throws(j) == Throws(n, recs[j].from, recs[j].pkt, d)
            fails  == {j \in k..Len(recs) : crash(j) \/ throws(j)}
            served == {j \in k..Len(recs) : \A f \in fails : f < j}
            answer(j) == Stamped(Judged(n, recs[j].from, recs[j].pkt, d), n)
<1>1. datas' = left \cup {Packet(n, recs[j].from, answer(j)) : j \in served}
  BY DEF Serve
<1>2. served \in SUBSET (1..Len(recs))
  BY RecordsRouted
<1>3. ASSUME NEW j \in served PROVE d.trk # NoTracker
  <2>1. j \notin fails
    BY <1>2
  <2>2. ~throws(j)
    BY <2>1
  <2>. QED  BY <2>2 DEF Throws
<1>. HIDE DEF fails, served
<1>4. ASSUME NEW j \in served PROVE Packet(n, recs[j].from, answer(j)) \in DownData
  BY <1>2, <1>3, AnswerDown
<1>. QED  BY <1>1, <1>4

LEMMA EnterSent ==
  ASSUME NEW i, NEW c, i.tag = NoTag \/ (i.trk.entry = i.tag.route /\ i.tag.sig)
  PROVE  EnterNetwork(i, c).sent
<1>. DEFINE known    == Holds(c.pos, i.tag)
            neg      == Holds(c.neg, i.tag)
            verified == ~known /\ neg /\ i.tag.sig
            pkt      == [i EXCEPT !.vouched = known \/ verified]
            pos      == Refreshed(c.pos)
            kept     == [pos |-> IF verified THEN Inserted(pos, {i.tag}, 1) ELSE pos,
                         neg |-> IF known THEN c.neg ELSE Refreshed(c.neg)]
            sent     == known \/ verified \/ ~neg
            none     == i.tag = NoTag
<1>1. ~none => sent /\ i.trk.entry = i.tag.route
  BY DEF Holds
<1>2. EnterNetwork(i, c) =
        IF none \/ i.trk.entry # i.tag.route
        THEN [sent |-> none, pkt |-> i, cache |-> c]
        ELSE [sent |-> sent, pkt |-> pkt, cache |-> kept]
  BY DEF EnterNetwork
<1>. HIDE DEF sent, pkt, kept, none
<1>3. CASE none
  BY <1>2, <1>3
<1>4. CASE ~none
  <2>1. EnterNetwork(i, c) = [sent |-> sent, pkt |-> pkt, cache |-> kept]
    BY <1>1, <1>2, <1>4
  <2>. QED  BY <1>1, <1>4, <2>1
<1>. QED  BY <1>3, <1>4

LEMMA FilterSame ==
  ASSUME NEW n, NEW from, NEW i, NEW c, ~EdgeFace(n, from)
  PROVE  LET result == FilterOutgoingInterest(n, from, i, c)
         IN  /\ result.sent
             /\ result.pkt = IF EdgeFace(n, Up[n])
                            THEN [i EXCEPT !.trk = SetCurrentNetwork(@, "EXIT")] ELSE i
<1>. DEFINE crosses == EdgeFace(n, from) # EdgeFace(n, Up[n])
            left    == [i EXCEPT !.trk = SetCurrentNetwork(@, "EXIT")]
            entered == [i EXCEPT !.trk = SetCurrentNetwork(@, "INTERNET")]
<1>1. FilterOutgoingInterest(n, from, i, c) =
        IF crosses /\ EdgeFace(n, from) THEN EnterNetwork(entered, c)
        ELSE [sent |-> TRUE, pkt |-> IF crosses THEN left ELSE i, cache |-> c]
  BY DEF FilterOutgoingInterest
<1>2. crosses <=> EdgeFace(n, Up[n])
  BY DEF EdgeFace
<1>. HIDE DEF left, entered, crosses
<1>3. FilterOutgoingInterest(n, from, i, c) =
        [sent |-> TRUE, pkt |-> IF crosses THEN left ELSE i, cache |-> c]
  BY <1>1
<1>. QED  BY <1>2, <1>3 DEF left

\* What a router sends on of a record is on its way up, and it sends on that
\* of a sound consumer.
LEMMA FilterRouted ==
  ASSUME NEW n \in Router, NEW x \in Name, NEW rec \in RecordOf(n, x), NEW c \in HonestCaches
  PROVE  LET result == FilterOutgoingInterest(n, rec.from, rec.pkt, c)
         IN  /\ Packet(n, Up[n], result.pkt) \in UpInterest
             /\ Fresh /\ Sound(rec.pkt.owner) => result.sent
<1>. DEFINE i == rec.pkt
            result == FilterOutgoingInterest(n, rec.from, i, c)
            j == result.pkt
            entered == [i EXCEPT !.trk = SetCurrentNetwork(@, "INTERNET")]
            left    == [i EXCEPT !.trk = SetCurrentNetwork(@, "EXIT")]
            crosses == EdgeFace(n, rec.from) # EdgeFace(n, Up[n])
<1>1. /\ i \in HonestInterest /\ i \in Interest /\ Honest(i) /\ i.trk \in Tracker(Id)
      /\ i.owner \in Consumer /\ i.name = x
      /\ rec.from \in Host /\ Up[rec.from] = n
      /\ i.trk.net = UpNet(rec.from) /\ Fitting(i)
      /\ Fresh => i.trk.entry = Home(i.owner)
  BY RecordFacts
<1>2. ASSUME NEW net \in Network, NEW k, k = [i EXCEPT !.trk = SetCurrentNetwork(@, net)]
      PROVE  /\ k \in Interest /\ k.name = i.name /\ k.owner = i.owner /\ k.tag = i.tag
             /\ k.trk.net = net /\ k.trk.entry = i.trk.entry
  <2>1. SetCurrentNetwork(i.trk, net) = [i.trk EXCEPT !.net = net]
    BY DEF SetCurrentNetwork
  <2>2. SetCurrentNetwork(i.trk, net) \in Tracker(Id)
    BY <1>1, SetNetworkType
  <2>3. /\ k \in Interest /\ k.name = i.name /\ k.owner = i.owner /\ k.tag = i.tag
        /\ k.trk = SetCurrentNetwork(i.trk, net)
    BY <1>1, <1>2, <2>2 DEF Interest
  <2>4. SetCurrentNetwork(i.trk, net).net = net /\ SetCurrentNetwork(i.trk, net).entry = i.trk.entry
    BY <1>1, <2>1 DEF Tracker
  <2>. QED  BY <2>3, <2>4
<1>3. /\ entered \in Interest /\ entered.name = i.name /\ entered.owner = i.owner
      /\ entered.tag = i.tag /\ entered.trk.net = "INTERNET"
      /\ entered.trk.entry = i.trk.entry
  BY <1>2 DEF Network
<1>4. /\ left.name = i.name /\ left.owner = i.owner
      /\ left.tag = i.tag /\ left.trk.net = "EXIT"
      /\ left.trk.entry = i.trk.entry
  BY <1>2 DEF Network
<1>. HIDE DEF entered, left
<1>5. /\ EnterNetwork(entered, c).pkt.name = i.name
      /\ EnterNetwork(entered, c).pkt.owner = i.owner
      /\ EnterNetwork(entered, c).pkt.tag = i.tag
      /\ EnterNetwork(entered, c).pkt.trk = entered.trk
  <2>1. \E b : EnterNetwork(entered, c).pkt \in {entered, [entered EXCEPT !.vouched = b]}
    BY DEF EnterNetwork
  <2>2. PICK b : EnterNetwork(entered, c).pkt \in {entered, [entered EXCEPT !.vouched = b]}
    BY <2>1
  <2>. QED  BY <1>3, <2>2 DEF Interest
<1>6. EdgeFace(n, Up[n]) <=> Up[n] = Provider
  BY NotConsumers, TopologyAssumption DEF EdgeFace
<1>9. ASSUME j.name = i.name, j.owner = i.owner, j.tag = i.tag,
             j.trk.net = UpNet(n), j.trk.entry = i.trk.entry
      PROVE  Packet(n, Up[n], j) \in UpInterest
  <2>1. j \in HonestInterest
    BY <1>1, FilterInterestHonest
  <2>. DEFINE m == Packet(n, Up[n], j)
  <2>2. m.from = n /\ m.to = Up[n] /\ m.pkt = j
    BY DEF Packet
  <2>. HIDE DEF j
  <2>3. m \in SentInterest
    BY <2>1, NotConsumers DEF Packet, SentInterest, Hop
  <2>4. Fitting(j)
    BY <1>1, <1>9 DEF Fitting
  <2>5. n \in Host /\ n \notin Consumer
    BY NotConsumers DEF Host
  <2>. HIDE DEF m
  <2>6. m \in UpInterest
    BY <1>1, <1>9, <2>2, <2>3, <2>4, <2>5 DEF UpInterest
  <2>. QED  BY <2>6 DEF m
<1>7. CASE rec.from \in Consumer
  <2>1. EdgeFace(n, rec.from) /\ Up[n] # Provider /\ UpNet(n) = "INTERNET"
    BY <1>1, <1>7, Links, Networks, TopologyAssumption DEF EdgeFace
  <2>2. result = EnterNetwork(entered, c)
    BY <1>6, <2>1 DEF FilterOutgoingInterest, entered
  <2>3. /\ j.name = i.name /\ j.owner = i.owner /\ j.tag = i.tag
        /\ j.trk.net = UpNet(n) /\ j.trk.entry = i.trk.entry
    BY <1>3, <1>5, <2>1, <2>2
  <2>4. ASSUME Fresh, Sound(i.owner) PROVE result.sent
    <3>1. CASE i.tag = NoTag
      <4>1. EnterNetwork(entered, c).sent
        BY <1>3, <3>1, EnterSent
      <4>. QED  BY <2>2, <4>1
    <3>2. CASE i.tag # NoTag
      <4>1. Genuine(i.tag) /\ i.tag.owner = i.owner /\ Fit(i.tag)
        BY <1>1, <2>4, <3>2 DEF Honest, Fitting
      <4>2. i.tag.sig /\ i.tag.route = Home(i.owner)
        BY <2>4, <4>1 DEF Genuine, Signed, Sound, Fit
      <4>3. entered.trk.entry = entered.tag.route /\ entered.tag.sig
        BY <1>1, <1>3, <2>4, <4>2
      <4>4. EnterNetwork(entered, c).sent
        BY <1>3, <3>2, <4>3, EnterSent
      <4>. QED  BY <2>2, <4>4
    <3>. QED  BY <3>1, <3>2
  <2>. QED  BY <1>9, <2>3, <2>4
<1>8. CASE rec.from \in Router
  <2>1. ~EdgeFace(n, rec.from) /\ UpNet(rec.from) = "INTERNET"
    BY <1>1, <1>8, NotConsumers, Networks DEF EdgeFace
  <2>2. result.sent /\ j = IF Up[n] = Provider THEN left ELSE i
    <3>1. result.sent /\ j = IF EdgeFace(n, Up[n]) THEN left ELSE i
      BY <2>1, FilterSame DEF left
    <3>. QED  BY <1>6, <3>1
  <2>3. /\ j.name = i.name /\ j.owner = i.owner /\ j.tag = i.tag
        /\ j.trk.net = UpNet(n) /\ j.trk.entry = i.trk.entry
    BY <1>1, <1>4, <2>1, <2>2, Networks
  <2>. QED  BY <1>9, <2>2, <2>3
<1>. QED  BY <1>1, <1>7, <1>8 DEF Host

-----------------------------------------------------------------------------
\* What becomes of the parts of the state that an action changes.
LEMMA EntryRouted ==
  ASSUME NetworkInv, RouteInv, NEW n \in Router, NEW x \in Name,
         NEW recs \in Seq(RecordOf(n, x)), pit' = [pit EXCEPT ![n][x] = recs]
  PROVE  \A l \in Router, y \in Name : pit'[l][y] \in Seq(RecordOf(l, y))
<1>1. pit \in [Router -> [Name -> Seq(AnyRecord)]]
  BY DEF NetworkInv
<1>2. \A l \in Router, y \in Name : pit[l][y] \in Seq(RecordOf(l, y))
  BY DEF RouteInv
<1>3. \A l \in Router, y \in Name :
        pit'[l][y] = IF l = n /\ y = x THEN recs ELSE pit[l][y]
  BY <1>1
<1>. HIDE DEF NetworkInv, RouteInv
<1>. QED  BY <1>2, <1>3

LEMMA StoreRouted ==
  ASSUME NetworkInv, RouteInv, NEW n \in Router \cup {Provider}, NEW d \in DataAt(n),
         NEW S \in Stored(cs[n], d) \cup {cs[n]}, cs' = [cs EXCEPT ![n] = S]
  PROVE  \A l \in Router \cup {Provider} : cs'[l] \subseteq DataAt(l)
<1>1. S \subseteq cs[n] \cup {d}
  BY DEF Stored
<1>2. cs \in [Router \cup {Provider} -> SUBSET RightfulData]
  BY DEF NetworkInv
<1>3. \A l \in Router \cup {Provider} : cs[l] \subseteq DataAt(l)
  BY DEF RouteInv
<1>4. \A l \in Router \cup {Provider} : cs'[l] = IF l = n THEN S ELSE cs[l]
  BY <1>2
<1>. HIDE DEF NetworkInv, RouteInv
<1>. QED  BY <1>1, <1>3, <1>4

\* An entry whose records and whose out-record go together.
LEMMA EntryCleared ==
  ASSUME NetworkInv, RouteInv, NEW n \in Router, NEW x \in Name,
         pit' = [pit EXCEPT ![n][x] = <<>>], out' = [out EXCEPT ![n] = @ \ {x}]
  PROVE  /\ \A l \in Router, y \in Name : pit'[l][y] \in Seq(RecordOf(l, y))
         /\ Fresh => SoundIsForwarded'
<1>1. <<>> \in Seq(RecordOf(n, x))
  OBVIOUS
<1>2. \A l \in Router, y \in Name : pit'[l][y] \in Seq(RecordOf(l, y))
  BY <1>1, EntryRouted
<1>3. ASSUME Fresh, NEW l \in Router, NEW y \in Name, pit'[l][y] # <<>>,
             Flaw[Head(pit'[l][y]).pkt.owner] = "none"
      PROVE  y \in out'[l]
  <2>1. pit \in [Router -> [Name -> Seq(AnyRecord)]] /\ out \in [Router -> SUBSET Name]
    BY DEF NetworkInv
  <2>2. ~(l = n /\ y = x)
    BY <1>3, <2>1
  <2>3. pit'[l][y] = pit[l][y]
    BY <2>1, <2>2
  <2>4. SoundIsForwarded
    BY <1>3 DEF RouteInv
  <2>5. y \in out[l]
    BY <1>3, <2>3, <2>4 DEF SoundIsForwarded
  <2>. QED  BY <2>1, <2>2, <2>5
<1>. QED  BY <1>2, <1>3 DEF SoundIsForwarded

LEMMA RecordsKept ==
  ASSUME RouteInv, UNCHANGED <<pit, out>>
  PROVE  /\ \A n \in Router, x \in Name : pit'[n][x] \in Seq(RecordOf(n, x))
         /\ Fresh => SoundIsForwarded'
BY DEF RouteInv, SoundIsForwarded

\* What is sent, dropped or served while the records and stores stay.
LEMMA PacketsRouted ==
  ASSUME RouteInv, interests' \subseteq UpInterest, datas' \subseteq DownData,
         UNCHANGED <<pit, out, cs>>
  PROVE  RouteInv'
<1>1. \A n \in Router \cup {Provider} : cs'[n] \subseteq DataAt(n)
  BY DEF RouteInv
<1>2. /\ \A n \in Router, x \in Name : pit'[n][x] \in Seq(RecordOf(n, x))
      /\ Fresh => SoundIsForwarded'
  BY RecordsKept
<1>. QED  BY <1>1, <1>2 DEF RouteInv

LEMMA HomesUnchanged ==
  ASSUME HomeInv, UNCHANGED hosts
  PROVE  HomeInv'
BY DEF HomeInv, hosts

\* A tag granted for the home of a consumer fits it.
LEMMA SpoiltFits ==
  ASSUME NEW c \in Consumer
  PROVE  Fit(Spoilt(c, Home(c)))
<1>. DEFINE t == Spoilt(c, Home(c))
<1>1. /\ t.owner = c
      /\ t.route = IF Flaw[c] = "bad_route" THEN {} ELSE Home(c)
      /\ t.loc = IF Flaw[c] = "bad_keyloc" THEN "other"
                 ELSE IF Flaw[c] = "bad_auth_sig" /\ "no-keyloc" \in Defects
                      THEN "none" ELSE "producer"
  BY DEF Spoilt
<1>. HIDE DEF t
<1>. QED  BY <1>1 DEF Fit, Sound, t

LEMMA InitRouted == Init => Routed
<1>. SUFFICES ASSUME Init PROVE Routed
  OBVIOUS
<1>1. \A S : <<>> \in Seq(S)
  OBVIOUS
<1>2. RouteInv
  BY <1>1 DEF Init, RouteInv, SoundIsForwarded
<1>3. ASSUME NEW c \in Consumer, tag[c] # NoTag PROVE Fit(tag[c])
  <2>1. tag[c] = Spoilt(c, Home(c))
    BY <1>3 DEF Init, Home
  <2>. QED  BY <2>1, SpoiltFits
<1>4. HomeInv
  BY <1>3 DEF Init, HomeInv
<1>. QED  BY <1>2, <1>4 DEF Routed

-----------------------------------------------------------------------------
\* Actions of the consumers.
LEMMA RequestRouted ==
  ASSUME IInv, Routed, NEW c \in Consumer, NEW x \in Name, Request(c, x)
  PROVE  Routed'
<1>. DEFINE i == [name |-> x, owner |-> c, nonce |-> sends[c],
                  tag |-> IF x = c THEN NoTag ELSE tag[c],
                  trk |-> Update(FreshTracker, c), vouched |-> FALSE]
            m == Packet(c, Up[c], i)
<1>0. RouteInv /\ HomeInv /\ IInv'
  BY RequestPreserves DEF Routed
<1>1. /\ interests' = interests \cup {m}
      /\ asked' = [asked EXCEPT ![c] = @ \cup {i}]
      /\ UNCHANGED <<datas, pit, out, cs, cache, tag, crashed>>
      /\ IF HasAuth(c) THEN x \in Content ELSE x = c
  BY DEF Request
<1>2. Update(FreshTracker, c) = Leaving(c)
  BY DEF Update, FreshTracker, Flip, Leaving
<1>3. x \in Consumer => x = c
  BY <1>1, NodesAssumption
<1>4. /\ i.name = x /\ i.owner = c /\ i.trk = Leaving(c)
      /\ i.tag = IF x = c THEN NoTag ELSE tag[c]
  BY <1>2
<1>. HIDE DEF i
<1>5. m.from = c /\ m.to = Up[c] /\ m.pkt = i
  BY DEF Packet
<1>. HIDE DEF m
<1>6. Fitting(i)
  BY <1>0, <1>3, <1>4 DEF Fitting, HomeInv
<1>7. i \in OwnInterest(c) /\ m \in SentInterest
  <2>1. interests' \subseteq SentInterest /\ asked'[c] \subseteq OwnInterest(c)
    BY <1>0 DEF IInv, NetworkInv, HostInv
  <2>2. asked \in [Consumer -> SUBSET HonestInterest]
    BY DEF IInv, HostInv
  <2>. QED  BY <1>1, <2>1, <2>2
<1>8. i \in PendingInterest(c)
  BY <1>4, <1>6, <1>7, LeavingFields DEF PendingInterest
<1>9. m \in UpInterest
  BY <1>4, <1>5, <1>6, <1>7, LeavingFields, Networks DEF UpInterest, Host
<1>10. interests' \subseteq UpInterest /\ datas' \subseteq DownData
  BY <1>0, <1>1, <1>9 DEF RouteInv
<1>11. RouteInv'
  BY <1>0, <1>1, <1>10, PacketsRouted
<1>12. HomeInv'
  <2>1. \A b \in Consumer : asked'[b] = IF b = c THEN asked[b] \cup {i} ELSE asked[b]
    BY <1>1 DEF IInv, HostInv
  <2>. QED  BY <1>0, <1>1, <1>8, <2>1 DEF HomeInv
<1>. QED  BY <1>11, <1>12 DEF Routed

LEMMA RetransmitRouted ==
  ASSUME IInv, Routed, NEW c \in Consumer, Retransmit(c)
  PROVE  Routed'
<1>0. RouteInv /\ HomeInv /\ IInv'
  BY RetransmitPreserves DEF Routed
<1>1. PICK i \in asked[c] :
        LET j == IF "reused-interest" \in Defects
                 THEN [i EXCEPT !.trk = Update(@, c)] ELSE i
        IN  /\ interests' = interests \cup {Packet(c, Up[c], j)}
            /\ asked' = [asked EXCEPT ![c] = (@ \ {i}) \cup {j}]
            /\ UNCHANGED <<datas, pit, out, cs, cache, tag, crashed>>
  BY DEF Retransmit
<1>. DEFINE j == IF "reused-interest" \in Defects
                 THEN [i EXCEPT !.trk = Update(@, c)] ELSE i
            m == Packet(c, Up[c], j)
<1>2. /\ i \in PendingInterest(c) /\ i \in Interest /\ i.trk \in Tracker(Id)
      /\ i.owner = c /\ i.trk.net = "ENTRY" /\ Fitting(i)
      /\ Fresh => i.trk = Leaving(c)
  BY <1>0 DEF HomeInv, PendingInterest, OwnInterest, HonestInterest, Interest
<1>3. /\ j.name = i.name /\ j.owner = i.owner /\ j.tag = i.tag /\ j.trk.net = "ENTRY"
      /\ Fresh => j.trk = Leaving(c)
  <2>1. CASE Fresh
    BY <1>2, <2>1 DEF Fresh
  <2>2. CASE ~Fresh
    <3>1. j = [i EXCEPT !.trk = Update(@, c)]
      BY <2>2 DEF Fresh
    <3>2. j.name = i.name /\ j.owner = i.owner /\ j.tag = i.tag /\ j.trk = Update(i.trk, c)
      BY <1>2, <3>1 DEF Interest
    <3>3. Update(i.trk, c).net = "ENTRY"
      BY <1>2, NotConsumers, UpdateFields DEF Id
    <3>. QED  BY <2>2, <3>2, <3>3
  <2>. QED  BY <2>1, <2>2
<1>4. /\ interests' = interests \cup {m}
      /\ asked' = [asked EXCEPT ![c] = (@ \ {i}) \cup {j}]
      /\ UNCHANGED <<datas, pit, out, cs, cache, tag, crashed>>
  BY <1>1
<1>. HIDE DEF j
<1>5. m.from = c /\ m.to = Up[c] /\ m.pkt = j
  BY DEF Packet
<1>. HIDE DEF m
<1>6. Fitting(j)
  BY <1>2, <1>3 DEF Fitting
<1>7. j \in OwnInterest(c) /\ m \in SentInterest
  <2>1. interests' \subseteq SentInterest /\ asked'[c] \subseteq OwnInterest(c)
    BY <1>0 DEF IInv, NetworkInv, HostInv
  <2>2. asked \in [Consumer -> SUBSET HonestInterest]
    BY DEF IInv, HostInv
  <2>. QED  BY <1>4, <2>1, <2>2
<1>8. j \in PendingInterest(c)
  BY <1>3, <1>6, <1>7 DEF PendingInterest
<1>9. m \in UpInterest
  BY <1>3, <1>5, <1>6, <1>7, Networks DEF UpInterest, Host
<1>10. interests' \subseteq UpInterest /\ datas' \subseteq DownData
  BY <1>0, <1>4, <1>9 DEF RouteInv
<1>11. RouteInv'
  BY <1>0, <1>4, <1>10, PacketsRouted
<1>12. HomeInv'
  <2>1. \A b \in Consumer :
          asked'[b] = IF b = c THEN (asked[b] \ {i}) \cup {j} ELSE asked[b]
    BY <1>4 DEF IInv, HostInv
  <2>. QED  BY <1>0, <1>4, <1>8, <2>1 DEF HomeInv
<1>. QED  BY <1>11, <1>12 DEF Routed

LEMMA ReceiveAnswerRouted ==
  ASSUME IInv, Routed, NEW c \in Consumer, NEW m \in datas, ReceiveAnswer(c, m)
  PROVE  Routed'
<1>0. RouteInv /\ HomeInv
  BY DEF Routed
<1>. DEFINE granted == m.pkt.kind = "Auth" /\ Pending(c, m.pkt.name)
<1>1. /\ datas' = datas \ {m}
      /\ asked' = [asked EXCEPT ![c] = {i \in @ : i.name # m.pkt.name}]
      /\ tag' = IF granted THEN [tag EXCEPT ![c] = Spoilt(c, m.pkt.grant)] ELSE tag
      /\ UNCHANGED <<interests, pit, out, cs, cache, crashed>>
  BY DEF ReceiveAnswer
<1>2. interests' \subseteq UpInterest /\ datas' \subseteq DownData
  BY <1>0, <1>1 DEF RouteInv
<1>3. RouteInv'
  BY <1>0, <1>1, <1>2, PacketsRouted
<1>4. ASSUME Fresh, granted PROVE m.pkt.grant = Home(c)
  <2>1. Merited(m.pkt)
    BY <1>0 DEF RouteInv, DownData, DataAt
  <2>2. PICK i \in asked[c] : i.name = m.pkt.name
    BY <1>4 DEF Pending
  <2>3. i.owner = c /\ (i.name \in Consumer => i.owner = i.name)
    BY <1>0 DEF HomeInv, PendingInterest, OwnInterest, Fitting
  <2>. QED  BY <1>4, <2>1, <2>2, <2>3 DEF Merited
<1>5. ASSUME Fresh, NEW b \in Consumer, tag'[b] # NoTag PROVE Fit(tag'[b])
  <2>1. tag \in [Consumer -> Tag \cup {NoTag}]
    BY DEF IInv, HostInv
  <2>. HIDE DEF granted
  <2>2. CASE granted /\ b = c
    <3>1. tag'[b] = Spoilt(c, Home(c))
      BY <1>1, <1>4, <1>5, <2>1, <2>2
    <3>. QED  BY <3>1, SpoiltFits
  <2>3. CASE ~(granted /\ b = c)
    <3>1. tag'[b] = tag[b]
      BY <1>1, <2>1, <2>3
    <3>. QED  BY <1>0, <1>5, <3>1 DEF HomeInv
  <2>. QED  BY <2>2, <2>3
<1>6. \A b \in Consumer : asked'[b] \subseteq asked[b]
  BY <1>1 DEF IInv, HostInv
<1>7. HomeInv'
  BY <1>0, <1>5, <1>6 DEF HomeInv
<1>. QED  BY <1>3, <1>7 DEF Routed

-----------------------------------------------------------------------------
\* Actions of the routers.
LEMMA AnswerFromStoreRouted ==
  ASSUME IInv, Routed, NEW n \in Router, NEW m \in interests, AnswerFromStore(n, m)
  PROVE  Routed'
<1>0. RouteInv /\ HomeInv /\ NetworkInv
  BY DEF Routed, IInv
<1>1. PICK d \in Matches(n, m.pkt.name) : Serve(n, <<InRecord(n, m)>>, 1, d, datas)
  BY DEF AnswerFromStore
<1>2. m.to = n /\ interests' = interests \ {m} /\ UNCHANGED <<pit, out, cs, hosts>>
  BY DEF AnswerFromStore, Accepted
<1>3. d \in DataAt(n) /\ d.name = m.pkt.name /\ m \in UpInterest
  BY <1>0 DEF Matches, RouteInv
<1>4. InRecord(n, m) \in RecordOf(n, d.name)
  BY <1>2, <1>3, RecordRouted
<1>. DEFINE recs == <<InRecord(n, m)>>
<1>5. recs \in Seq(RecordOf(n, d.name)) /\ Len(recs) = 1
  BY <1>4
<1>6. 1 \in 1..(Len(recs) + 1) /\ datas \in SUBSET DownData
  BY <1>0, <1>5 DEF RouteInv
<1>. HIDE DEF recs
<1>7. Serve(n, recs, 1, d, datas)
  BY <1>1 DEF recs
<1>8. datas' \subseteq DownData
  BY <1>3, <1>5, <1>6, <1>7, ServeRouted
<1>9. interests' \subseteq UpInterest
  BY <1>0, <1>2 DEF RouteInv
<1>10. RouteInv'
  BY <1>0, <1>2, <1>8, <1>9, PacketsRouted
<1>. QED  BY <1>0, <1>2, <1>10, HomesUnchanged DEF Routed

\* The first of an entry's records, and the out-record it has been sent on by.
LEMMA AggregateRouted ==
  ASSUME IInv, Routed, NEW n \in Router, NEW m \in interests, AggregateInterest(n, m)
  PROVE  Routed'
<1>0. RouteInv /\ HomeInv /\ NetworkInv
  BY DEF Routed, IInv
<1>. DEFINE x == m.pkt.name
            recs == Append(pit[n][x], InRecord(n, m))
<1>1. /\ m.to = n /\ x \in out[n]
      /\ interests' = interests \ {m}
      /\ pit' = [pit EXCEPT ![n][x] = recs]
      /\ UNCHANGED <<datas, out, cs, cache, hosts, crashed>>
  BY DEF AggregateInterest, Missed, Accepted
<1>2. x \in Name /\ InRecord(n, m) \in RecordOf(n, x) /\ pit[n][x] \in Seq(RecordOf(n, x))
  BY <1>0, <1>1, InFlight, RecordRouted DEF RouteInv
<1>3. recs \in Seq(RecordOf(n, x))
  BY <1>2
<1>. HIDE DEF recs, x
<1>4. \A l \in Router, y \in Name : pit'[l][y] \in Seq(RecordOf(l, y))
  BY <1>0, <1>1, <1>2, <1>3, EntryRouted
<1>5. ASSUME Fresh, NEW l \in Router, NEW y \in Name, pit'[l][y] # <<>>,
             Flaw[Head(pit'[l][y]).pkt.owner] = "none"
      PROVE  y \in out'[l]
  <2>1. CASE l = n /\ y = x
    BY <1>1, <2>1
  <2>2. CASE ~(l = n /\ y = x)
    <3>1. pit'[l][y] = pit[l][y]
      BY <1>0, <1>1, <2>2 DEF NetworkInv
    <3>2. SoundIsForwarded
      BY <1>0, <1>5 DEF RouteInv
    <3>. QED  BY <1>1, <1>5, <3>1, <3>2 DEF SoundIsForwarded
  <2>. QED  BY <2>1, <2>2
<1>6. Fresh => SoundIsForwarded'
  BY <1>5 DEF SoundIsForwarded
<1>7. RouteInv'
  BY <1>0, <1>1, <1>4, <1>6 DEF RouteInv
<1>. QED  BY <1>0, <1>1, <1>7, HomesUnchanged DEF Routed

LEMMA ForwardRouted ==
  ASSUME IInv, Routed, NEW n \in Router, NEW m \in interests, ForwardInterest(n, m)
  PROVE  Routed'
<1>0. RouteInv /\ HomeInv /\ NetworkInv
  BY DEF Routed, IInv
<1>. DEFINE x == m.pkt.name
            recs == Append(pit[n][x], InRecord(n, m))
            picked == Head(recs)
            result == FilterOutgoingInterest(n, picked.from, picked.pkt, cache[n])
<1>1. /\ m.to = n
      /\ interests' = (interests \ {m}) \cup
                        (IF result.sent THEN {Packet(n, Up[n], result.pkt)} ELSE {})
      /\ pit' = [pit EXCEPT ![n][x] = recs]
      /\ out' = [out EXCEPT ![n] = IF result.sent THEN @ \cup {x} ELSE @ \ {x}]
      /\ UNCHANGED <<datas, cs, hosts, crashed>>
  BY DEF ForwardInterest, Missed, Accepted
<1>2. x \in Name /\ InRecord(n, m) \in RecordOf(n, x) /\ pit[n][x] \in Seq(RecordOf(n, x))
  BY <1>0, <1>1, InFlight, RecordRouted DEF RouteInv
<1>3. recs \in Seq(RecordOf(n, x)) /\ recs # <<>>
  BY <1>2
<1>. HIDE DEF recs, x
<1>4. picked \in RecordOf(n, x) /\ cache[n] \in HonestCaches
  BY <1>0, <1>3 DEF NetworkInv
<1>. DEFINE m2 == Packet(n, Up[n], result.pkt)
<1>5. /\ m2 \in UpInterest
      /\ Fresh /\ Sound(picked.pkt.owner) => result.sent
  BY <1>2, <1>4, FilterRouted
<1>. HIDE DEF result, m2
<1>6. interests' \subseteq UpInterest /\ datas' \subseteq DownData
  BY <1>0, <1>1, <1>5 DEF RouteInv, m2
<1>7. \A l \in Router, y \in Name : pit'[l][y] \in Seq(RecordOf(l, y))
  BY <1>0, <1>1, <1>2, <1>3, EntryRouted
<1>8. ASSUME Fresh, NEW l \in Router, NEW y \in Name, pit'[l][y] # <<>>,
             Flaw[Head(pit'[l][y]).pkt.owner] = "none"
      PROVE  y \in out'[l]
  <2>0. pit \in [Router -> [Name -> Seq(AnyRecord)]] /\ out \in [Router -> SUBSET Name]
    BY <1>0 DEF NetworkInv
  <2>1. CASE l = n /\ y = x
    <3>1. pit'[l][y] = recs
      BY <1>1, <1>2, <2>0, <2>1
    <3>2. result.sent
      BY <1>5, <1>8, <3>1 DEF Sound
    <3>. QED  BY <1>1, <2>0, <2>1, <3>2
  <2>2. CASE ~(l = n /\ y = x)
    <3>1. pit'[l][y] = pit[l][y] /\ (y \in out'[l] <=> y \in out[l])
      BY <1>1, <2>0, <2>2
    <3>2. SoundIsForwarded
      BY <1>0, <1>8 DEF RouteInv
    <3>. QED  BY <1>8, <3>1, <3>2 DEF SoundIsForwarded
  <2>. QED  BY <2>1, <2>2
<1>9. Fresh => SoundIsForwarded'
  BY <1>8 DEF SoundIsForwarded
<1>10. RouteInv'
  BY <1>0, <1>1, <1>6, <1>7, <1>9 DEF RouteInv
<1>. QED  BY <1>0, <1>1, <1>10, HomesUnchanged DEF Routed

LEMMA ReceiveDataRouted ==
  ASSUME IInv, Routed, NEW n \in Router, NEW m \in datas, ReceiveData(n, m)
  PROVE  Routed'
<1>0. RouteInv /\ HomeInv /\ NetworkInv
  BY DEF Routed, IInv
<1>. DEFINE d == m.pkt
            recs == pit[n][d.name]
<1>1. /\ m.to = n
      /\ \E S \in Stored(cs[n], d) : cs' = [cs EXCEPT ![n] = S]
      /\ pit' = [pit EXCEPT ![n][d.name] = <<>>]
      /\ out' = [out EXCEPT ![n] = @ \ {d.name}]
      /\ \E k \in 1..(Len(recs) + 1) : Serve(n, recs, k, d, datas \ {m})
      /\ UNCHANGED <<interests, hosts>>
  BY DEF ReceiveData
<1>2. d \in DataAt(n) /\ d.name \in Name /\ recs \in Seq(RecordOf(n, d.name))
  BY <1>0, <1>1, InFlight DEF RouteInv, DownData
<1>3. \A l \in Router \cup {Provider} : cs'[l] \subseteq DataAt(l)
  BY <1>0, <1>1, <1>2, StoreRouted
<1>4. datas \ {m} \in SUBSET DownData
  BY <1>0 DEF RouteInv
<1>. HIDE DEF recs, d
<1>5. /\ \A l \in Router, y \in Name : pit'[l][y] \in Seq(RecordOf(l, y))
      /\ Fresh => SoundIsForwarded'
  BY <1>0, <1>1, <1>2, EntryCleared
<1>6. datas' \subseteq DownData
  BY <1>1, <1>2, <1>4, ServeRouted
<1>7. RouteInv'
  BY <1>0, <1>1, <1>3, <1>5, <1>6 DEF RouteInv
<1>. QED  BY <1>0, <1>1, <1>7, HomesUnchanged DEF Routed

LEMMA IgnoreDataRouted ==
  ASSUME IInv, Routed, NEW n \in Router, NEW m \in datas, IgnoreData(n, m)
  PROVE  Routed'
<1>0. RouteInv /\ HomeInv /\ NetworkInv
  BY DEF Routed, IInv
<1>1. /\ m.to = n /\ datas' = datas \ {m}
      /\ \E S \in Stored(cs[n], m.pkt) \cup {cs[n]} : cs' = [cs EXCEPT ![n] = S]
      /\ UNCHANGED <<interests, pit, out, cache, hosts, crashed>>
  BY DEF IgnoreData
<1>2. m.pkt \in DataAt(n)
  BY <1>0, <1>1 DEF RouteInv, DownData
<1>3. \A l \in Router \cup {Provider} : cs'[l] \subseteq DataAt(l)
  BY <1>0, <1>1, <1>2, StoreRouted
<1>4. /\ \A l \in Router, y \in Name : pit'[l][y] \in Seq(RecordOf(l, y))
      /\ Fresh => SoundIsForwarded'
  BY <1>0, <1>1, RecordsKept
<1>5. RouteInv'
  BY <1>0, <1>1, <1>3, <1>4 DEF RouteInv
<1>. QED  BY <1>0, <1>1, <1>5, HomesUnchanged DEF Routed

LEMMA EraseRouted ==
  ASSUME IInv, Routed, NEW n \in Router, NEW x \in Name, Erase(n, x)
  PROVE  Routed'
<1>0. RouteInv /\ HomeInv /\ NetworkInv
  BY DEF Routed, IInv
<1>1. /\ pit' = [pit EXCEPT ![n][x] = <<>>]
      /\ out' = [out EXCEPT ![n] = @ \ {x}]
      /\ UNCHANGED <<interests, datas, cs, cache, hosts, crashed>>
  BY DEF Erase
<1>2. /\ \A l \in Router, y \in Name : pit'[l][y] \in Seq(RecordOf(l, y))
      /\ Fresh => SoundIsForwarded'
  BY <1>0, <1>1, EntryCleared
<1>3. RouteInv'
  BY <1>0, <1>1, <1>2 DEF RouteInv
<1>. QED  BY <1>0, <1>1, <1>3, HomesUnchanged DEF Routed

-----------------------------------------------------------------------------
\* Actions of the producer's node.
LEMMA ProviderSendsRouted ==
  ASSUME NetworkInv, RouteInv, NEW m \in interests, m.to = Provider,
         NEW d \in DataAt(Provider), SendFromProvider(m, d)
  PROVE  interests' \subseteq UpInterest /\ datas' \subseteq DownData
<1>. DEFINE e == Decoded(d)
            s == Stamped(e, Provider)
            p == Packet(Provider, m.from, s)
<1>1. m \in UpInterest /\ m.from \in Host /\ Up[m.from] = Provider
  BY DEF RouteInv, UpInterest
<1>2. m.from \notin Consumer /\ UpNet(m.from) = "EXIT"
  BY <1>1, Links, NotConsumers DEF UpNet
<1>3. /\ e \in RightfulData /\ Merited(e)
      /\ e.trk # NoTracker => e.trk \in Tracker(Id) /\ e.trk.net = "EXIT"
  BY DecodedRouted, Networks DEF DataAt, RightfulData, Data
<1>. HIDE DEF e
<1>4. Provider \in Id /\ Provider \notin Consumer
  BY NotConsumers
<1>5. /\ s \in RightfulData /\ Merited(s)
      /\ e.trk = NoTracker => s.trk = NoTracker
      /\ e.trk # NoTracker => s.trk = Update(e.trk, Provider)
  BY <1>3, <1>4, StampedRightful, StampedRouted
<1>. HIDE DEF s
<1>6. s.trk # NoTracker => s.trk.net = "EXIT"
  BY <1>3, <1>4, <1>5, UpdateFields
<1>7. s \in DataAt(m.from)
  BY <1>2, <1>5, <1>6 DEF DataAt
<1>8. datas' = datas \cup {p} /\ interests' = interests \ {m}
  BY DEF SendFromProvider, s, e
<1>9. p.from = Provider /\ p.to = m.from /\ p.pkt = s
  BY DEF Packet
<1>. HIDE DEF p
<1>10. p \in SentData
  <2>1. d \in RightfulData
    BY DEF DataAt
  <2>2. datas' \subseteq SentData
    BY <2>1, ProviderSends
  <2>. QED  BY <1>8, <2>2
<1>11. p \in DownData
  BY <1>1, <1>2, <1>7, <1>9, <1>10 DEF DownData
<1>. QED  BY <1>8, <1>11 DEF RouteInv

LEMMA ProviderStoreRouted ==
  ASSUME IInv, Routed, NEW m \in interests, AnswerFromProviderStore(m)
  PROVE  Routed'
<1>0. RouteInv /\ HomeInv /\ NetworkInv
  BY DEF Routed, IInv
<1>1. PICK d \in Matches(Provider, m.pkt.name) : SendFromProvider(m, d)
  BY DEF AnswerFromProviderStore
<1>2. m.to = Provider /\ UNCHANGED <<pit, out, cs, cache, hosts, crashed>>
  BY DEF AnswerFromProviderStore
<1>3. d \in DataAt(Provider)
  BY <1>0 DEF Matches, RouteInv
<1>4. interests' \subseteq UpInterest /\ datas' \subseteq DownData
  BY <1>0, <1>1, <1>2, <1>3, ProviderSendsRouted
<1>5. RouteInv'
  BY <1>0, <1>2, <1>4, PacketsRouted
<1>. QED  BY <1>0, <1>2, <1>5, HomesUnchanged DEF Routed

LEMMA ProduceRouted ==
  ASSUME IInv, Routed, NEW m \in interests, Produce(m)
  PROVE  Routed'
<1>0. RouteInv /\ HomeInv /\ NetworkInv
  BY DEF Routed, IInv
<1>. DEFINE d == Reply(Arrived(Provider, m))
<1>1. /\ m.to = Provider
      /\ SendFromProvider(m, d)
      /\ \E S \in Stored(cs[Provider], d) : cs' = [cs EXCEPT ![Provider] = S]
      /\ UNCHANGED <<pit, out, cache, hosts, crashed>>
  BY DEF Produce
<1>2. d \in DataAt(Provider)
  BY <1>0, <1>1, ReplyRouted DEF RouteInv
<1>. HIDE DEF d
<1>3. interests' \subseteq UpInterest /\ datas' \subseteq DownData
  BY <1>0, <1>1, <1>2, ProviderSendsRouted
<1>4. \A l \in Router \cup {Provider} : cs'[l] \subseteq DataAt(l)
  BY <1>0, <1>1, <1>2, StoreRouted
<1>5. /\ \A n \in Router, x \in Name : pit'[n][x] \in Seq(RecordOf(n, x))
      /\ Fresh => SoundIsForwarded'
  BY <1>0, <1>1, RecordsKept
<1>6. RouteInv'
  BY <1>3, <1>4, <1>5 DEF RouteInv
<1>. QED  BY <1>0, <1>1, <1>6, HomesUnchanged DEF Routed

LEMMA ProducerFaultRouted ==
  ASSUME IInv, Routed, NEW m \in interests, ProducerFault(m)
  PROVE  Routed'
<1>0. RouteInv /\ HomeInv
  BY DEF Routed
<1>1. UNCHANGED <<interests, datas, pit, out, cs, cache, hosts>>
  BY DEF ProducerFault
<1>2. interests' \subseteq UpInterest /\ datas' \subseteq DownData
  BY <1>0, <1>1 DEF RouteInv
<1>3. RouteInv'
  BY <1>0, <1>1, <1>2, PacketsRouted
<1>. QED  BY <1>0, <1>1, <1>3, HomesUnchanged DEF Routed

\* Actions that only drop a packet.
LEMMA DropRouted ==
  ASSUME Routed, interests' \subseteq interests, datas' \subseteq datas,
         UNCHANGED <<pit, out, cs, hosts>>
  PROVE  Routed'
<1>1. interests' \subseteq UpInterest /\ datas' \subseteq DownData
  BY DEF Routed, RouteInv
<1>2. RouteInv'
  BY <1>1, PacketsRouted DEF Routed
<1>. QED  BY <1>2, HomesUnchanged DEF Routed

LEMMA NextRouted == IInv /\ Routed /\ [Next]_vars => Routed'
<1>. SUFFICES ASSUME IInv, Routed, [Next]_vars PROVE Routed'
  OBVIOUS
<1>1. ASSUME NEW c \in Consumer, NEW x \in Name, Request(c, x) PROVE Routed'
  BY <1>1, RequestRouted
<1>2. ASSUME NEW c \in Consumer, Retransmit(c) PROVE Routed'
  BY <1>2, RetransmitRouted
<1>3. ASSUME NEW c \in Consumer, NEW m \in datas, ReceiveAnswer(c, m) PROVE Routed'
  BY <1>3, ReceiveAnswerRouted
<1>4. ASSUME NEW n \in Router, NEW m \in interests, LoopInterest(n, m) PROVE Routed'
  BY <1>4, DropRouted DEF LoopInterest
<1>5. ASSUME NEW n \in Router, NEW m \in interests, AnswerFromStore(n, m) PROVE Routed'
  BY <1>5, AnswerFromStoreRouted
<1>6. ASSUME NEW n \in Router, NEW m \in interests, AggregateInterest(n, m) PROVE Routed'
  BY <1>6, AggregateRouted
<1>7. ASSUME NEW n \in Router, NEW m \in interests, ForwardInterest(n, m) PROVE Routed'
  BY <1>7, ForwardRouted
<1>8. ASSUME NEW n \in Router, NEW m \in datas, ReceiveData(n, m) PROVE Routed'
  BY <1>8, ReceiveDataRouted
<1>9. ASSUME NEW n \in Router, NEW m \in datas, IgnoreData(n, m) PROVE Routed'
  BY <1>9, IgnoreDataRouted
<1>10. ASSUME NEW n \in Router, NEW x \in Name, Erase(n, x) PROVE Routed'
  BY <1>10, EraseRouted
<1>11. ASSUME NEW m \in interests, AnswerFromProviderStore(m) PROVE Routed'
  BY <1>11, ProviderStoreRouted
<1>12. ASSUME NEW m \in interests, Produce(m) PROVE Routed'
  BY <1>12, ProduceRouted
<1>13. ASSUME NEW m \in interests, ProducerFault(m) PROVE Routed'
  BY <1>13, ProducerFaultRouted
<1>14. CASE Lose
  BY <1>14, DropRouted DEF Lose
<1>15. CASE UNCHANGED vars
  BY <1>15, DropRouted DEF vars, hosts
<1>. QED
  BY <1>1, <1>2, <1>3, <1>4, <1>5, <1>6, <1>7, <1>8, <1>9, <1>10, <1>11, <1>12,
     <1>13, <1>14, <1>15 DEF Next

LEMMA RoutedInvariance == Spec => []Routed
<1>1. Init => Routed
  BY InitRouted
<1>. QED  BY <1>1, NextRouted, Invariance, PTL DEF Spec

-----------------------------------------------------------------------------
\* In every topology, and with whatever packets are lost, retransmitted,
\* aggregated, stored or denied, the network field of a packet in flight is
\* that of the link it is on, which is what the strategies and the producer
\* assert.
THEOREM FieldsMatchLinks == Spec => []NetworksAgree
<1>1. Routed => NetworksAgree
  <2>. SUFFICES ASSUME Routed PROVE NetworksAgree
    OBVIOUS
  <2>1. ASSUME NEW m \in interests
        PROVE  m.pkt.trk.net = IF m.from \in Consumer THEN "ENTRY"
                               ELSE IF m.to = Provider THEN "EXIT" ELSE "INTERNET"
    <3>1. m.from \in Host /\ m.to = Up[m.from] /\ m.pkt.trk.net = UpNet(m.from)
      BY DEF Routed, RouteInv, UpInterest
    <3>. QED  BY <3>1, Links DEF UpNet
  <2>2. ASSUME NEW m \in datas, m.pkt.trk # NoTracker
        PROVE  m.pkt.trk.net = IF m.to \in Consumer THEN "ENTRY"
                               ELSE IF m.from = Provider THEN "EXIT" ELSE "INTERNET"
    <3>1. m.to \in Host /\ m.from = Up[m.to] /\ m.pkt.trk.net = UpNet(m.to)
      BY <2>2 DEF Routed, RouteInv, DownData, DataAt
    <3>. QED  BY <3>1, Links DEF UpNet
  <2>. QED  BY <2>1, <2>2 DEF NetworksAgree
<1>. QED  BY <1>1, RoutedInvariance, PTL

\* Unless retransmissions alter the Interests pending, the routes of a Data
\* that reaches a consumer are those its Interest left with, whichever store
\* or other consumer's request the Data came from.
THEOREM RoutesReturn ==
  "reused-interest" \notin Defects => (Spec => []RoutesUnwind)
<1>. SUFFICES ASSUME Fresh PROVE Spec => []RoutesUnwind
  BY DEF Fresh
<1>1. Routed => RoutesUnwind
  BY DEF Routed, RouteInv, DownData, Leaving, RoutesUnwind
<1>. QED  BY <1>1, RoutedInvariance, PTL

\* On the same condition a consumer's tag bears the route that its Interests
\* have at its edge.
THEOREM TagsBearTheRoute ==
  "reused-interest" \notin Defects => (Spec => []TagFitsRequests)
<1>. SUFFICES ASSUME Fresh PROVE Spec => []TagFitsRequests
  BY DEF Fresh
<1>1. IInv /\ Routed => TagFitsRequests
  <2>. SUFFICES ASSUME IInv, Routed, NEW c \in Consumer,
                       tag[c] # NoTag, Flaw[c] # "bad_route"
                PROVE  tag[c].route = {c, Up[c]}
    BY DEF TagFitsRequests
  <2>1. Fit(tag[c])
    BY DEF Routed, HomeInv
  <2>2. tag[c].owner = c
    BY DEF IInv, HostInv, HeldTag
  <2>. QED  BY <2>1, <2>2 DEF Fit, Home
<1>. QED  BY <1>1, Invariance, RoutedInvariance, PTL

\* On the same condition a consumer whose configuration spoils nothing is
\* never denied, however its requests meet those of others that are.
THEOREM NeverDenied ==
  "reused-interest" \notin Defects => (Spec => []SoundNeverDenied)
<1>. SUFFICES ASSUME Fresh PROVE Spec => []SoundNeverDenied
  BY DEF Fresh
<1>1. IInv /\ Routed => SoundNeverDenied
  <2>. SUFFICES ASSUME IInv, Routed, NEW m \in datas, m.to \in Consumer,
                       m.pkt.kind = "Nack"
                PROVE  ~Sound(m.to)
    BY DEF SoundNeverDenied, Sound
  <2>1. Merited(m.pkt)
    BY DEF Routed, RouteInv, DownData, DataAt
  <2>2. m.pkt.trk # NoTracker /\ Traced(m.pkt.trk, m.to)
    BY DEF IInv, NetworkInv, SentData, Hop
  <2>. QED  BY <2>1, <2>2 DEF Merited
<1>. QED  BY <1>1, Invariance, RoutedInvariance, PTL

\* On the same condition no strategy stops the request of such a consumer:
\* the entry whose first record is its own has been sent on.
THEOREM AlwaysForwarded ==
  "reused-interest" \notin Defects => (Spec => []SoundIsForwarded)
<1>. SUFFICES ASSUME Fresh PROVE Spec => []SoundIsForwarded
  BY DEF Fresh
<1>1. Routed => SoundIsForwarded
  BY DEF Routed, RouteInv
<1>. QED  BY <1>1, RoutedInvariance, PTL
=============================================================================
