------------------------ MODULE AccessNetworkProofs ------------------------
(***************************************************************************)
(* AccessNetwork keeps its types, and grants access to those only who are  *)
(* authorised: for every topology, every configuration of the consumers    *)
(* and every bound.  The second holds as long as a retransmission does not *)
(* alter the Interest pending (Fresh).                                     *)
(*                                                                         *)
(* The argument: what decides on a content is the tag of the Interest that *)
(* it is given to, and the two are joined by the entry hash of the route   *)
(* tracker, which contains the id of exactly one consumer.  An Interest is *)
(* honest if its tag, its route and its owner agree and it is vouched for  *)
(* only with the bits of good tags; a Data is rightful if the consumer its *)
(* route names may have it.  A router that gives a Data to a record of the *)
(* same route keeps the verdict; any other record gets a new one, about    *)
(* its own tag.                                                            *)
(***************************************************************************)
EXTENDS AccessNetwork, FiniteSetTheorems, SequenceTheorems, TLAPS

Caches == [pos : Filter, neg : Filter]

\* The operators on route trackers stay within the trackers.
LEMMA UpdateType ==
  ASSUME NEW trk \in Tracker(Id), NEW id \in Id
  PROVE  Update(trk, id) \in Tracker(Id)
BY DEF Update, Tracker, Network, Flip

LEMMA SetNetworkType ==
  ASSUME NEW trk \in Tracker(Id), NEW net \in Network
  PROVE  SetCurrentNetwork(trk, net) \in Tracker(Id)
BY DEF SetCurrentNetwork, Tracker

LEMMA FreshType == FreshTracker \in Tracker(Id)
BY DEF FreshTracker, Tracker, Network

\* Filters stay within their bits and their counts.
LEMMA EmptyFilterType == EmptyFilter \in Filter
BY LimitAssumption DEF EmptyFilter, Filter

LEMMA RefreshedType ==
  ASSUME NEW f \in Filter
  PROVE  Refreshed(f) \in Filter
BY EmptyFilterType DEF Refreshed

LEMMA InsertedType ==
  ASSUME NEW f \in Filter, NEW T \in SUBSET Tag, NEW n \in Nat
  PROVE  Inserted(f, T, n) \in Filter
<1>1. UNION {Hash(t) : t \in T} \subseteq Bit
  BY HashAssumption
<1>2. f.bits \cup UNION {Hash(t) : t \in T} \subseteq Bit
  BY <1>1 DEF Filter
<1>3. (IF f.count + n > Limit THEN Limit + 1 ELSE f.count + n) \in 0..(Limit + 1)
  BY LimitAssumption DEF Filter
<1>. QED  BY <1>2, <1>3 DEF Inserted, Filter

-----------------------------------------------------------------------------
\* The strategies and the producer turn packets into packets.
LEMMA EnterType ==
  ASSUME NEW i \in Interest, NEW c \in Caches
  PROVE  /\ EnterNetwork(i, c).pkt \in Interest
         /\ EnterNetwork(i, c).cache \in Caches
<1>. DEFINE known    == Holds(c.pos, i.tag)
            verified == ~known /\ Holds(c.neg, i.tag) /\ i.tag.sig
            pos      == Refreshed(c.pos)
            newpos   == IF verified THEN Inserted(pos, {i.tag}, 1) ELSE pos
            newneg   == IF known THEN c.neg ELSE Refreshed(c.neg)
<1>1. CASE i.tag = NoTag \/ i.trk.entry # i.tag.route
  BY <1>1 DEF EnterNetwork
<1>2. CASE ~(i.tag = NoTag \/ i.trk.entry # i.tag.route)
  <2>1. i.tag \in Tag
    BY <1>2 DEF Interest
  <2>2. pos \in Filter /\ newneg \in Filter
    BY RefreshedType DEF Caches
  <2>3. newpos \in Filter
    BY <2>1, <2>2, InsertedType
  <2>4. [i EXCEPT !.vouched = known \/ verified] \in Interest
    <3>1. (known \/ verified) \in BOOLEAN
      BY DEF Holds
    <3>. HIDE DEF known, verified
    <3>. QED  BY <3>1 DEF Interest
  <2>5. [pos |-> newpos, neg |-> newneg] \in Caches
    BY <2>2, <2>3 DEF Caches
  <2>6. /\ EnterNetwork(i, c).pkt = [i EXCEPT !.vouched = known \/ verified]
        /\ EnterNetwork(i, c).cache = [pos |-> newpos, neg |-> newneg]
    BY <1>2 DEF EnterNetwork
  <2>. QED  BY <2>4, <2>5, <2>6
<1>. QED  BY <1>1, <1>2

LEMMA JudgedType ==
  ASSUME NEW n, NEW to, NEW i \in Interest, NEW d \in Data, d.trk # NoTracker
  PROVE  Judged(n, to, i, d) \in Data
<1>. DEFINE net == IF EdgeFace(n, to) THEN "ENTRY" ELSE "INTERNET"
<1>1. CASE Preserved(i, d)
  <2>1. d.trk \in Tracker(Id) /\ net \in Network
    BY DEF Data, Network
  <2>2. SetCurrentNetwork(d.trk, net) \in Tracker(Id)
    BY <2>1, SetNetworkType
  <2>3. [d EXCEPT !.trk = SetCurrentNetwork(@, net)] \in Data
    BY <2>2 DEF Data
  <2>. QED  BY <1>1, <2>3 DEF Judged
<1>2. CASE ~Preserved(i, d)
  <2>. DEFINE kind == IF Accepts(i, d) THEN "Blob" ELSE "Nack"
              nrc(old) == old \/ (~Public(d.name) /\ Checked(i, d) /\ i.vouched)
  <2>1. kind \in {"Blob", "Nack", "Auth"} /\ nrc(d.nrc) \in BOOLEAN /\ i.trk \in Tracker(Id)
    BY DEF Interest
  <2>2. Judged(n, to, i, d) = [d EXCEPT !.trk = i.trk, !.kind = kind, !.nrc = nrc(d.nrc)]
    BY <1>2 DEF Judged
  <2>. HIDE DEF kind, nrc
  <2>. QED  BY <2>1, <2>2 DEF Data
<1>. QED  BY <1>1, <1>2

LEMMA DecodedType ==
  ASSUME NEW d \in Data
  PROVE  Decoded(d) \in Data
BY DEF Decoded, Data

LEMMA ReplyType ==
  ASSUME NEW i \in Interest
  PROVE  Reply(i) \in Data
<1>1. i.name \in Name /\ i.trk \in Tracker(Id) /\ i.trk.entry \in SUBSET Id
  BY DEF Interest, Tracker
<1>2. AuthReply(i) \in Data
  BY <1>1 DEF AuthReply, Data
<1>3. ContentReply(i) \in Data
  <2>. DEFINE checked == i.tag # NoTag /\ i.tag.loc = "producer" /\ i.tag.route = i.trk.entry
              nrc == checked /\ i.vouched
              kind == IF checked /\ i.tag.sig THEN "Blob" ELSE "Nack"
  <2>1. nrc \in BOOLEAN /\ kind \in {"Blob", "Nack", "Auth"}
    BY DEF Interest
  <2>2. ContentReply(i) = [name |-> i.name, trk |-> i.trk, grant |-> {},
                           kind |-> kind, nrc |-> nrc]
    BY DEF ContentReply
  <2>. HIDE DEF nrc, kind
  <2>. QED  BY <1>1, <2>1, <2>2 DEF Data
<1>. QED  BY <1>2, <1>3 DEF Reply

LEMMA SpoiltType ==
  ASSUME NEW c \in Consumer, NEW grant \in SUBSET Id
  PROVE  Spoilt(c, grant) \in Tag
BY DEF Spoilt, Tag

-----------------------------------------------------------------------------
\* The inductive invariant.  `Fresh' is the assumption on which consumers are
\* told apart: with it the entry hash of an Interest, and of a Data meant for
\* that Interest, holds the id of one consumer, the one that asked.
Fresh == "reused-interest" \notin Defects

Traced(trk, c) == trk.entry \cap Consumer = {c}

\* A tag is as the configuration of its owner makes it.
Genuine(t) ==
  /\ t.sig <=> Signed(t.owner)
  /\ t.loc = "producer" => Flaw[t.owner] # "bad_keyloc"

\* An Interest bears the tag and the route of its owner, and is vouched for
\* only if the bits of its tag are those of good tags.
Honest(i) ==
  /\ i.name \in Content => i.tag # NoTag
  /\ i.tag # NoTag => i.tag.owner = i.owner /\ Genuine(i.tag)
  /\ Fresh => Traced(i.trk, i.owner)
  /\ Fresh /\ i.vouched => i.tag # NoTag /\ Hash(i.tag) \subseteq GoodBits

\* A content with the route of a consumer is one that consumer may have, and
\* its tag is good unless the Data says that it must not be learned.
Rightful(d) ==
  Fresh /\ d.name \in Content /\ d.trk # NoTracker =>
    /\ d.kind # "Auth"
    /\ d.kind = "Blob" =>
         \A c \in Consumer :
           Traced(d.trk, c) => Authorised(c) /\ (~d.nrc => Signed(c))

HonestInterest == {i \in Interest : Honest(i)}
RightfulData   == {d \in Data : Rightful(d)}
HonestCaches   == {c \in Caches : Fresh => c.pos.bits \subseteq GoodBits}

\* The Interests in flight: a consumer sends only its own, to a router.
SentInterest ==
  {m \in Hop(Id, HonestInterest) :
     m.from \in Consumer => m.from = m.pkt.owner /\ m.to \in Router}

\* The Data in flight: one to a consumer has a tracker with its route.
SentData ==
  {m \in Hop(Id, RightfulData) :
     Fresh /\ m.to \in Consumer =>
       m.pkt.trk # NoTracker /\ Traced(m.pkt.trk, m.to)}

\* The in-records, and those of the entry of x.
AnyRecord == [from : Id, pkt : HonestInterest]

Record(x) ==
  {rec \in AnyRecord :
     /\ rec.pkt.name = x
     /\ rec.from \in Consumer => rec.from = rec.pkt.owner}

HeldTag(c) == {NoTag} \cup {t \in Tag : t.owner = c /\ Genuine(t)}

OwnInterest(c) == {i \in HonestInterest : i.owner = c}

NetworkInv ==
  /\ interests \subseteq SentInterest
  /\ datas \subseteq SentData
  /\ pit \in [Router -> [Name -> Seq(AnyRecord)]]
  /\ \A n \in Router, x \in Name : pit[n][x] \in Seq(Record(x))
  /\ out \in [Router -> SUBSET Name]
  /\ cs \in [Router \cup {Provider} -> SUBSET RightfulData]
  /\ cache \in [Router -> HonestCaches]
  /\ crashed \in BOOLEAN

HostInv ==
  /\ tag \in [Consumer -> Tag \cup {NoTag}]
  /\ \A c \in Consumer : tag[c] \in HeldTag(c)
  /\ asked \in [Consumer -> SUBSET HonestInterest]
  /\ \A c \in Consumer : asked[c] \subseteq OwnInterest(c)
  /\ waiting \subseteq Consumer
  /\ sends \in [Consumer -> Nat]

IInv == NetworkInv /\ HostInv

-----------------------------------------------------------------------------
\* The nodes that are no consumers leave the trace of one alone.
LEMMA NotConsumers ==
  /\ \A n \in Router : n \in Id /\ n \notin Consumer /\ Up[n] \in Id /\ Up[n] \notin Consumer
  /\ Provider \in Id /\ Provider \notin Consumer /\ Provider \notin Router
  /\ \A c \in Consumer : c \in Id /\ c \in Name /\ Up[c] \in Id /\ Up[c] \in Router
BY NodesAssumption, TopologyAssumption DEF Id, Router, Name

LEMMA UpdateTrace ==
  ASSUME NEW trk \in Tracker(Id), NEW n \in Id, n \notin Consumer
  PROVE  Update(trk, n).entry \cap Consumer = trk.entry \cap Consumer
<1>1. Flip(trk.entry, n) \cap Consumer = trk.entry \cap Consumer
  BY DEF Flip
<1>2. Update(trk, n).entry \in {trk.entry, Flip(trk.entry, n)}
  <2>1. trk.net \in Network
    BY DEF Tracker
  <2>. QED  BY <2>1 DEF Update, Tracker, Network
<1>. QED  BY <1>1, <1>2

LEMMA SetNetworkTrace ==
  ASSUME NEW trk \in Tracker(Id), NEW net
  PROVE  SetCurrentNetwork(trk, net).entry = trk.entry
BY DEF SetCurrentNetwork, Tracker

\* The bits of an honest tag whose signature is good are good bits.
LEMMA GoodTag ==
  ASSUME NEW t \in Tag, t.sig, Genuine(t)
  PROVE  Hash(t) \subseteq GoodBits
BY DEF GoodBits, Genuine

\* An Interest whose tracker is replaced by one of the same trace stays
\* honest.
LEMMA HonestRetraced ==
  ASSUME NEW i \in HonestInterest, NEW trk \in Tracker(Id),
         trk.entry \cap Consumer = i.trk.entry \cap Consumer
  PROVE  [i EXCEPT !.trk = trk] \in HonestInterest
<1>1. i \in Interest /\ Honest(i)
  BY DEF HonestInterest
<1>. DEFINE j == [i EXCEPT !.trk = trk]
<1>2. /\ j \in Interest /\ j.name = i.name /\ j.tag = i.tag /\ j.owner = i.owner
      /\ j.vouched = i.vouched /\ j.trk = trk
  BY <1>1 DEF Interest
<1>. HIDE DEF j
<1>3. Honest(j)
  BY <1>1, <1>2 DEF Honest, Traced
<1>4. j \in HonestInterest
  BY <1>2, <1>3 DEF HonestInterest
<1>. QED  BY <1>4 DEF j

LEMMA HonestArrival ==
  ASSUME NEW n \in Id, n \notin Consumer, NEW m \in SentInterest
  PROVE  /\ Arrived(n, m) \in HonestInterest
         /\ Arrived(n, m).name = m.pkt.name
         /\ Arrived(n, m).owner = m.pkt.owner
<1>1. m.pkt \in HonestInterest /\ m.pkt \in Interest
  BY DEF SentInterest, Hop, HonestInterest
<1>2. m.pkt.trk \in Tracker(Id)
  BY <1>1 DEF Interest
<1>3. Update(m.pkt.trk, n) \in Tracker(Id)
  BY <1>2, UpdateType
<1>. QED  BY <1>1, <1>2, <1>3, UpdateTrace, HonestRetraced DEF Arrived, Interest

\* A record that a router makes of an Interest.
LEMMA RecordMade ==
  ASSUME NEW n \in Router, NEW m \in SentInterest
  PROVE  InRecord(n, m) \in Record(m.pkt.name)
<1>1. /\ Arrived(n, m) \in HonestInterest
      /\ Arrived(n, m).name = m.pkt.name
      /\ Arrived(n, m).owner = m.pkt.owner
  BY NotConsumers, HonestArrival
<1>2. m.from \in Id /\ (m.from \in Consumer => m.from = m.pkt.owner)
  BY DEF SentInterest, Hop
<1>. QED  BY <1>1, <1>2 DEF InRecord, Record, AnyRecord

-----------------------------------------------------------------------------
\* filterOutgoingInterest vouches for a tag only if its bits are good, and
\* inserts only such tags.
LEMMA EnterHonest ==
  ASSUME NEW i \in HonestInterest, NEW c \in HonestCaches
  PROVE  /\ EnterNetwork(i, c).pkt \in HonestInterest
         /\ EnterNetwork(i, c).cache \in HonestCaches
<1>. DEFINE known    == Holds(c.pos, i.tag)
            verified == ~known /\ Holds(c.neg, i.tag) /\ i.tag.sig
            pos      == Refreshed(c.pos)
            newpos   == IF verified THEN Inserted(pos, {i.tag}, 1) ELSE pos
            newneg   == IF known THEN c.neg ELSE Refreshed(c.neg)
            j        == [i EXCEPT !.vouched = known \/ verified]
<1>0. /\ i \in Interest /\ Honest(i)
      /\ c \in Caches /\ (Fresh => c.pos.bits \subseteq GoodBits)
  BY DEF HonestInterest, HonestCaches
<1>1. CASE i.tag = NoTag \/ i.trk.entry # i.tag.route
  BY <1>1 DEF EnterNetwork
<1>2. CASE ~(i.tag = NoTag \/ i.trk.entry # i.tag.route)
  <2>1. i.tag \in Tag /\ Genuine(i.tag)
    BY <1>0, <1>2 DEF Interest, Honest
  <2>2. /\ EnterNetwork(i, c).pkt = j
        /\ EnterNetwork(i, c).cache = [pos |-> newpos, neg |-> newneg]
    BY <1>2 DEF EnterNetwork
  <2>3. Fresh => pos.bits \subseteq GoodBits
    BY <1>0 DEF Refreshed, EmptyFilter
  <2>4. Fresh /\ known => Hash(i.tag) \subseteq GoodBits
    BY <2>3 DEF Holds
  <2>5. verified => Hash(i.tag) \subseteq GoodBits
    BY <2>1, GoodTag
  <2>6. Fresh => newpos.bits \subseteq GoodBits
    <3>1. Inserted(pos, {i.tag}, 1).bits = pos.bits \cup Hash(i.tag)
      BY DEF Inserted
    <3>. QED  BY <2>3, <2>5, <3>1
  <2>7. EnterNetwork(i, c).cache \in HonestCaches
    BY <1>0, <2>2, <2>6, EnterType DEF HonestCaches
  <2>8. j \in Interest
    BY <1>0, <2>2, EnterType
  <2>9. /\ j.name = i.name /\ j.tag = i.tag /\ j.owner = i.owner /\ j.trk = i.trk
        /\ j.vouched <=> known \/ verified
    BY <1>0 DEF Interest
  <2>10. Honest(j)
    <3>. HIDE DEF known, verified, j
    <3>. QED  BY <1>0, <1>2, <2>4, <2>5, <2>9 DEF Honest
  <2>. QED  BY <2>2, <2>7, <2>8, <2>10 DEF HonestInterest
<1>. QED  BY <1>1, <1>2

LEMMA FilterInterestHonest ==
  ASSUME NEW n, NEW from, NEW i \in HonestInterest, NEW c \in HonestCaches
  PROVE  /\ FilterOutgoingInterest(n, from, i, c).pkt \in HonestInterest
         /\ FilterOutgoingInterest(n, from, i, c).cache \in HonestCaches
<1>1. i.trk \in Tracker(Id)
  BY DEF HonestInterest, Interest
<1>2. ASSUME NEW net \in Network
      PROVE  [i EXCEPT !.trk = SetCurrentNetwork(@, net)] \in HonestInterest
  BY <1>1, SetNetworkType, SetNetworkTrace, HonestRetraced
<1>3. /\ [i EXCEPT !.trk = SetCurrentNetwork(@, "INTERNET")] \in HonestInterest
      /\ [i EXCEPT !.trk = SetCurrentNetwork(@, "EXIT")] \in HonestInterest
  BY <1>2 DEF Network
<1>. QED  BY <1>3, EnterHonest DEF FilterOutgoingInterest

-----------------------------------------------------------------------------
\* The owner of an honest Interest that a router accepts is authorised.
LEMMA Entitled ==
  ASSUME NEW i \in HonestInterest, Fresh,
         i.tag # NoTag, i.tag.loc = "producer", i.vouched \/ i.tag.sig
  PROVE  /\ Authorised(i.owner)
         /\ ~i.vouched => Signed(i.owner)
<1>1. /\ i.tag \in Tag /\ i.tag.owner = i.owner /\ Genuine(i.tag)
      /\ i.vouched => Hash(i.tag) \subseteq GoodBits
  BY DEF HonestInterest, Interest, Honest
<1>2. Flaw[i.owner] # "bad_keyloc" /\ (i.tag.sig <=> Signed(i.owner))
  BY <1>1 DEF Genuine
<1>. QED  BY <1>1, <1>2 DEF Authorised

LEMMA NoContentIsPublic == \A x \in Name : Public(x) <=> x \notin Content
BY NodesAssumption DEF Name, Public

LEMMA SameTrace ==
  ASSUME NEW trk, NEW b, NEW c, Traced(trk, b), Traced(trk, c)
  PROVE  b = c
BY DEF Traced

\* The verdict of a router on a rightful Data is rightful, and the routes are
\* those of the Interest it is for.
LEMMA JudgedRightful ==
  ASSUME NEW n, NEW to, NEW i \in HonestInterest, NEW d \in RightfulData,
         d.trk # NoTracker, i.name = d.name
  PROVE  /\ Judged(n, to, i, d) \in RightfulData
         /\ Judged(n, to, i, d).name = d.name
         /\ Judged(n, to, i, d).trk \in Tracker(Id)
         /\ Fresh => Traced(Judged(n, to, i, d).trk, i.owner)
<1>. DEFINE j == Judged(n, to, i, d)
<1>0. /\ i \in Interest /\ Honest(i) /\ d \in Data /\ Rightful(d)
      /\ d.trk \in Tracker(Id) /\ i.trk \in Tracker(Id) /\ NoTracker \notin Tracker(Id)
      /\ d.name \in Name /\ j \in Data
  BY JudgedType, NoneAssumption DEF HonestInterest, RightfulData, Interest, Data
<1>1. CASE Preserved(i, d)
  <2>. DEFINE net == IF EdgeFace(n, to) THEN "ENTRY" ELSE "INTERNET"
              e   == [d EXCEPT !.trk = SetCurrentNetwork(@, net)]
  <2>1. j = e \/ j = d
    BY <1>1 DEF Judged
  <2>2. SetCurrentNetwork(d.trk, net) \in Tracker(Id)
    BY <1>0, SetNetworkType DEF Network
  <2>3. /\ e.name = d.name /\ e.kind = d.kind /\ e.nrc = d.nrc
        /\ e.trk \in Tracker(Id) /\ e.trk.entry = d.trk.entry
    BY <1>0, <2>2, SetNetworkTrace DEF Data
  <2>4. /\ j.name = d.name /\ j.kind = d.kind /\ j.nrc = d.nrc
        /\ j.trk \in Tracker(Id) /\ j.trk.entry = d.trk.entry
    <3>. HIDE DEF e, j
    <3>. QED  BY <1>0, <2>1, <2>3
  <2>5. d.trk.entry = i.trk.entry
    BY <1>1 DEF Preserved, SameRoutes
  <2>. HIDE DEF j
  <2>6. Rightful(j)
    BY <1>0, <2>4 DEF Rightful, Traced
  <2>7. Fresh => Traced(j.trk, i.owner)
    BY <1>0, <2>4, <2>5 DEF Honest, Traced
  <2>8. j \in RightfulData
    BY <1>0, <2>6 DEF RightfulData
  <2>. QED  BY <2>4, <2>7, <2>8 DEF j
<1>2. CASE ~Preserved(i, d)
  <2>. DEFINE flag == ~Public(d.name) /\ Checked(i, d) /\ i.vouched
  <2>1. j = [d EXCEPT !.trk = i.trk,
                      !.kind = IF Accepts(i, d) THEN "Blob" ELSE "Nack",
                      !.nrc = @ \/ flag]
    BY <1>2 DEF Judged
  <2>2. /\ j.name = d.name /\ j.trk = i.trk
        /\ j.kind = IF Accepts(i, d) THEN "Blob" ELSE "Nack"
        /\ j.nrc = (d.nrc \/ flag)
    <3>. HIDE DEF flag, j
    <3>. QED  BY <1>0, <2>1 DEF Data
  <2>. HIDE DEF j
  <2>3. ASSUME Fresh, j.name \in Content, j.kind = "Blob",
               NEW c \in Consumer, Traced(j.trk, c)
        PROVE  Authorised(c) /\ (~j.nrc => Signed(c))
    <3>1. c = i.owner
      BY <1>0, <2>2, <2>3, SameTrace DEF Honest
    <3>2. ~Public(d.name) /\ Accepts(i, d)
      BY <1>0, <2>2, <2>3, NoContentIsPublic
    <3>3. i.tag # NoTag /\ i.tag.loc = "producer" /\ (i.vouched \/ i.tag.sig)
      BY <3>2 DEF Accepts, Checked
    <3>4. Authorised(i.owner) /\ (~i.vouched => Signed(i.owner))
      BY <2>3, <3>3, Entitled
    <3>5. i.vouched => j.nrc
      BY <2>2, <3>2, <3>3 DEF Checked
    <3>. QED  BY <3>1, <3>4, <3>5
  <2>4. Rightful(j)
    BY <2>2, <2>3 DEF Rightful
  <2>5. Fresh => Traced(j.trk, i.owner)
    BY <1>0, <2>2 DEF Honest
  <2>6. j \in RightfulData
    BY <1>0, <2>4 DEF RightfulData
  <2>. QED  BY <1>0, <2>2, <2>5, <2>6 DEF j
<1>. QED  BY <1>1, <1>2

LEMMA StampedRightful ==
  ASSUME NEW d \in RightfulData, NEW n \in Id, n \notin Consumer
  PROVE  /\ Stamped(d, n) \in RightfulData
         /\ d.trk # NoTracker =>
              /\ Stamped(d, n).trk # NoTracker
              /\ \A c : Traced(Stamped(d, n).trk, c) <=> Traced(d.trk, c)
<1>. DEFINE e == Stamped(d, n)
<1>0. d \in Data /\ Rightful(d) /\ NoTracker \notin Tracker(Id)
  BY NoneAssumption DEF RightfulData
<1>1. CASE d.trk = NoTracker
  BY <1>1 DEF Stamped
<1>2. CASE d.trk # NoTracker
  <2>1. d.trk \in Tracker(Id)
    BY <1>0, <1>2 DEF Data
  <2>2. /\ Update(d.trk, n) \in Tracker(Id)
        /\ Update(d.trk, n).entry \cap Consumer = d.trk.entry \cap Consumer
    BY <2>1, UpdateType, UpdateTrace
  <2>3. e = [d EXCEPT !.trk = Update(@, n)]
    BY <1>2 DEF Stamped
  <2>4. /\ e \in Data /\ e.name = d.name /\ e.kind = d.kind /\ e.nrc = d.nrc
        /\ e.trk = Update(d.trk, n)
    BY <1>0, <2>2, <2>3 DEF Data
  <2>. HIDE DEF e
  <2>5. \A c : Traced(e.trk, c) <=> Traced(d.trk, c)
    BY <2>2, <2>4 DEF Traced
  <2>6. Rightful(e)
    BY <1>0, <1>2, <2>4, <2>5 DEF Rightful
  <2>7. e \in RightfulData /\ e.trk # NoTracker
    BY <1>0, <2>2, <2>4, <2>6 DEF RightfulData
  <2>. QED  BY <2>5, <2>7 DEF e
<1>. QED  BY <1>1, <1>2

LEMMA DecodedRightful ==
  ASSUME NEW d \in RightfulData
  PROVE  Decoded(d) \in RightfulData
<1>1. CASE Mangled(d)
  <2>1. Decoded(d) = [d EXCEPT !.trk = NoTracker] /\ Decoded(d) \in Data
    BY <1>1, DecodedType DEF Decoded, RightfulData
  <2>2. Decoded(d).trk = NoTracker
    BY <2>1 DEF RightfulData, Data
  <2>. QED  BY <2>1, <2>2 DEF RightfulData, Rightful
<1>2. CASE ~Mangled(d)
  BY <1>2 DEF Decoded
<1>. QED  BY <1>1, <1>2

\* What the producer answers an honest Interest with is rightful.
LEMMA ReplyRightful ==
  ASSUME NEW i \in HonestInterest
  PROVE  Reply(i) \in RightfulData /\ Reply(i).name = i.name
<1>0. i \in Interest /\ Honest(i) /\ Reply(i) \in Data /\ i.name \in Name
  BY ReplyType DEF HonestInterest, Interest
<1>1. Reply(i).name = i.name /\ Reply(i).trk = i.trk
  BY DEF Reply, AuthReply, ContentReply
<1>2. CASE i.name \notin Content
  BY <1>0, <1>1, <1>2 DEF RightfulData, Rightful
<1>3. CASE i.name \in Content
  <2>1. Reply(i) = ContentReply(i)
    BY <1>0, <1>3, NoContentIsPublic DEF Reply
  <2>2. Reply(i).kind # "Auth"
    BY <2>1 DEF ContentReply
  <2>3. ASSUME Fresh, Reply(i).kind = "Blob", NEW c \in Consumer, Traced(i.trk, c)
        PROVE  Authorised(c) /\ Signed(c)
    <3>1. c = i.owner
      BY <1>0, <2>3, SameTrace DEF Honest
    <3>2. i.tag # NoTag /\ i.tag.loc = "producer" /\ i.tag.sig
      BY <2>1, <2>3 DEF ContentReply
    <3>3. Authorised(i.owner)
      BY <2>3, <3>2, Entitled
    <3>4. Signed(i.owner)
      BY <1>0, <3>2 DEF Honest, Genuine
    <3>. QED  BY <3>1, <3>3, <3>4
  <2>4. Rightful(Reply(i))
    BY <1>1, <2>2, <2>3 DEF Rightful
  <2>. QED  BY <1>0, <1>1, <2>4 DEF RightfulData
<1>. QED  BY <1>2, <1>3

\* The tag a consumer keeps is one that it may hold.
LEMMA SpoiltHeld ==
  ASSUME NEW c \in Consumer, NEW grant \in SUBSET Id
  PROVE  Spoilt(c, grant) \in HeldTag(c)
<1>1. /\ Spoilt(c, grant).owner = c
      /\ Spoilt(c, grant).sig = (Flaw[c] # "bad_auth_sig")
      /\ Spoilt(c, grant).loc = "producer" => Flaw[c] # "bad_keyloc"
  BY DEF Spoilt
<1>2. Genuine(Spoilt(c, grant))
  BY <1>1 DEF Genuine, Signed
<1>. QED  BY <1>1, <1>2, SpoiltType DEF HeldTag

-----------------------------------------------------------------------------
\* Answering the records of an entry.
LEMMA RecordAt ==
  ASSUME NEW x, NEW recs \in Seq(Record(x)), NEW j \in 1..Len(recs)
  PROVE  /\ recs[j].pkt \in HonestInterest /\ recs[j].pkt.name = x
         /\ recs[j].from \in Id
         /\ recs[j].from \in Consumer => recs[j].from = recs[j].pkt.owner
<1>1. recs[j] \in Record(x)
  BY ElementOfSeq
<1>. QED  BY <1>1 DEF Record, AnyRecord

\* The sets of indices an edge counts are finite.
LEMMA IndicesFinite ==
  ASSUME NEW l \in Nat, NEW K \in SUBSET (1..l)
  PROVE  Cardinality(K) \in Nat
<1>1. IsFiniteSet(1..l)
  BY FS_Interval
<1>2. IsFiniteSet(K)
  BY <1>1, FS_Subset
<1>. QED  BY <1>2, FS_CardinalityType

\* An edge learns no tag whose bits are not good.
LEMMA LearnedHonest ==
  ASSUME NetworkInv, NEW n \in Router, NEW d \in RightfulData, d.trk # NoTracker,
         NEW recs \in Seq(Record(d.name)), NEW R \in SUBSET (1..Len(recs))
  PROVE  Learned(n, recs, R, d) \in HonestCaches
<1>. DEFINE leaving == {k \in R : ~EdgeFace(n, Up[n]) /\ EdgeFace(n, recs[k].from)
                                   /\ ~Public(d.name)}
            judged(k) == Judged(n, recs[k].from, recs[k].pkt, d)
            bad  == {k \in leaving : judged(k).kind = "Nack"}
            good == {k \in leaving \ bad : ~judged(k).nrc}
            tags(K) == {recs[k].pkt.tag : k \in K}
            pos == Inserted(cache[n].pos, tags(good), Cardinality(good))
            neg == Inserted(cache[n].neg, tags(bad), Cardinality(bad))
<1>1. bad \in SUBSET (1..Len(recs)) /\ good \in SUBSET (1..Len(recs)) /\ Len(recs) \in Nat
  <2>1. leaving \subseteq R /\ bad \subseteq leaving /\ good \subseteq leaving
    OBVIOUS
  <2>2. Len(recs) \in Nat
    BY LenProperties
  <2>. QED  BY <2>1, <2>2
<1>2. Cardinality(bad) \in Nat /\ Cardinality(good) \in Nat
  BY <1>1, IndicesFinite
<1>3. ASSUME NEW k \in leaving
      PROVE  /\ recs[k].pkt.tag \in Tag /\ recs[k].pkt.tag.owner = recs[k].pkt.owner
             /\ Genuine(recs[k].pkt.tag) /\ recs[k].pkt.owner \in Consumer
             /\ judged(k) \in RightfulData /\ judged(k).name = d.name
             /\ judged(k).trk \in Tracker(Id) /\ d.name \in Content
             /\ Fresh => Traced(judged(k).trk, recs[k].pkt.owner)
  <2>1. recs[k].pkt \in HonestInterest /\ recs[k].pkt.name = d.name
    BY RecordAt
  <2>2. d.name \in Content
    BY NoContentIsPublic DEF RightfulData, Data
  <2>3. recs[k].pkt \in Interest /\ Honest(recs[k].pkt) /\ recs[k].pkt.tag # NoTag
    BY <2>1, <2>2 DEF HonestInterest, Honest
  <2>. QED  BY <2>1, <2>2, <2>3, JudgedRightful DEF Interest, Honest
<1>4. tags(bad) \in SUBSET Tag /\ tags(good) \in SUBSET Tag
  BY <1>3
<1>5. ASSUME Fresh, NEW k \in good PROVE Hash(recs[k].pkt.tag) \subseteq GoodBits
  <2>1. k \in leaving /\ judged(k).kind # "Nack" /\ ~judged(k).nrc
    OBVIOUS
  <2>2. judged(k).trk # NoTracker /\ judged(k).name \in Content
    BY <1>3, <2>1, NoneAssumption
  <2>3. judged(k).kind = "Blob"
    BY <1>3, <1>5, <2>1, <2>2 DEF RightfulData, Rightful, Data
  <2>4. Signed(recs[k].pkt.owner)
    BY <1>3, <1>5, <2>1, <2>2, <2>3 DEF RightfulData, Rightful
  <2>5. recs[k].pkt.tag.sig
    BY <1>3, <2>1, <2>4 DEF Genuine
  <2>. QED  BY <1>3, <2>1, <2>5, GoodTag
<1>6. /\ cache[n].pos \in Filter /\ cache[n].neg \in Filter
      /\ Fresh => cache[n].pos.bits \subseteq GoodBits
  BY DEF NetworkInv, HonestCaches, Caches
<1>7. pos \in Filter /\ neg \in Filter
  BY <1>2, <1>4, <1>6, InsertedType
<1>8. Fresh => pos.bits \subseteq GoodBits
  <2>1. pos.bits = cache[n].pos.bits \cup UNION {Hash(t) : t \in tags(good)}
    BY DEF Inserted
  <2>2. ASSUME Fresh, NEW t \in tags(good) PROVE Hash(t) \subseteq GoodBits
    <3>1. PICK k \in good : t = recs[k].pkt.tag
      BY <2>2
    <3>. HIDE DEF good
    <3>. QED  BY <1>5, <2>2, <3>1
  <2>. HIDE DEF tags, good, pos
  <2>3. Fresh => UNION {Hash(t) : t \in tags(good)} \subseteq GoodBits
    BY <2>2
  <2>. QED  BY <1>6, <2>1, <2>3
<1>9. Learned(n, recs, R, d) = [pos |-> pos, neg |-> neg]
  BY DEF Learned
<1>. HIDE DEF pos, neg
<1>. QED  BY <1>7, <1>8, <1>9 DEF HonestCaches, Caches

\* The Data that a router sends a record are as they should be.
LEMMA AnswerSent ==
  ASSUME NEW n \in Router, NEW d \in RightfulData, d.trk # NoTracker,
         NEW recs \in Seq(Record(d.name)), NEW j \in 1..Len(recs)
  PROVE  Packet(n, recs[j].from,
                Stamped(Judged(n, recs[j].from, recs[j].pkt, d), n)) \in SentData
<1>. DEFINE e == Judged(n, recs[j].from, recs[j].pkt, d)
<1>1. /\ recs[j].pkt \in HonestInterest /\ recs[j].pkt.name = d.name
      /\ recs[j].from \in Id
      /\ recs[j].from \in Consumer => recs[j].from = recs[j].pkt.owner
  BY RecordAt
<1>2. /\ e \in RightfulData /\ e.trk # NoTracker
      /\ Fresh => Traced(e.trk, recs[j].pkt.owner)
  BY <1>1, JudgedRightful, NoneAssumption
<1>. HIDE DEF e
<1>3. n \in Id /\ n \notin Consumer
  BY NotConsumers
<1>4. /\ Stamped(e, n) \in RightfulData /\ Stamped(e, n).trk # NoTracker
      /\ Fresh => Traced(Stamped(e, n).trk, recs[j].pkt.owner)
  BY <1>2, <1>3, StampedRightful
<1>5. Packet(n, recs[j].from, Stamped(e, n)) \in SentData
  BY <1>1, <1>3, <1>4 DEF Packet, SentData, Hop
<1>. QED  BY <1>5 DEF e

LEMMA ServePreserves ==
  ASSUME NetworkInv, NEW n \in Router, NEW d \in RightfulData,
         NEW recs \in Seq(Record(d.name)), NEW k \in 1..(Len(recs) + 1),
         NEW left \in SUBSET SentData, Serve(n, recs, k, d, left)
  PROVE  /\ datas' \subseteq SentData
         /\ cache' \in [Router -> HonestCaches]
         /\ crashed' \in BOOLEAN
<1>. DEFINE crash(j) == Crashes(n, recs[j].from, recs[j].pkt, d)
            throws(j) == Throws(n, recs[j].from, recs[j].pkt, d)
            fails  == {j \in k..Len(recs) : crash(j) \/ throws(j)}
            served == {j \in k..Len(recs) : \A f \in fails : f < j}
            answer(j) == Stamped(Judged(n, recs[j].from, recs[j].pkt, d), n)
<1>1. /\ datas' = left \cup {Packet(n, recs[j].from, answer(j)) : j \in served}
      /\ cache' = [cache EXCEPT ![n] = Learned(n, recs, served, d)]
      /\ crashed' = \E f \in fails : crash(f) /\ \A g \in fails : g <= f
  BY DEF Serve
<1>2. served \in SUBSET (1..Len(recs))
  OBVIOUS
<1>3. ASSUME NEW j \in served PROVE d.trk # NoTracker
  <2>1. j \notin fails
    OBVIOUS
  <2>2. ~throws(j)
    BY <2>1
  <2>. QED  BY <2>2 DEF Throws
<1>. HIDE DEF fails, served
<1>4. datas' \subseteq SentData
  <2>1. ASSUME NEW j \in served PROVE Packet(n, recs[j].from, answer(j)) \in SentData
    BY <1>2, <1>3, AnswerSent
  <2>. QED  BY <1>1, <2>1
<1>5. cache' \in [Router -> HonestCaches]
  <2>1. CASE served = {}
    <3>1. Learned(n, recs, {}, d) =
            [pos |-> Inserted(cache[n].pos, {}, Cardinality({})),
             neg |-> Inserted(cache[n].neg, {}, Cardinality({}))]
      <4>1. \A K \in SUBSET {} : K = {}
        OBVIOUS
      <4>. QED  BY <4>1 DEF Learned
    <3>2. cache[n] \in Caches /\ (Fresh => cache[n].pos.bits \subseteq GoodBits)
      BY DEF NetworkInv, HonestCaches
    <3>3. Cardinality({}) \in Nat /\ {} \in SUBSET Tag
      BY FS_EmptySet
    <3>4. /\ Inserted(cache[n].pos, {}, Cardinality({})) \in Filter
          /\ Inserted(cache[n].neg, {}, Cardinality({})) \in Filter
          /\ Inserted(cache[n].pos, {}, Cardinality({})).bits = cache[n].pos.bits
      <4>1. cache[n].pos \in Filter /\ cache[n].neg \in Filter
        BY <3>2 DEF Caches
      <4>2. Inserted(cache[n].pos, {}, Cardinality({})).bits = cache[n].pos.bits
        BY DEF Inserted
      <4>. QED  BY <3>3, <4>1, <4>2, InsertedType
    <3>5. Learned(n, recs, {}, d) \in HonestCaches
      BY <3>1, <3>2, <3>4 DEF HonestCaches, Caches
    <3>. QED  BY <1>1, <2>1, <3>5 DEF NetworkInv
  <2>2. CASE served # {}
    <3>1. Learned(n, recs, served, d) \in HonestCaches
      BY <1>2, <1>3, <2>2, LearnedHonest
    <3>. QED  BY <1>1, <3>1 DEF NetworkInv
  <2>. QED  BY <2>1, <2>2
<1>6. crashed' \in BOOLEAN
  BY <1>1
<1>. QED  BY <1>4, <1>5, <1>6

-----------------------------------------------------------------------------
\* The invariant holds at first, and each action preserves it.
LEMMA InvInit == Init => IInv
<1>. SUFFICES ASSUME Init PROVE IInv
  OBVIOUS
<1>1. \A S : <<>> \in Seq(S)
  OBVIOUS
<1>2. [pos |-> EmptyFilter, neg |-> EmptyFilter] \in HonestCaches
  BY EmptyFilterType DEF HonestCaches, Caches, EmptyFilter
<1>3. NetworkInv
  BY <1>1, <1>2 DEF Init, NetworkInv
<1>4. ASSUME NEW c \in Consumer
      PROVE  tag[c] \in HeldTag(c) /\ tag[c] \in Tag \cup {NoTag}
  <2>1. {c, Up[c]} \in SUBSET Id
    BY NotConsumers
  <2>2. Spoilt(c, {c, Up[c]}) \in HeldTag(c)
    BY <2>1, SpoiltHeld
  <2>3. tag[c] = Spoilt(c, {c, Up[c]}) \/ tag[c] = NoTag
    BY DEF Init
  <2>. QED  BY <2>2, <2>3 DEF HeldTag
<1>5. tag \in [Consumer -> Tag \cup {NoTag}]
  BY <1>4 DEF Init
<1>6. HostInv
  BY <1>4, <1>5 DEF Init, HostInv
<1>. QED  BY <1>3, <1>6 DEF IInv

\* A sequence over a set is one over a larger set.
LEMMA SeqMonotone ==
  ASSUME NEW A, NEW B, A \subseteq B, NEW s \in Seq(A)
  PROVE  s \in Seq(B)
<1>1. \A k \in 1..Len(s) : s[k] \in B
  BY ElementOfSeq
<1>2. Len(s) \in Nat /\ s = [k \in 1..Len(s) |-> s[k]]
  BY LenProperties
<1>. QED  BY <1>1, <1>2

\* Records replaced in one entry.
LEMMA EntryReplaced ==
  ASSUME NetworkInv, NEW n \in Router, NEW x \in Name, NEW recs \in Seq(Record(x)),
         pit' = [pit EXCEPT ![n][x] = recs]
  PROVE  /\ pit' \in [Router -> [Name -> Seq(AnyRecord)]]
         /\ \A m \in Router, y \in Name : pit'[m][y] \in Seq(Record(y))
<1>1. recs \in Seq(AnyRecord)
  BY SeqMonotone DEF Record
<1>2. pit \in [Router -> [Name -> Seq(AnyRecord)]]
  BY DEF NetworkInv
<1>3. \A m \in Router, y \in Name : pit[m][y] \in Seq(Record(y))
  BY DEF NetworkInv
<1>4. \A m \in Router, y \in Name :
        pit'[m][y] = IF m = n /\ y = x THEN recs ELSE pit[m][y]
  BY <1>2
<1>. HIDE DEF NetworkInv
<1>5. pit' \in [Router -> [Name -> Seq(AnyRecord)]]
  BY <1>1, <1>2
<1>. QED  BY <1>3, <1>4, <1>5

\* Actions of the consumers.
LEMMA RequestPreserves ==
  ASSUME IInv, NEW c \in Consumer, NEW x \in Name, Request(c, x)
  PROVE  IInv'
<1>. DEFINE i == [name |-> x, owner |-> c, nonce |-> sends[c],
                  tag |-> IF x = c THEN NoTag ELSE tag[c],
                  trk |-> Update(FreshTracker, c), vouched |-> FALSE]
<1>1. /\ interests' = interests \cup {Packet(c, Up[c], i)}
      /\ asked' = [asked EXCEPT ![c] = @ \cup {i}]
      /\ waiting' = IF x = c THEN waiting \cup {c} ELSE waiting
      /\ sends' = [sends EXCEPT ![c] = @ + 1]
      /\ UNCHANGED <<datas, pit, out, cs, cache, tag, crashed>>
      /\ IF HasAuth(c) THEN x \in Content ELSE x = c
  BY DEF Request
<1>2. tag[c] \in HeldTag(c) /\ tag[c] \in Tag \cup {NoTag} /\ sends[c] \in Nat
  BY DEF IInv, HostInv
<1>3. i \in HonestInterest
  <2>1. Update(FreshTracker, c) \in Tracker(Id)
    BY NotConsumers, FreshType, UpdateType
  <2>2. i \in Interest
    BY <1>2, <2>1 DEF Interest
  <2>3. Traced(i.trk, c)
    BY DEF Update, FreshTracker, Flip, Traced
  <2>4. x \in Content => x # c /\ tag[c] # NoTag
    BY <1>1, NodesAssumption DEF HasAuth
  <2>5. i.tag # NoTag => i.tag.owner = c /\ Genuine(i.tag)
    BY <1>2 DEF HeldTag
  <2>6. Honest(i)
    BY <2>3, <2>4, <2>5 DEF Honest
  <2>. QED  BY <2>2, <2>6 DEF HonestInterest
<1>4. i.owner = c
  OBVIOUS
<1>. HIDE DEF i
<1>5. Packet(c, Up[c], i) \in SentInterest
  BY <1>3, <1>4, NotConsumers DEF Packet, SentInterest, Hop
<1>6. NetworkInv'
  BY <1>1, <1>5 DEF IInv, NetworkInv
<1>7. HostInv'
  <2>1. asked' \in [Consumer -> SUBSET HonestInterest]
    BY <1>1, <1>3 DEF IInv, HostInv
  <2>2. \A b \in Consumer : asked'[b] \subseteq OwnInterest(b)
    BY <1>1, <1>3, <1>4 DEF IInv, HostInv, OwnInterest
  <2>3. sends' \in [Consumer -> Nat] /\ waiting' \subseteq Consumer
    BY <1>1, <1>2 DEF IInv, HostInv
  <2>. QED  BY <1>1, <2>1, <2>2, <2>3 DEF IInv, HostInv
<1>. QED  BY <1>6, <1>7 DEF IInv

LEMMA RetransmitPreserves ==
  ASSUME IInv, NEW c \in Consumer, Retransmit(c)
  PROVE  IInv'
<1>1. PICK i \in asked[c] :
        LET j == IF "reused-interest" \in Defects
                 THEN [i EXCEPT !.trk = Update(@, c)] ELSE i
        IN  /\ interests' = interests \cup {Packet(c, Up[c], j)}
            /\ asked' = [asked EXCEPT ![c] = (@ \ {i}) \cup {j}]
            /\ sends' = [sends EXCEPT ![c] = @ + 1]
            /\ UNCHANGED <<datas, pit, out, cs, cache, tag, waiting, crashed>>
  BY DEF Retransmit
<1>. DEFINE j == IF "reused-interest" \in Defects
                 THEN [i EXCEPT !.trk = Update(@, c)] ELSE i
<1>2. i \in HonestInterest /\ i \in Interest /\ Honest(i) /\ i.owner = c
  BY DEF IInv, HostInv, OwnInterest, HonestInterest
<1>3. j \in HonestInterest /\ j.owner = c
  <2>1. CASE Fresh
    BY <1>2, <2>1 DEF Fresh
  <2>2. CASE ~Fresh
    <3>1. Update(i.trk, c) \in Tracker(Id)
      BY <1>2, NotConsumers, UpdateType DEF Interest
    <3>2. j = [i EXCEPT !.trk = Update(@, c)]
      BY <2>2 DEF Fresh
    <3>3. /\ j \in Interest /\ j.name = i.name /\ j.tag = i.tag
          /\ j.owner = c /\ j.vouched = i.vouched
      BY <1>2, <3>1, <3>2 DEF Interest
    <3>. HIDE DEF j
    <3>4. Honest(j)
      BY <1>2, <2>2, <3>3 DEF Honest
    <3>. QED  BY <3>3, <3>4 DEF HonestInterest
  <2>. QED  BY <2>1, <2>2
<1>4. /\ interests' = interests \cup {Packet(c, Up[c], j)}
      /\ asked' = [asked EXCEPT ![c] = (@ \ {i}) \cup {j}]
      /\ sends' = [sends EXCEPT ![c] = @ + 1]
      /\ UNCHANGED <<datas, pit, out, cs, cache, tag, waiting, crashed>>
  BY <1>1
<1>. HIDE DEF j
<1>5. Packet(c, Up[c], j) \in SentInterest
  BY <1>3, NotConsumers DEF Packet, SentInterest, Hop
<1>6. NetworkInv'
  BY <1>4, <1>5 DEF IInv, NetworkInv
<1>7. HostInv'
  <2>1. asked' \in [Consumer -> SUBSET HonestInterest]
    BY <1>4, <1>3 DEF IInv, HostInv
  <2>2. \A b \in Consumer : asked'[b] \subseteq OwnInterest(b)
    BY <1>4, <1>3 DEF IInv, HostInv, OwnInterest
  <2>3. sends' \in [Consumer -> Nat]
    BY <1>4 DEF IInv, HostInv
  <2>. QED  BY <1>4, <2>1, <2>2, <2>3 DEF IInv, HostInv
<1>. QED  BY <1>6, <1>7 DEF IInv

LEMMA ReceiveAnswerPreserves ==
  ASSUME IInv, NEW c \in Consumer, NEW m \in datas, ReceiveAnswer(c, m)
  PROVE  IInv'
<1>1. /\ datas' = datas \ {m}
      /\ asked' = [asked EXCEPT ![c] = {i \in @ : i.name # m.pkt.name}]
      /\ tag' = [tag EXCEPT ![c] = Spoilt(c, m.pkt.grant)] \/ tag' = tag
      /\ waiting' = waiting \ {c} \/ waiting' = waiting
      /\ UNCHANGED <<interests, pit, out, cs, cache, sends, crashed>>
  BY DEF ReceiveAnswer
<1>2. m.pkt.grant \in SUBSET Id
  BY DEF IInv, NetworkInv, SentData, Hop, RightfulData, Data
<1>3. /\ Spoilt(c, m.pkt.grant) \in HeldTag(c)
      /\ Spoilt(c, m.pkt.grant) \in Tag
  BY <1>2, SpoiltHeld, SpoiltType
<1>4. NetworkInv'
  BY <1>1 DEF IInv, NetworkInv
<1>5. HostInv'
  <2>1. tag' \in [Consumer -> Tag \cup {NoTag}]
    BY <1>1, <1>3 DEF IInv, HostInv
  <2>2. \A b \in Consumer : tag'[b] \in HeldTag(b)
    BY <1>1, <1>3 DEF IInv, HostInv
  <2>3. asked' \in [Consumer -> SUBSET HonestInterest]
    BY <1>1 DEF IInv, HostInv
  <2>4. \A b \in Consumer : asked'[b] \subseteq OwnInterest(b)
    BY <1>1 DEF IInv, HostInv
  <2>. QED  BY <1>1, <2>1, <2>2, <2>3, <2>4 DEF IInv, HostInv
<1>. QED  BY <1>4, <1>5 DEF IInv

\* What the packets in flight and the records of an entry consist of.
LEMMA InFlight ==
  ASSUME NetworkInv
  PROVE  /\ \A m \in interests : /\ m \in SentInterest /\ m.from \in Id
                                 /\ m.pkt \in HonestInterest /\ m.pkt.name \in Name
         /\ \A m \in datas : /\ m \in SentData
                             /\ m.pkt \in RightfulData /\ m.pkt.name \in Name
         /\ \A n \in Router \cup {Provider} : cs[n] \subseteq RightfulData
BY DEF NetworkInv, SentInterest, SentData, Hop, HonestInterest, RightfulData,
       Interest, Data

\* A content store that has taken a Data in flight.
LEMMA StoreExtended ==
  ASSUME NetworkInv, NEW n \in Router \cup {Provider}, NEW d \in RightfulData,
         NEW S \in Stored(cs[n], d) \cup {cs[n]}, cs' = [cs EXCEPT ![n] = S]
  PROVE  cs' \in [Router \cup {Provider} -> SUBSET RightfulData]
<1>1. S \subseteq cs[n] \cup {d}
  BY DEF Stored
<1>2. cs \in [Router \cup {Provider} -> SUBSET RightfulData]
  BY DEF NetworkInv
<1>. QED  BY <1>1, <1>2

\* The consumers' variables are those of the hosts.
LEMMA HostsUnchanged ==
  ASSUME HostInv, UNCHANGED hosts
  PROVE  HostInv'
BY DEF HostInv, hosts

\* Actions of the routers.
LEMMA AnswerFromStorePreserves ==
  ASSUME IInv, NEW n \in Router, NEW m \in interests, AnswerFromStore(n, m)
  PROVE  IInv'
<1>0. NetworkInv /\ HostInv
  BY DEF IInv
<1>1. PICK d \in Matches(n, m.pkt.name) : Serve(n, <<InRecord(n, m)>>, 1, d, datas)
  BY DEF AnswerFromStore
<1>2. interests' = interests \ {m} /\ UNCHANGED <<pit, out, cs, hosts>>
  BY DEF AnswerFromStore
<1>3. d \in RightfulData /\ d.name = m.pkt.name
  BY <1>0, InFlight DEF Matches
<1>4. InRecord(n, m) \in Record(d.name)
  BY <1>0, <1>3, InFlight, RecordMade
<1>. DEFINE recs == <<InRecord(n, m)>>
<1>5. recs \in Seq(Record(d.name)) /\ Len(recs) = 1
  BY <1>4
<1>6. 1 \in 1..(Len(recs) + 1) /\ datas \in SUBSET SentData
  BY <1>0, <1>5 DEF NetworkInv
<1>. HIDE DEF recs
<1>7. Serve(n, recs, 1, d, datas)
  BY <1>1 DEF recs
<1>8. /\ datas' \subseteq SentData
      /\ cache' \in [Router -> HonestCaches]
      /\ crashed' \in BOOLEAN
  BY <1>0, <1>3, <1>5, <1>6, <1>7, ServePreserves
<1>9. NetworkInv'
  BY <1>0, <1>2, <1>8 DEF NetworkInv
<1>. QED  BY <1>0, <1>2, <1>9, HostsUnchanged DEF IInv

LEMMA AggregatePreserves ==
  ASSUME IInv, NEW n \in Router, NEW m \in interests, AggregateInterest(n, m)
  PROVE  IInv'
<1>0. NetworkInv /\ HostInv
  BY DEF IInv
<1>. DEFINE x == m.pkt.name
            recs == Append(pit[n][x], InRecord(n, m))
<1>1. /\ interests' = interests \ {m}
      /\ pit' = [pit EXCEPT ![n][x] = recs]
      /\ UNCHANGED <<datas, out, cs, cache, hosts, crashed>>
  BY DEF AggregateInterest
<1>2. x \in Name /\ InRecord(n, m) \in Record(x) /\ pit[n][x] \in Seq(Record(x))
  BY <1>0, InFlight, RecordMade DEF NetworkInv
<1>3. recs \in Seq(Record(x))
  BY <1>2
<1>. HIDE DEF recs, x
<1>4. /\ pit' \in [Router -> [Name -> Seq(AnyRecord)]]
      /\ \A l \in Router, y \in Name : pit'[l][y] \in Seq(Record(y))
  BY <1>0, <1>1, <1>2, <1>3, EntryReplaced
<1>5. NetworkInv'
  BY <1>0, <1>1, <1>4 DEF NetworkInv
<1>. QED  BY <1>0, <1>1, <1>5, HostsUnchanged DEF IInv

LEMMA ForwardPreserves ==
  ASSUME IInv, NEW n \in Router, NEW m \in interests, ForwardInterest(n, m)
  PROVE  IInv'
<1>0. NetworkInv /\ HostInv
  BY DEF IInv
<1>. DEFINE x == m.pkt.name
            recs == Append(pit[n][x], InRecord(n, m))
            picked == Head(recs)
            result == FilterOutgoingInterest(n, picked.from, picked.pkt, cache[n])
<1>1. /\ interests' = (interests \ {m}) \cup
                        (IF result.sent THEN {Packet(n, Up[n], result.pkt)} ELSE {})
      /\ pit' = [pit EXCEPT ![n][x] = recs]
      /\ out' = [out EXCEPT ![n] = IF result.sent THEN @ \cup {x} ELSE @ \ {x}]
      /\ cache' = [cache EXCEPT ![n] = result.cache]
      /\ UNCHANGED <<datas, cs, hosts, crashed>>
  BY DEF ForwardInterest
<1>2. x \in Name /\ InRecord(n, m) \in Record(x) /\ pit[n][x] \in Seq(Record(x))
  BY <1>0, InFlight, RecordMade DEF NetworkInv
<1>3. recs \in Seq(Record(x)) /\ recs # <<>>
  BY <1>2
<1>. HIDE DEF recs, x
<1>4. picked \in Record(x)
  BY <1>3
<1>5. picked.pkt \in HonestInterest /\ cache[n] \in HonestCaches
  BY <1>0, <1>4 DEF Record, AnyRecord, NetworkInv
<1>6. result.pkt \in HonestInterest /\ result.cache \in HonestCaches
  BY <1>5, FilterInterestHonest
<1>. HIDE DEF result
<1>7. Packet(n, Up[n], result.pkt) \in SentInterest
  BY <1>6, NotConsumers DEF Packet, SentInterest, Hop
<1>8. interests' \subseteq SentInterest
  BY <1>0, <1>1, <1>7 DEF NetworkInv
<1>9. /\ pit' \in [Router -> [Name -> Seq(AnyRecord)]]
      /\ \A l \in Router, y \in Name : pit'[l][y] \in Seq(Record(y))
  BY <1>0, <1>1, <1>2, <1>3, EntryReplaced
<1>10. out' \in [Router -> SUBSET Name] /\ cache' \in [Router -> HonestCaches]
  BY <1>0, <1>1, <1>2, <1>6 DEF NetworkInv
<1>11. NetworkInv'
  BY <1>0, <1>1, <1>8, <1>9, <1>10 DEF NetworkInv
<1>. QED  BY <1>0, <1>1, <1>11, HostsUnchanged DEF IInv

LEMMA ReceiveDataPreserves ==
  ASSUME IInv, NEW n \in Router, NEW m \in datas, ReceiveData(n, m)
  PROVE  IInv'
<1>0. NetworkInv /\ HostInv
  BY DEF IInv
<1>. DEFINE d == m.pkt
            recs == pit[n][d.name]
<1>1. /\ \E S \in Stored(cs[n], d) : cs' = [cs EXCEPT ![n] = S]
      /\ pit' = [pit EXCEPT ![n][d.name] = <<>>]
      /\ out' = [out EXCEPT ![n] = @ \ {d.name}]
      /\ \E k \in 1..(Len(recs) + 1) : Serve(n, recs, k, d, datas \ {m})
      /\ UNCHANGED <<interests, hosts>>
  BY DEF ReceiveData
<1>2. d \in RightfulData /\ d.name \in Name /\ recs \in Seq(Record(d.name))
  BY <1>0, InFlight DEF NetworkInv
<1>3. cs' \in [Router \cup {Provider} -> SUBSET RightfulData]
  BY <1>0, <1>1, <1>2, StoreExtended
<1>4. datas \ {m} \in SUBSET SentData
  BY <1>0 DEF NetworkInv
<1>5. <<>> \in Seq(Record(d.name))
  OBVIOUS
<1>. HIDE DEF recs, d
<1>6. /\ pit' \in [Router -> [Name -> Seq(AnyRecord)]]
      /\ \A l \in Router, y \in Name : pit'[l][y] \in Seq(Record(y))
  BY <1>0, <1>1, <1>2, <1>5, EntryReplaced
<1>7. /\ datas' \subseteq SentData
      /\ cache' \in [Router -> HonestCaches]
      /\ crashed' \in BOOLEAN
  BY <1>0, <1>1, <1>2, <1>4, ServePreserves
<1>8. out' \in [Router -> SUBSET Name]
  BY <1>0, <1>1 DEF NetworkInv
<1>9. NetworkInv'
  BY <1>0, <1>1, <1>3, <1>6, <1>7, <1>8 DEF NetworkInv
<1>. QED  BY <1>0, <1>1, <1>9, HostsUnchanged DEF IInv

LEMMA IgnoreDataPreserves ==
  ASSUME IInv, NEW n \in Router, NEW m \in datas, IgnoreData(n, m)
  PROVE  IInv'
<1>0. NetworkInv /\ HostInv
  BY DEF IInv
<1>1. /\ datas' = datas \ {m}
      /\ \E S \in Stored(cs[n], m.pkt) \cup {cs[n]} : cs' = [cs EXCEPT ![n] = S]
      /\ UNCHANGED <<interests, pit, out, cache, hosts, crashed>>
  BY DEF IgnoreData
<1>2. m.pkt \in RightfulData
  BY <1>0, InFlight
<1>3. cs' \in [Router \cup {Provider} -> SUBSET RightfulData]
  BY <1>0, <1>1, <1>2, StoreExtended
<1>4. NetworkInv'
  BY <1>0, <1>1, <1>3 DEF NetworkInv
<1>. QED  BY <1>0, <1>1, <1>4, HostsUnchanged DEF IInv

LEMMA ErasePreserves ==
  ASSUME IInv, NEW n \in Router, NEW x \in Name, Erase(n, x)
  PROVE  IInv'
<1>0. NetworkInv /\ HostInv
  BY DEF IInv
<1>1. /\ pit' = [pit EXCEPT ![n][x] = <<>>]
      /\ out' = [out EXCEPT ![n] = @ \ {x}]
      /\ UNCHANGED <<interests, datas, cs, cache, hosts, crashed>>
  BY DEF Erase
<1>2. <<>> \in Seq(Record(x))
  OBVIOUS
<1>3. /\ pit' \in [Router -> [Name -> Seq(AnyRecord)]]
      /\ \A l \in Router, y \in Name : pit'[l][y] \in Seq(Record(y))
  BY <1>0, <1>1, <1>2, EntryReplaced
<1>4. out' \in [Router -> SUBSET Name]
  BY <1>0, <1>1 DEF NetworkInv
<1>5. NetworkInv'
  BY <1>0, <1>1, <1>3, <1>4 DEF NetworkInv
<1>. QED  BY <1>0, <1>1, <1>5, HostsUnchanged DEF IInv

\* Actions of the producer's node: it sends to no consumer.
LEMMA ProviderSends ==
  ASSUME NetworkInv, NEW m \in interests, m.to = Provider, NEW d \in RightfulData,
         SendFromProvider(m, d)
  PROVE  interests' \subseteq SentInterest /\ datas' \subseteq SentData
<1>1. m.from \in Id /\ m.from \notin Consumer
  BY InFlight, NotConsumers DEF SentInterest
<1>2. Provider \in Id /\ Provider \notin Consumer
  BY NotConsumers
<1>3. Stamped(Decoded(d), Provider) \in RightfulData
  BY <1>2, DecodedRightful, StampedRightful
<1>4. Packet(Provider, m.from, Stamped(Decoded(d), Provider)) \in SentData
  BY <1>1, <1>2, <1>3 DEF Packet, SentData, Hop
<1>. QED  BY <1>4 DEF SendFromProvider, NetworkInv

LEMMA ProviderStorePreserves ==
  ASSUME IInv, NEW m \in interests, AnswerFromProviderStore(m)
  PROVE  IInv'
<1>0. NetworkInv /\ HostInv
  BY DEF IInv
<1>1. PICK d \in Matches(Provider, m.pkt.name) : SendFromProvider(m, d)
  BY DEF AnswerFromProviderStore
<1>2. m.to = Provider /\ UNCHANGED <<pit, out, cs, cache, hosts, crashed>>
  BY DEF AnswerFromProviderStore
<1>3. d \in RightfulData
  BY <1>0, InFlight DEF Matches
<1>4. interests' \subseteq SentInterest /\ datas' \subseteq SentData
  BY <1>0, <1>1, <1>2, <1>3, ProviderSends
<1>5. NetworkInv'
  BY <1>0, <1>2, <1>4 DEF NetworkInv
<1>. QED  BY <1>0, <1>2, <1>5, HostsUnchanged DEF IInv

LEMMA ProducePreserves ==
  ASSUME IInv, NEW m \in interests, Produce(m)
  PROVE  IInv'
<1>0. NetworkInv /\ HostInv
  BY DEF IInv
<1>. DEFINE d == Reply(Arrived(Provider, m))
<1>1. /\ m.to = Provider
      /\ SendFromProvider(m, d)
      /\ \E S \in Stored(cs[Provider], d) : cs' = [cs EXCEPT ![Provider] = S]
      /\ UNCHANGED <<pit, out, cache, hosts, crashed>>
  BY DEF Produce
<1>2. d \in RightfulData
  BY <1>0, InFlight, NotConsumers, HonestArrival, ReplyRightful
<1>. HIDE DEF d
<1>3. interests' \subseteq SentInterest /\ datas' \subseteq SentData
  BY <1>0, <1>1, <1>2, ProviderSends
<1>4. cs' \in [Router \cup {Provider} -> SUBSET RightfulData]
  BY <1>0, <1>1, <1>2, StoreExtended
<1>5. NetworkInv'
  BY <1>0, <1>1, <1>3, <1>4 DEF NetworkInv
<1>. QED  BY <1>0, <1>1, <1>5, HostsUnchanged DEF IInv

\* Actions that only drop a packet or end the simulation.
LEMMA DropPreserves ==
  ASSUME IInv, interests' \subseteq interests, datas' \subseteq datas,
         crashed' \in BOOLEAN, UNCHANGED <<pit, out, cs, cache, hosts>>
  PROVE  IInv'
<1>1. NetworkInv'
  BY DEF IInv, NetworkInv
<1>. QED  BY <1>1, HostsUnchanged DEF IInv

LEMMA InvNext == IInv /\ [Next]_vars => IInv'
<1>. SUFFICES ASSUME IInv, [Next]_vars PROVE IInv'
  OBVIOUS
<1>0. crashed \in BOOLEAN
  BY DEF IInv, NetworkInv
<1>1. ASSUME NEW c \in Consumer, NEW x \in Name, Request(c, x) PROVE IInv'
  BY <1>1, RequestPreserves
<1>2. ASSUME NEW c \in Consumer, Retransmit(c) PROVE IInv'
  BY <1>2, RetransmitPreserves
<1>3. ASSUME NEW c \in Consumer, NEW m \in datas, ReceiveAnswer(c, m) PROVE IInv'
  BY <1>3, ReceiveAnswerPreserves
<1>4. ASSUME NEW n \in Router, NEW m \in interests, LoopInterest(n, m) PROVE IInv'
  BY <1>0, <1>4, DropPreserves DEF LoopInterest
<1>5. ASSUME NEW n \in Router, NEW m \in interests, AnswerFromStore(n, m) PROVE IInv'
  BY <1>5, AnswerFromStorePreserves
<1>6. ASSUME NEW n \in Router, NEW m \in interests, AggregateInterest(n, m) PROVE IInv'
  BY <1>6, AggregatePreserves
<1>7. ASSUME NEW n \in Router, NEW m \in interests, ForwardInterest(n, m) PROVE IInv'
  BY <1>7, ForwardPreserves
<1>8. ASSUME NEW n \in Router, NEW m \in datas, ReceiveData(n, m) PROVE IInv'
  BY <1>8, ReceiveDataPreserves
<1>9. ASSUME NEW n \in Router, NEW m \in datas, IgnoreData(n, m) PROVE IInv'
  BY <1>9, IgnoreDataPreserves
<1>10. ASSUME NEW n \in Router, NEW x \in Name, Erase(n, x) PROVE IInv'
  BY <1>10, ErasePreserves
<1>11. ASSUME NEW m \in interests, AnswerFromProviderStore(m) PROVE IInv'
  BY <1>11, ProviderStorePreserves
<1>12. ASSUME NEW m \in interests, Produce(m) PROVE IInv'
  BY <1>12, ProducePreserves
<1>13. ASSUME NEW m \in interests, ProducerFault(m) PROVE IInv'
  BY <1>13, DropPreserves DEF ProducerFault
<1>14. CASE Lose
  BY <1>0, <1>14, DropPreserves DEF Lose
<1>15. CASE UNCHANGED vars
  BY <1>0, <1>15, DropPreserves DEF vars, hosts
<1>. QED
  BY <1>1, <1>2, <1>3, <1>4, <1>5, <1>6, <1>7, <1>8, <1>9, <1>10, <1>11, <1>12,
     <1>13, <1>14, <1>15 DEF Next

LEMMA Invariance == Spec => []IInv
BY InvInit, InvNext, PTL DEF Spec

-----------------------------------------------------------------------------
\* Every variable of the network keeps its type.
THEOREM TypeCorrect == Spec => []TypeOK
<1>1. ASSUME IInv PROVE TypeOK
  <2>1. HonestInterest \subseteq Interest /\ RightfulData \subseteq Data
    BY DEF HonestInterest, RightfulData
  <2>2. Seq(AnyRecord) \subseteq Seq([from : Id, pkt : Interest])
    <3>1. AnyRecord \subseteq [from : Id, pkt : Interest]
      BY <2>1 DEF AnyRecord
    <3>. QED  BY <3>1, SeqMonotone
  <2>3. interests \subseteq Hop(Id, Interest) /\ datas \subseteq Hop(Id, Data)
    BY <1>1, <2>1 DEF IInv, NetworkInv, SentInterest, SentData, Hop
  <2>4. pit \in [Router -> [Name -> Seq([from : Id, pkt : Interest])]]
    BY <1>1, <2>2 DEF IInv, NetworkInv
  <2>5. /\ cs \in [Router \cup {Provider} -> SUBSET Data]
        /\ cache \in [Router -> [pos : Filter, neg : Filter]]
    BY <1>1, <2>1 DEF IInv, NetworkInv, HonestCaches, Caches
  <2>6. asked \in [Consumer -> SUBSET Interest]
    BY <1>1, <2>1 DEF IInv, HostInv
  <2>. QED  BY <1>1, <2>3, <2>4, <2>5, <2>6 DEF IInv, NetworkInv, HostInv, TypeOK
<1>. QED  BY <1>1, Invariance, PTL

\* Unless retransmissions alter the Interests pending, content reaches only
\* the consumers whose tags bear the producer's key locator and signature, in
\* every topology and whatever faults, losses and evictions occur.
THEOREM AccessControl ==
  "reused-interest" \notin Defects => (Spec => []OnlyAuthorisedReceive)
<1>. SUFFICES ASSUME Fresh PROVE Spec => []OnlyAuthorisedReceive
  BY DEF Fresh
<1>1. IInv => OnlyAuthorisedReceive
  <2>. SUFFICES ASSUME IInv, NEW m \in datas, m.to \in Consumer,
                       m.pkt.name \in Content, m.pkt.kind = "Blob"
                PROVE  Authorised(m.to)
    BY DEF OnlyAuthorisedReceive
  <2>1. /\ m.pkt \in RightfulData /\ m.pkt.trk # NoTracker
        /\ Traced(m.pkt.trk, m.to)
    BY DEF IInv, NetworkInv, SentData, Hop
  <2>. QED  BY <2>1 DEF RightfulData, Rightful
<1>. QED  BY <1>1, Invariance, PTL

\* Unless retransmissions alter the Interests pending, no edge ever holds bits
\* in its positive cache that are not those of tags with a good signature.
THEOREM VerifiedTagsCached ==
  "reused-interest" \notin Defects => (Spec => []OnlyVerifiedAreCached)
<1>. SUFFICES ASSUME Fresh PROVE Spec => []OnlyVerifiedAreCached
  BY DEF Fresh
<1>1. IInv => OnlyVerifiedAreCached
  BY DEF IInv, NetworkInv, HonestCaches, OnlyVerifiedAreCached
<1>. QED  BY <1>1, Invariance, PTL
=============================================================================
