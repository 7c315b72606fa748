------------------------- MODULE AuthRequestProofs --------------------------
(***************************************************************************)
(* A consumer of AccessNetwork that awaits a tag has the request for it    *)
(* pending.  It stops waiting when a Data of type Auth comes, while Data   *)
(* of any type settles the request, so what has to be shown is that no     *)
(* router on the way makes the answer to such a request a Blob.            *)
(*                                                                         *)
(* The argument: requests for the tag of one consumer all go the same way, *)
(* the chain of next hops from that consumer, which does not close because *)
(* routes are acyclic.  So the hashes of a request at a node are those of  *)
(* the part of the chain below it (Span), for each request and for each    *)
(* answer alike, and each router finds the routes of an answer and of the  *)
(* records it is for to be the same, and preserves it.                     *)
(***************************************************************************)
EXTENDS AccessRoutesProofs

OnWay(c, n) == n \in Router /\ n \in Above(Up[c])

\* The routers beyond the edge of consumer c up to router n.
Span(c, n) == {k \in Above(Up[Up[c]]) : n \in Above(k)}

AuthTracker(c, n, trk) == OnWay(c, n) /\ trk.internet = Span(c, n) /\ trk.exit = {}

\* A request for a tag that a router has sent, and one in its PIT.
AuthUp(m) ==
  m.pkt.name \in Consumer /\ m.from \in Router =>
    AuthTracker(m.pkt.name, m.from, m.pkt.trk)

AuthRecord(n, rec) ==
  rec.pkt.name \in Consumer =>
    /\ AuthTracker(rec.pkt.name, n, rec.pkt.trk)
    /\ rec.from \in Router => OnWay(rec.pkt.name, rec.from)

AuthRecords(n) == {rec \in AnyRecord : AuthRecord(n, rec)}

\* The answer to such a request, stored at n or on its way to n.
AuthData(n, d) ==
  d.name \in Consumer =>
    /\ d.kind = "Auth" /\ ~d.nrc /\ d.trk # NoTracker
    /\ n \in Router => d.trk.entry = Home(d.name) /\ AuthTracker(d.name, n, d.trk)
    /\ n = Provider =>
         /\ d.trk.entry = Home(d.name) /\ d.trk.exit = {Provider}
         /\ \A l \in Router : Up[l] = Provider /\ OnWay(d.name, l) =>
              d.trk.internet = Span(d.name, l)

AuthInv ==
  /\ \A m \in interests : AuthUp(m)
  /\ \A m \in datas : AuthData(m.to, m.pkt)
  /\ \A n \in Router, x \in Name : pit[n][x] \in Seq(AuthRecords(n))
  /\ \A n \in Router \cup {Provider} : \A d \in cs[n] : AuthData(n, d)

-----------------------------------------------------------------------------
\* The order of the nodes on the way to the producer.
Closed(S) == \A l \in S \ {Provider} : Up[l] \in S

LEMMA AboveLeast ==
  ASSUME NEW n, NEW S \in SUBSET Id, n \in S, Closed(S)
  PROVE  Above(n) \subseteq S
BY DEF Above, Closed

LEMMA AboveNext ==
  ASSUME NEW n, NEW k \in Above(n), k # Provider
  PROVE  Up[k] \in Above(n)
<1>1. k \in Host /\ Up[k] \in Id
  BY Links DEF Above, Id, Host
<1>2. ASSUME NEW S \in SUBSET Id, n \in S, \A l \in S \ {Provider} : Up[l] \in S
      PROVE  Up[k] \in S
  <2>1. k \in S
    BY <1>2 DEF Above
  <2>. QED  BY <1>2, <2>1
<1>. QED  BY <1>1, <1>2 DEF Above

LEMMA AboveSelf ==
  ASSUME NEW n \in Id
  PROVE  n \in Above(n) /\ Above(n) \in SUBSET Id /\ Closed(Above(n))
<1>1. Closed(Above(n))
  BY AboveNext DEF Closed
<1>. QED  BY <1>1 DEF Above

LEMMA AboveTrans ==
  ASSUME NEW n, NEW k \in Above(n)
  PROVE  Above(k) \subseteq Above(n)
<1>1. Above(n) \in SUBSET Id
  BY DEF Above
<1>2. Closed(Above(n))
  BY AboveNext DEF Closed
<1>. QED  BY <1>1, <1>2, AboveLeast

LEMMA AboveStep ==
  ASSUME NEW n \in Host, NEW k \in Above(n)
  PROVE  k = n \/ k \in Above(Up[n])
<1>1. n \in Id /\ Up[n] \in Id
  BY Links
<1>2. {n} \cup Above(Up[n]) \in SUBSET Id
  BY <1>1, AboveSelf
<1>3. Closed({n} \cup Above(Up[n]))
  BY <1>1, AboveSelf DEF Closed
<1>4. Above(n) \subseteq {n} \cup Above(Up[n])
  BY <1>2, <1>3, AboveLeast
<1>. QED  BY <1>4

LEMMA AboveTop == Above(Provider) \subseteq {Provider}
<1>1. {Provider} \in SUBSET Id /\ Closed({Provider})
  BY DEF Id, Closed
<1>. QED  BY <1>1, AboveLeast

LEMMA AboveRouters ==
  ASSUME NEW n \in Router \cup {Provider}
  PROVE  Above(n) \subseteq Router \cup {Provider}
<1>1. Router \cup {Provider} \in SUBSET Id /\ Closed(Router \cup {Provider})
  BY Links DEF Id, Closed, Host
<1>. QED  BY <1>1, AboveLeast

LEMMA AboveOrdered ==
  ASSUME NEW n \in Id, NEW a \in Above(n), NEW b \in Above(n)
  PROVE  a \in Above(b) \/ b \in Above(a)
<1>. DEFINE S == {k \in Above(n) : a \in Above(k) \/ k \in Above(a)}
<1>1. S \in SUBSET Id
  BY AboveSelf
<1>2. n \in S
  BY AboveSelf
<1>3. ASSUME NEW l \in S, l # Provider PROVE Up[l] \in S
  <2>1. l \in Above(n) /\ Up[l] \in Above(n)
    BY <1>3, AboveNext
  <2>2. l \in Host /\ Up[l] \in Id /\ a \in Id
    BY <1>3, <2>1, AboveSelf DEF Id, Host
  <2>3. CASE l \in Above(a)
    BY <1>3, <2>1, <2>3, AboveNext
  <2>4. CASE a \in Above(l)
    <3>1. CASE a = l
      <4>1. l \in Above(a)
        BY <2>2, <3>1, AboveSelf
      <4>. QED  BY <1>3, <2>1, <4>1, AboveNext
    <3>2. CASE a \in Above(Up[l])
      BY <2>1, <3>2
    <3>. QED  BY <2>2, <2>4, <3>1, <3>2, AboveStep
  <2>. QED  BY <1>3, <2>3, <2>4
<1>4. Closed(S)
  BY <1>3 DEF Closed
<1>. HIDE DEF S
<1>5. b \in S
  BY <1>1, <1>2, <1>4, AboveLeast
<1>. QED  BY <1>5 DEF S

LEMMA NotAboveNext ==
  ASSUME NEW n \in Host
  PROVE  n \notin Above(Up[n])
<1>1. CASE n \in Router
  BY <1>1, AcyclicAssumption
<1>2. CASE n \in Consumer
  <2>1. Up[n] \in Router \cup {Provider} /\ n \notin Router \cup {Provider}
    BY <1>2, Links, NodesAssumption
  <2>. QED  BY <2>1, AboveRouters
<1>. QED  BY <1>1, <1>2 DEF Host

LEMMA AboveAntisymmetric ==
  ASSUME NEW a \in Id, NEW b \in Id, a \in Above(b), b \in Above(a)
  PROVE  a = b
<1>. SUFFICES ASSUME a # b PROVE FALSE
  OBVIOUS
<1>1. b # Provider
  BY AboveTop
<1>2. b \in Host
  BY <1>1 DEF Id, Host
<1>3. a \in Above(Up[b])
  BY <1>2, AboveStep
<1>4. b \in Above(Up[b])
  BY <1>3, AboveTrans
<1>. QED  BY <1>2, <1>4, NotAboveNext

-----------------------------------------------------------------------------
\* The way of a consumer's requests.
LEMMA FirstHops ==
  ASSUME NEW c \in Consumer
  PROVE  /\ Up[c] \in Router /\ Up[c] \in Host /\ Up[c] \in Id
         /\ Up[Up[c]] \in Router /\ Up[Up[c]] \in Host /\ Up[Up[c]] \in Id
         /\ OnWay(c, Up[c])
<1>1. /\ Up[c] \in Router /\ Up[c] \in Host /\ Up[c] \in Id
      /\ Up[Up[c]] \in Router /\ Up[Up[c]] \in Host /\ Up[Up[c]] \in Id
  BY Links, TopologyAssumption DEF Host
<1>. QED  BY <1>1, AboveSelf DEF OnWay

LEMMA SpanFirst ==
  ASSUME NEW c \in Consumer
  PROVE  Span(c, Up[c]) = {}
<1>1. ASSUME NEW k \in Span(c, Up[c]) PROVE FALSE
  <2>1. k \in Above(Up[Up[c]]) /\ Up[c] \in Above(k)
    BY DEF Span
  <2>2. Up[c] \in Above(Up[Up[c]])
    BY <2>1, AboveTrans
  <2>. QED  BY <2>2, FirstHops, NotAboveNext
<1>. QED  BY <1>1

LEMMA SpanNext ==
  ASSUME NEW c \in Consumer, NEW n, OnWay(c, n), Up[n] \in Router
  PROVE  /\ OnWay(c, Up[n])
         /\ Flip(Span(c, n), Up[n]) = Span(c, Up[n])
         /\ Flip(Span(c, Up[n]), Up[n]) = Span(c, n)
<1>1. /\ n \in Router /\ n \in Host /\ n \in Id /\ n # Provider /\ n \in Above(Up[c])
      /\ Up[n] \in Id /\ Up[n] # Provider
  BY Links, NodesAssumption DEF OnWay, Host, Id
<1>2. OnWay(c, Up[n])
  BY <1>1, AboveNext DEF OnWay
<1>3. Up[n] \in Above(Up[Up[c]])
  <2>1. CASE n = Up[c]
    BY <1>1, <2>1, AboveSelf
  <2>2. CASE n \in Above(Up[Up[c]])
    BY <1>1, <2>2, AboveNext
  <2>. QED  BY <1>1, <2>1, <2>2, FirstHops, AboveStep
<1>4. Up[n] \notin Span(c, n)
  BY <1>1, NotAboveNext DEF Span
<1>5. ASSUME NEW k \in Span(c, n) PROVE k \in Span(c, Up[n])
  BY <1>1, <1>5, AboveNext DEF Span
<1>6. Up[n] \in Span(c, Up[n])
  BY <1>1, <1>3, AboveSelf DEF Span
<1>7. ASSUME NEW k \in Span(c, Up[n]), k # Up[n] PROVE k \in Span(c, n)
  <2>1. k \in Above(Up[Up[c]]) /\ Up[n] \in Above(k)
    BY DEF Span
  <2>2. k \in Above(Up[c]) /\ k \in Id
    <3>1. Up[Up[c]] \in Above(Up[c])
      BY FirstHops, AboveNext, NodesAssumption DEF OnWay
    <3>. QED  BY <2>1, <3>1, AboveTrans, FirstHops, AboveSelf
  <2>3. n \in Above(k) \/ k \in Above(n)
    BY <1>1, <2>2, FirstHops, AboveOrdered
  <2>4. ASSUME k \in Above(n) PROVE k = n
    <3>1. k \notin Above(Up[n])
      BY <1>1, <1>7, <2>1, <2>2, AboveAntisymmetric
    <3>. QED  BY <1>1, <2>4, <3>1, AboveStep
  <2>5. n \in Above(k)
    BY <1>1, <2>3, <2>4, AboveSelf
  <2>. QED  BY <2>1, <2>5 DEF Span
<1>8. Span(c, Up[n]) = Span(c, n) \cup {Up[n]}
  BY <1>5, <1>6, <1>7
<1>. QED  BY <1>2, <1>4, <1>8 DEF Flip

\* One router on the way hands the requests to the producer.
LEMMA LastHop ==
  ASSUME NEW c \in Consumer, NEW a, NEW b, OnWay(c, a), OnWay(c, b),
         Up[a] = Provider, Up[b] = Provider
  PROVE  a = b
<1>1. /\ a \in Host /\ a # Provider /\ a \in Above(Up[c])
      /\ b \in Host /\ b # Provider /\ b \in Above(Up[c])
  BY NodesAssumption DEF OnWay, Host
<1>2. a \in Above(b) \/ b \in Above(a)
  BY <1>1, FirstHops, AboveOrdered
<1>. QED  BY <1>1, <1>2, AboveStep, AboveTop

-----------------------------------------------------------------------------
\* What stamping does to the hashes beyond the entry network.
LEMMA UpdateBeyond ==
  ASSUME NEW trk \in Tracker(Id), NEW n \in Id
  PROVE  /\ trk.net = "INTERNET" =>
              /\ Update(trk, n).internet = Flip(trk.internet, n)
              /\ Update(trk, n).exit = trk.exit
         /\ trk.net = "EXIT" =>
              /\ Update(trk, n).internet = trk.internet
              /\ Update(trk, n).exit = Flip(trk.exit, n)
BY DEF Update, Tracker, Network

\* A request for a tag as the node it reaches sees it.
LEMMA ArrivedAuth ==
  ASSUME Fresh, NEW m \in UpInterest, AuthUp(m), m.pkt.name \in Consumer
  PROVE  LET i == Arrived(m.to, m)
             c == m.pkt.name
         IN  /\ m.to \in Router => AuthTracker(c, m.to, i.trk)
             /\ m.to = Provider =>
                  /\ i.trk.exit = {Provider} /\ m.from \in Router
                  /\ i.trk.internet = Span(c, m.from) /\ OnWay(c, m.from)
<1>. DEFINE i == Arrived(m.to, m)
            c == m.pkt.name
<1>1. /\ m \in SentInterest /\ m.from \in Host /\ m.to = Up[m.from] /\ m.to \in Id
      /\ m.pkt.trk.net = UpNet(m.from) /\ m.pkt.owner = c
      /\ m.from \in Consumer => m.from = c
      /\ m.pkt \in Interest /\ m.pkt.trk \in Tracker(Id)
  BY Links DEF UpInterest, SentInterest, Hop, HonestInterest, Interest, Fitting
<1>2. i.trk = Update(m.pkt.trk, m.to)
  BY <1>1 DEF Arrived, Interest
<1>3. m.from \in Consumer => i.trk.internet = {} /\ i.trk.exit = {}
  BY ArrivedRouted
<1>. HIDE DEF i
<1>4. CASE m.from \in Consumer
  <2>1. m.to = Up[c] /\ m.to \in Router /\ m.to # Provider
    BY <1>1, <1>4, FirstHops, NodesAssumption
  <2>2. AuthTracker(c, m.to, i.trk)
    BY <1>1, <1>3, <1>4, <2>1, FirstHops, SpanFirst DEF AuthTracker
  <2>. QED  BY <2>1, <2>2 DEF i
<1>5. CASE m.from \in Router
  <2>1. /\ OnWay(c, m.from) /\ m.pkt.trk.internet = Span(c, m.from)
        /\ m.pkt.trk.exit = {}
    BY <1>5 DEF AuthUp, AuthTracker
  <2>2. CASE m.to \in Router
    <3>1. m.pkt.trk.net = "INTERNET" /\ m.to # Provider
      BY <1>1, <1>5, <2>2, Networks, NodesAssumption
    <3>2. i.trk.internet = Flip(Span(c, m.from), m.to) /\ i.trk.exit = {}
      BY <1>1, <1>2, <2>1, <3>1, UpdateBeyond
    <3>3. AuthTracker(c, m.to, i.trk)
      BY <1>1, <2>1, <2>2, <3>2, SpanNext DEF AuthTracker
    <3>. QED  BY <3>1, <3>3 DEF i
  <2>3. CASE m.to = Provider
    <3>1. m.pkt.trk.net = "EXIT" /\ m.to \notin Router
      BY <1>1, <1>5, <2>3, Networks, NodesAssumption
    <3>2. i.trk.internet = Span(c, m.from) /\ i.trk.exit = Flip({}, Provider)
      BY <1>1, <1>2, <2>1, <2>3, <3>1, UpdateBeyond
    <3>3. Flip({}, Provider) = {Provider}
      BY DEF Flip
    <3>. QED  BY <1>5, <2>1, <3>1, <3>2, <3>3 DEF i
  <2>. QED  BY <1>1, <2>2, <2>3, Links
<1>. QED  BY <1>1, <1>4, <1>5 DEF Host

LEMMA RecordAuth ==
  ASSUME Fresh, NEW n \in Router, NEW m \in UpInterest, m.to = n, AuthUp(m)
  PROVE  InRecord(n, m) \in AuthRecords(n)
<1>. DEFINE rec == InRecord(n, m)
<1>1. rec.from = m.from /\ rec.pkt = Arrived(m.to, m) /\ rec.pkt.name = m.pkt.name
  BY ArrivedRouted DEF InRecord
<1>2. rec \in AnyRecord
  BY RecordRouted DEF RecordOf, Record
<1>. HIDE DEF rec
<1>3. ASSUME m.pkt.name \in Consumer
      PROVE  AuthTracker(m.pkt.name, n, rec.pkt.trk)
    BY <1>1, <1>3, ArrivedAuth
<1>4. AuthRecord(n, rec)
  BY <1>1, <1>3 DEF AuthRecord, AuthUp, AuthTracker
<1>. QED  BY <1>2, <1>4 DEF AuthRecords, rec

\* The strategy changes no more of a tracker than its network.
LEMMA FilterKeeps ==
  ASSUME NEW n, NEW from, NEW i \in Interest, NEW c
  PROVE  LET j == FilterOutgoingInterest(n, from, i, c).pkt
         IN  /\ j.name = i.name
             /\ j.trk.internet = i.trk.internet /\ j.trk.exit = i.trk.exit
<1>. DEFINE j == FilterOutgoingInterest(n, from, i, c).pkt
            at(net) == [i EXCEPT !.trk = SetCurrentNetwork(@, net)]
<1>1. ASSUME NEW net
      PROVE  /\ at(net).name = i.name
             /\ at(net).trk.internet = i.trk.internet /\ at(net).trk.exit = i.trk.exit
             /\ \A b : /\ [at(net) EXCEPT !.vouched = b].name = at(net).name
                       /\ [at(net) EXCEPT !.vouched = b].trk = at(net).trk
  <2>1. at(net).name = i.name /\ at(net).trk = SetCurrentNetwork(i.trk, net)
    BY DEF Interest
  <2>2. i.trk \in Tracker(Id)
    BY DEF Interest
  <2>3. /\ SetCurrentNetwork(i.trk, net).internet = i.trk.internet
        /\ SetCurrentNetwork(i.trk, net).exit = i.trk.exit
    BY <2>2 DEF SetCurrentNetwork, Tracker
  <2>4. \A b : /\ [at(net) EXCEPT !.vouched = b].name = at(net).name
               /\ [at(net) EXCEPT !.vouched = b].trk = at(net).trk
    BY DEF Interest
  <2>. QED  BY <2>1, <2>3, <2>4
<1>2. \/ j = i
      \/ j = at("EXIT")
      \/ j = EnterNetwork(at("INTERNET"), c).pkt
  BY DEF FilterOutgoingInterest
<1>3. \E b : EnterNetwork(at("INTERNET"), c).pkt
               \in {at("INTERNET"), [at("INTERNET") EXCEPT !.vouched = b]}
  BY DEF EnterNetwork
<1>. HIDE DEF j, at
<1>4. ASSUME j = EnterNetwork(at("INTERNET"), c).pkt
      PROVE  j.name = at("INTERNET").name /\ j.trk = at("INTERNET").trk
  <2>1. PICK b : j \in {at("INTERNET"), [at("INTERNET") EXCEPT !.vouched = b]}
    BY <1>3, <1>4
  <2>. QED  BY <1>1, <2>1
<1>5. /\ j.name = i.name
      /\ j.trk.internet = i.trk.internet /\ j.trk.exit = i.trk.exit
  BY <1>1, <1>2, <1>4
<1>. QED  BY <1>5 DEF j

LEMMA FilterAuth ==
  ASSUME NEW n \in Router, NEW x, NEW rec \in RecordOf(n, x), AuthRecord(n, rec), NEW c
  PROVE  AuthUp(Packet(n, Up[n], FilterOutgoingInterest(n, rec.from, rec.pkt, c).pkt))
<1>. DEFINE j == FilterOutgoingInterest(n, rec.from, rec.pkt, c).pkt
            m == Packet(n, Up[n], j)
<1>1. rec.pkt \in Interest
  BY RecordFacts
<1>2. /\ j.name = rec.pkt.name
      /\ j.trk.internet = rec.pkt.trk.internet /\ j.trk.exit = rec.pkt.trk.exit
  BY <1>1, FilterKeeps
<1>. HIDE DEF j
<1>3. m.from = n /\ m.pkt = j
  BY DEF Packet
<1>. HIDE DEF m
<1>4. AuthUp(m)
  BY <1>2, <1>3 DEF AuthRecord, AuthTracker, AuthUp
<1>. QED  BY <1>4 DEF m, j

\* A router preserves the answer to such a request.
LEMMA JudgedAuth ==
  ASSUME Fresh, NEW n \in Router, NEW d \in DataAt(n), AuthData(n, d), d.name \in Consumer,
         NEW rec \in RecordOf(n, d.name), AuthRecord(n, rec)
  PROVE  LET e == Judged(n, rec.from, rec.pkt, d)
         IN  e.kind = "Auth" /\ ~e.nrc
<1>. DEFINE e == Judged(n, rec.from, rec.pkt, d)
            net == IF EdgeFace(n, rec.from) THEN "ENTRY" ELSE "INTERNET"
<1>1. rec.pkt.name = d.name /\ rec.pkt.owner = d.name
      /\ rec.pkt.trk.entry = Home(rec.pkt.owner)
  BY RecordFacts DEF Fitting
<1>2. Preserved(rec.pkt, d)
  BY <1>1 DEF Preserved, SameRoutes, AuthRecord, AuthData, AuthTracker
<1>3. e \in {d, [d EXCEPT !.trk = SetCurrentNetwork(@, net)]}
  BY <1>2 DEF Judged
<1>4. d \in Data
  BY DEF DataAt, RightfulData
<1>5. e.kind = d.kind /\ e.nrc = d.nrc
  BY <1>3, <1>4 DEF Data
<1>. HIDE DEF e
<1>6. e.kind = "Auth" /\ ~e.nrc
  BY <1>5 DEF AuthData
<1>. QED  BY <1>6 DEF e

LEMMA AnswerAuth ==
  ASSUME Fresh, NEW n \in Router, NEW d \in DataAt(n), AuthData(n, d), d.trk # NoTracker,
         NEW rec \in RecordOf(n, d.name), AuthRecord(n, rec)
  PROVE  AuthData(rec.from, Stamped(Judged(n, rec.from, rec.pkt, d), n))
<1>. DEFINE from == rec.from
            i == rec.pkt
            e == Judged(n, from, i, d)
            s == Stamped(e, n)
<1>1. /\ from \in Host /\ Up[from] = n
      /\ i.name = d.name /\ i.trk.entry = Home(i.owner)
      /\ d.name \in Consumer => i.owner = d.name
  BY RecordFacts DEF Fitting
<1>2. /\ e \in RightfulData /\ e.name = d.name
      /\ e.trk \in Tracker(Id) /\ e.trk.net = UpNet(from)
      /\ e.trk.entry = i.trk.entry /\ e.trk.internet = i.trk.internet
      /\ e.trk.exit = i.trk.exit
  BY JudgedRouted
<1>3. d.name \in Consumer => e.kind = "Auth" /\ ~e.nrc
  BY JudgedAuth
<1>4. n \in Id /\ n # Provider /\ e.trk # NoTracker
  BY <1>2, NodesAssumption, NoneAssumption DEF Id
<1>. HIDE DEF e
<1>5. s = [e EXCEPT !.trk = Update(@, n)]
  BY <1>4 DEF Stamped
<1>6. e \in Data
  BY <1>2 DEF RightfulData
<1>7. s.name = e.name /\ s.kind = e.kind /\ s.nrc = e.nrc /\ s.trk = Update(e.trk, n)
  BY <1>5, <1>6 DEF Data
<1>. HIDE DEF s
<1>8. s.trk # NoTracker
  BY <1>2, <1>4, <1>7, UpdateType, NoneAssumption
<1>9. ASSUME d.name \in Consumer, from \in Router
      PROVE  s.trk.entry = Home(d.name) /\ AuthTracker(d.name, from, s.trk)
  <2>1. e.trk.net = "INTERNET"
    BY <1>1, <1>2, <1>4, <1>9, Networks
  <2>2. /\ e.trk.internet = Span(d.name, n) /\ e.trk.exit = {}
        /\ OnWay(d.name, from)
    BY <1>1, <1>2, <1>9 DEF AuthRecord, AuthTracker
  <2>3. Flip(Span(d.name, n), n) = Span(d.name, from)
    BY <1>1, <1>9, <2>2, SpanNext
  <2>4. s.trk.entry = e.trk.entry
    BY <1>2, <1>4, <1>7, <2>1, UpdateFields
  <2>5. s.trk.internet = Flip(e.trk.internet, n) /\ s.trk.exit = e.trk.exit
    BY <1>2, <1>4, <1>7, <2>1, UpdateBeyond
  <2>. QED  BY <1>1, <1>2, <1>9, <2>2, <2>3, <2>4, <2>5 DEF AuthTracker
<1>10. from # Provider
  BY <1>1, Links
<1>11. AuthData(from, s)
  BY <1>2, <1>3, <1>7, <1>8, <1>9, <1>10 DEF AuthData
<1>. QED  BY <1>11 DEF s, e

LEMMA ServeAuth ==
  ASSUME Fresh, NEW n \in Router, NEW d \in DataAt(n), AuthData(n, d),
         NEW recs \in Seq(RecordOf(n, d.name)), recs \in Seq(AuthRecords(n)),
         NEW k \in 1..(Len(recs) + 1), NEW left,
         \A m \in left : AuthData(m.to, m.pkt), Serve(n, recs, k, d, left)
  PROVE  \A m \in datas' : AuthData(m.to, m.pkt)
<1>. DEFINE crash(j) == Crashes(n, recs[j].from, recs[j].pkt, d)
            throws(j) == Throws(n, recs[j].from, recs[j].pkt, d)
            fails  == {j \in k..Len(recs) : crash(j) \/ throws(j)}
            served == {j \in k..Len(recs) : \A f \in fails : f < j}
            answer(j) == Stamped(Judged(n, recs[j].from, recs[j].pkt, d), n)
<1>1. datas' = left \cup {Packet(n, recs[j].from, answer(j)) : j \in served}
  BY DEF Serve
<1>2. served \in SUBSET (1..Len(recs))
  BY RecordsRouted
<1>3. ASSUME NEW j \in served PROVE d.trk # NoTracker
  <2>1. j \notin fails
    BY <1>2
  <2>2. ~throws(j)
    BY <2>1
  <2>. QED  BY <2>2 DEF Throws
<1>. HIDE DEF fails, served
<1>4. ASSUME NEW j \in served
      PROVE  LET m == Packet(n, recs[j].from, answer(j)) IN AuthData(m.to, m.pkt)
  <2>1. recs[j] \in RecordOf(n, d.name)
    BY <1>2, RecordsRouted
  <2>2. AuthRecord(n, recs[j])
    <3>1. recs[j] \in AuthRecords(n)
      BY <1>2, ElementOfSeq
    <3>. QED  BY <3>1 DEF AuthRecords
  <2>3. AuthData(recs[j].from, answer(j))
    BY <1>3, <2>1, <2>2, AnswerAuth
  <2>. HIDE DEF answer
  <2>. QED  BY <2>3 DEF Packet
<1>. QED  BY <1>1, <1>4

-----------------------------------------------------------------------------
\* What becomes of the parts of the state that an action changes.
LEMMA EntryAuth ==
  ASSUME NetworkInv, AuthInv, NEW n \in Router, NEW x \in Name,
         NEW recs \in Seq(AuthRecords(n)), pit' = [pit EXCEPT ![n][x] = recs]
  PROVE  \A l \in Router, y \in Name : pit'[l][y] \in Seq(AuthRecords(l))
<1>1. pit \in [Router -> [Name -> Seq(AnyRecord)]]
  BY DEF NetworkInv
<1>2. \A l \in Router, y \in Name : pit[l][y] \in Seq(AuthRecords(l))
  BY DEF AuthInv
<1>3. \A l \in Router, y \in Name :
        pit'[l][y] = IF l = n /\ y = x THEN recs ELSE pit[l][y]
  BY <1>1
<1>. HIDE DEF NetworkInv, AuthInv
<1>. QED  BY <1>2, <1>3

LEMMA StoreAuth ==
  ASSUME NetworkInv, AuthInv, NEW n \in Router \cup {Provider}, NEW d, AuthData(n, d),
         NEW S \in Stored(cs[n], d) \cup {cs[n]}, cs' = [cs EXCEPT ![n] = S]
  PROVE  \A l \in Router \cup {Provider} : \A e \in cs'[l] : AuthData(l, e)
<1>1. S \subseteq cs[n] \cup {d}
  BY DEF Stored
<1>2. cs \in [Router \cup {Provider} -> SUBSET RightfulData]
  BY DEF NetworkInv
<1>3. \A l \in Router \cup {Provider} : \A e \in cs[l] : AuthData(l, e)
  BY DEF AuthInv
<1>4. \A l \in Router \cup {Provider} : cs'[l] = IF l = n THEN S ELSE cs[l]
  BY <1>2
<1>. HIDE DEF NetworkInv, AuthInv, AuthData
<1>. QED  BY <1>1, <1>3, <1>4

LEMMA PacketsAuth ==
  ASSUME AuthInv, UNCHANGED <<pit, cs>>, \A m \in interests' : AuthUp(m),
         \A m \in datas' : AuthData(m.to, m.pkt)
  PROVE  AuthInv'
BY DEF AuthInv

LEMMA InitAuth == Init => AuthInv /\ WaitingHasRequest
<1>1. \A S : <<>> \in Seq(S)
  OBVIOUS
<1>. QED  BY <1>1 DEF Init, AuthInv, WaitingHasRequest

-----------------------------------------------------------------------------
\* Actions of the consumers: those of them that wait.
LEMMA RequestAuth ==
  ASSUME IInv, Routed, AuthInv, WaitingHasRequest,
         NEW c \in Consumer, NEW x \in Name, Request(c, x)
  PROVE  AuthInv' /\ WaitingHasRequest'
<1>. DEFINE i == [name |-> x, owner |-> c, nonce |-> sends[c],
                  tag |-> IF x = c THEN NoTag ELSE tag[c],
                  trk |-> Update(FreshTracker, c), vouched |-> FALSE]
            m == Packet(c, Up[c], i)
<1>1. /\ interests' = interests \cup {m}
      /\ asked' = [asked EXCEPT ![c] = @ \cup {i}]
      /\ waiting' = IF x = c THEN waiting \cup {c} ELSE waiting
      /\ UNCHANGED <<datas, pit, cs>>
  BY DEF Request
<1>2. m.from = c /\ i.name = x
  BY DEF Packet
<1>. HIDE DEF m, i
<1>3. AuthUp(m)
  BY <1>2, NotConsumers DEF AuthUp
<1>4. AuthInv'
  BY <1>1, <1>3, PacketsAuth DEF AuthInv
<1>5. WaitingHasRequest'
  <2>1. \A b \in Consumer : asked'[b] = IF b = c THEN asked[b] \cup {i} ELSE asked[b]
    BY <1>1 DEF IInv, HostInv
  <2>2. waiting \subseteq Consumer
    BY DEF IInv, HostInv
  <2>. QED  BY <1>1, <1>2, <2>1, <2>2 DEF WaitingHasRequest, Pending
<1>. QED  BY <1>4, <1>5

LEMMA RetransmitAuth ==
  ASSUME Fresh, IInv, Routed, AuthInv, WaitingHasRequest, NEW c \in Consumer, Retransmit(c)
  PROVE  AuthInv' /\ WaitingHasRequest'
<1>1. PICK i \in asked[c] :
        /\ interests' = interests \cup {Packet(c, Up[c], i)}
        /\ asked' = [asked EXCEPT ![c] = (@ \ {i}) \cup {i}]
        /\ UNCHANGED <<datas, pit, cs, waiting>>
  BY DEF Retransmit, Fresh
<1>2. AuthUp(Packet(c, Up[c], i))
  BY NotConsumers DEF AuthUp, Packet
<1>3. AuthInv'
  BY <1>1, <1>2, PacketsAuth DEF AuthInv
<1>4. asked \in [Consumer -> SUBSET HonestInterest]
  BY DEF IInv, HostInv
<1>5. asked' = asked
  BY <1>1, <1>4
<1>6. WaitingHasRequest'
  BY <1>1, <1>5 DEF WaitingHasRequest, Pending
<1>. QED  BY <1>3, <1>6

LEMMA ReceiveAnswerAuth ==
  ASSUME IInv, Routed, AuthInv, WaitingHasRequest,
         NEW c \in Consumer, NEW m \in datas, ReceiveAnswer(c, m)
  PROVE  AuthInv' /\ WaitingHasRequest'
<1>. DEFINE granted == m.pkt.kind = "Auth" /\ Pending(c, m.pkt.name)
<1>1. /\ datas' = datas \ {m}
      /\ asked' = [asked EXCEPT ![c] = {i \in @ : i.name # m.pkt.name}]
      /\ waiting' = IF granted THEN waiting \ {c} ELSE waiting
      /\ UNCHANGED <<interests, pit, cs>>
  BY DEF ReceiveAnswer
<1>2. AuthInv'
  BY <1>1, PacketsAuth DEF AuthInv
<1>3. ASSUME NEW b \in waiting' PROVE Pending(b, b)'
  <2>1. b \in waiting /\ Pending(b, b) /\ b \in Consumer
    BY <1>1, <1>3 DEF WaitingHasRequest, IInv, HostInv
  <2>2. PICK i \in asked[b] : i.name = b
    BY <2>1 DEF Pending
  <2>3. ~(b = c /\ m.pkt.name = c)
    <3>. SUFFICES ASSUME b = c, m.pkt.name = c PROVE FALSE
      OBVIOUS
    <3>1. m.pkt.kind = "Auth"
      BY DEF AuthInv, AuthData
    <3>. QED  BY <1>1, <1>3, <2>1, <3>1
  <2>4. i \in asked'[b]
    BY <1>1, <2>1, <2>2, <2>3 DEF IInv, HostInv
  <2>. QED  BY <2>2, <2>4 DEF Pending
<1>4. WaitingHasRequest'
  BY <1>3 DEF WaitingHasRequest
<1>. QED  BY <1>2, <1>4

LEMMA WaitersKept ==
  ASSUME WaitingHasRequest, UNCHANGED <<asked, waiting>>
  PROVE  WaitingHasRequest'
BY DEF WaitingHasRequest, Pending

-----------------------------------------------------------------------------
\* Actions of the routers.
LEMMA AnswerFromStoreAuth ==
  ASSUME Fresh, IInv, Routed, AuthInv, NEW n \in Router, NEW m \in interests,
         AnswerFromStore(n, m)
  PROVE  AuthInv'
<1>0. RouteInv /\ NetworkInv
  BY DEF Routed, IInv
<1>1. PICK d \in Matches(n, m.pkt.name) : Serve(n, <<InRecord(n, m)>>, 1, d, datas)
  BY DEF AnswerFromStore
<1>2. m.to = n /\ interests' = interests \ {m} /\ UNCHANGED <<pit, cs>>
  BY DEF AnswerFromStore, Accepted
<1>3. d \in DataAt(n) /\ AuthData(n, d) /\ d.name = m.pkt.name /\ m \in UpInterest
      /\ AuthUp(m)
  BY <1>0 DEF Matches, RouteInv, AuthInv
<1>4. InRecord(n, m) \in RecordOf(n, d.name) /\ InRecord(n, m) \in AuthRecords(n)
  BY <1>2, <1>3, RecordRouted, RecordAuth
<1>. DEFINE recs == <<InRecord(n, m)>>
<1>5. recs \in Seq(RecordOf(n, d.name)) /\ recs \in Seq(AuthRecords(n)) /\ Len(recs) = 1
  BY <1>4
<1>6. 1 \in 1..(Len(recs) + 1)
  BY <1>5
<1>. HIDE DEF recs
<1>7. Serve(n, recs, 1, d, datas) /\ \A a \in datas : AuthData(a.to, a.pkt)
  BY <1>1 DEF recs, AuthInv
<1>8. \A a \in datas' : AuthData(a.to, a.pkt)
  BY <1>3, <1>5, <1>6, <1>7, ServeAuth
<1>. QED  BY <1>2, <1>8, PacketsAuth DEF AuthInv

LEMMA AggregateAuth ==
  ASSUME Fresh, IInv, Routed, AuthInv, NEW n \in Router, NEW m \in interests,
         AggregateInterest(n, m)
  PROVE  AuthInv'
<1>0. RouteInv /\ NetworkInv
  BY DEF Routed, IInv
<1>. DEFINE x == m.pkt.name
            recs == Append(pit[n][x], InRecord(n, m))
<1>1. /\ m.to = n /\ interests' = interests \ {m}
      /\ pit' = [pit EXCEPT ![n][x] = recs]
      /\ UNCHANGED <<datas, cs>>
  BY DEF AggregateInterest, Missed, Accepted
<1>2. x \in Name /\ InRecord(n, m) \in AuthRecords(n) /\ pit[n][x] \in Seq(AuthRecords(n))
  BY <1>0, <1>1, InFlight, RecordAuth DEF RouteInv, AuthInv
<1>3. recs \in Seq(AuthRecords(n))
  BY <1>2
<1>. HIDE DEF recs, x
<1>4. \A l \in Router, y \in Name : pit'[l][y] \in Seq(AuthRecords(l))
  BY <1>0, <1>1, <1>2, <1>3, EntryAuth
<1>. QED  BY <1>1, <1>4 DEF AuthInv

LEMMA ForwardAuth ==
  ASSUME Fresh, IInv, Routed, AuthInv, NEW n \in Router, NEW m \in interests,
         ForwardInterest(n, m)
  PROVE  AuthInv'
<1>0. RouteInv /\ NetworkInv
  BY DEF Routed, IInv
<1>. DEFINE x == m.pkt.name
            recs == Append(pit[n][x], InRecord(n, m))
            picked == Head(recs)
            result == FilterOutgoingInterest(n, picked.from, picked.pkt, cache[n])
            m2 == Packet(n, Up[n], result.pkt)
<1>1. /\ m.to = n
      /\ interests' = (interests \ {m}) \cup (IF result.sent THEN {m2} ELSE {})
      /\ pit' = [pit EXCEPT ![n][x] = recs]
      /\ UNCHANGED <<datas, cs>>
  BY DEF ForwardInterest, Missed, Accepted
<1>2. /\ x \in Name
      /\ InRecord(n, m) \in AuthRecords(n) /\ InRecord(n, m) \in RecordOf(n, x)
      /\ pit[n][x] \in Seq(AuthRecords(n)) /\ pit[n][x] \in Seq(RecordOf(n, x))
  BY <1>0, <1>1, InFlight, RecordAuth, RecordRouted DEF RouteInv, AuthInv
<1>3. recs \in Seq(AuthRecords(n)) /\ recs \in Seq(RecordOf(n, x)) /\ recs # <<>>
  BY <1>2
<1>. HIDE DEF recs, x
<1>4. picked \in RecordOf(n, x) /\ picked \in AuthRecords(n)
  BY <1>3
<1>5. AuthUp(m2)
  BY <1>4, FilterAuth DEF AuthRecords
<1>. HIDE DEF m2
<1>6. \A a \in interests' : AuthUp(a)
  BY <1>1, <1>5 DEF AuthInv
<1>7. \A l \in Router, y \in Name : pit'[l][y] \in Seq(AuthRecords(l))
  BY <1>0, <1>1, <1>2, <1>3, EntryAuth
<1>. QED  BY <1>1, <1>6, <1>7 DEF AuthInv

LEMMA ReceiveDataAuth ==
  ASSUME Fresh, IInv, Routed, AuthInv, NEW n \in Router, NEW m \in datas, ReceiveData(n, m)
  PROVE  AuthInv'
<1>0. RouteInv /\ NetworkInv
  BY DEF Routed, IInv
<1>. DEFINE d == m.pkt
            recs == pit[n][d.name]
<1>1. /\ m.to = n
      /\ \E S \in Stored(cs[n], d) : cs' = [cs EXCEPT ![n] = S]
      /\ pit' = [pit EXCEPT ![n][d.name] = <<>>]
      /\ \E k \in 1..(Len(recs) + 1) : Serve(n, recs, k, d, datas \ {m})
      /\ UNCHANGED interests
  BY DEF ReceiveData
<1>2. /\ d \in DataAt(n) /\ AuthData(n, d) /\ d.name \in Name
      /\ recs \in Seq(RecordOf(n, d.name)) /\ recs \in Seq(AuthRecords(n))
  BY <1>0, <1>1, InFlight DEF RouteInv, DownData, AuthInv
<1>3. \A l \in Router \cup {Provider} : \A e \in cs'[l] : AuthData(l, e)
  BY <1>0, <1>1, <1>2, StoreAuth
<1>4. \A a \in datas \ {m} : AuthData(a.to, a.pkt)
  BY DEF AuthInv
<1>5. <<>> \in Seq(AuthRecords(n))
  OBVIOUS
<1>. HIDE DEF recs, d
<1>6. \A l \in Router, y \in Name : pit'[l][y] \in Seq(AuthRecords(l))
  BY <1>0, <1>1, <1>2, <1>5, EntryAuth
<1>7. \A a \in datas' : AuthData(a.to, a.pkt)
  BY <1>1, <1>2, <1>4, ServeAuth
<1>. QED  BY <1>1, <1>3, <1>6, <1>7 DEF AuthInv

LEMMA IgnoreDataAuth ==
  ASSUME IInv, AuthInv, NEW n \in Router, NEW m \in datas, IgnoreData(n, m)
  PROVE  AuthInv'
<1>1. /\ m.to = n /\ datas' = datas \ {m}
      /\ \E S \in Stored(cs[n], m.pkt) \cup {cs[n]} : cs' = [cs EXCEPT ![n] = S]
      /\ UNCHANGED <<interests, pit>>
  BY DEF IgnoreData
<1>2. NetworkInv /\ AuthData(n, m.pkt)
  BY <1>1 DEF IInv, AuthInv
<1>3. \A l \in Router \cup {Provider} : \A e \in cs'[l] : AuthData(l, e)
  BY <1>1, <1>2, StoreAuth
<1>. QED  BY <1>1, <1>3 DEF AuthInv

LEMMA EraseAuth ==
  ASSUME IInv, AuthInv, NEW n \in Router, NEW x \in Name, Erase(n, x)
  PROVE  AuthInv'
<1>1. pit' = [pit EXCEPT ![n][x] = <<>>] /\ UNCHANGED <<interests, datas, cs>>
  BY DEF Erase
<1>2. NetworkInv /\ <<>> \in Seq(AuthRecords(n))
  BY DEF IInv
<1>3. \A l \in Router, y \in Name : pit'[l][y] \in Seq(AuthRecords(l))
  BY <1>1, <1>2, EntryAuth
<1>. QED  BY <1>1, <1>3 DEF AuthInv

-----------------------------------------------------------------------------
\* Actions of the producer's node.
LEMMA ProviderSendsAuth ==
  ASSUME AuthInv, NEW m \in interests, m \in UpInterest, m.to = Provider,
         NEW d \in DataAt(Provider), AuthData(Provider, d), d.name = m.pkt.name,
         SendFromProvider(m, d)
  PROVE  /\ \A a \in interests' : AuthUp(a)
         /\ \A a \in datas' : AuthData(a.to, a.pkt)
<1>. DEFINE s == Stamped(Decoded(d), Provider)
            p == Packet(Provider, m.from, s)
<1>1. datas' = datas \cup {p} /\ interests' = interests \ {m}
  BY DEF SendFromProvider
<1>2. p.to = m.from /\ p.pkt = s
  BY DEF Packet
<1>3. /\ m.from \in Host /\ m.from \notin Consumer /\ Up[m.from] = Provider
      /\ m.from # Provider
  <2>1. m.from \in Host /\ Up[m.from] = Provider
    BY DEF UpInterest
  <2>. QED  BY <2>1, Links, NotConsumers
<1>4. /\ d \in Data /\ Provider \in Id
      /\ d.trk # NoTracker => d.trk \in Tracker(Id) /\ d.trk.net = "EXIT"
  BY Networks DEF DataAt, RightfulData, Data, Id
<1>5. ASSUME d.name \in Consumer
      PROVE  /\ s.name = d.name /\ s.kind = "Auth" /\ ~s.nrc /\ s.trk # NoTracker
             /\ s.trk.entry = Home(d.name) /\ AuthTracker(d.name, m.from, s.trk)
  <2>1. d.kind = "Auth" /\ ~d.nrc /\ d.trk # NoTracker
    BY <1>5 DEF AuthData
  <2>2. s = [d EXCEPT !.trk = Update(@, Provider)]
    BY <2>1 DEF Decoded, Mangled, Stamped
  <2>3. s.name = d.name /\ s.kind = d.kind /\ s.nrc = d.nrc /\ s.trk = Update(d.trk, Provider)
    BY <1>4, <2>2 DEF Data
  <2>. HIDE DEF s
  <2>4. s.trk # NoTracker
    BY <1>4, <2>1, <2>3, UpdateType, NoneAssumption
  <2>5. OnWay(d.name, m.from)
    BY <1>3, <1>5 DEF AuthInv, AuthUp, AuthTracker, Host
  <2>6. /\ d.trk.entry = Home(d.name) /\ d.trk.exit = {Provider}
        /\ d.trk.internet = Span(d.name, m.from)
    BY <1>3, <1>5, <2>5 DEF AuthData, Host
  <2>7. s.trk.entry = Home(d.name)
    BY <1>4, <2>1, <2>3, <2>6, UpdateFields
  <2>8. s.trk.internet = Span(d.name, m.from) /\ s.trk.exit = Flip({Provider}, Provider)
    BY <1>4, <2>1, <2>3, <2>6, UpdateBeyond
  <2>9. Flip({Provider}, Provider) = {}
    BY DEF Flip
  <2>. QED  BY <2>1, <2>3, <2>4, <2>5, <2>7, <2>8, <2>9 DEF AuthTracker
<1>6. s.name = d.name
  BY <1>4 DEF Stamped, Decoded, Data
<1>. HIDE DEF s, p
<1>7. AuthData(p.to, p.pkt)
  BY <1>2, <1>3, <1>5, <1>6 DEF AuthData
<1>. QED  BY <1>1, <1>7 DEF AuthInv

LEMMA ProviderStoreAuth ==
  ASSUME IInv, Routed, AuthInv, NEW m \in interests, AnswerFromProviderStore(m)
  PROVE  AuthInv'
<1>1. PICK d \in Matches(Provider, m.pkt.name) : SendFromProvider(m, d)
  BY DEF AnswerFromProviderStore
<1>2. m.to = Provider /\ UNCHANGED <<pit, cs>>
  BY DEF AnswerFromProviderStore
<1>3. /\ d \in DataAt(Provider) /\ AuthData(Provider, d) /\ d.name = m.pkt.name
      /\ m \in UpInterest
  BY DEF Matches, Routed, RouteInv, AuthInv
<1>4. /\ \A a \in interests' : AuthUp(a)
      /\ \A a \in datas' : AuthData(a.to, a.pkt)
  BY <1>1, <1>2, <1>3, ProviderSendsAuth
<1>. QED  BY <1>2, <1>4, PacketsAuth

LEMMA ReplyAuth ==
  ASSUME Fresh, NEW m \in UpInterest, m.to = Provider, AuthUp(m)
  PROVE  /\ Reply(Arrived(Provider, m)).name = m.pkt.name
         /\ AuthData(Provider, Reply(Arrived(Provider, m)))
<1>. DEFINE i == Arrived(Provider, m)
            d == Reply(i)
<1>1. /\ i \in HonestInterest /\ i.name = m.pkt.name /\ i.owner = m.pkt.owner
      /\ i.trk.entry = Home(i.owner) /\ Fitting(i)
  BY ArrivedRouted
<1>2. d.name = i.name
  BY DEF Reply, AuthReply, ContentReply
<1>3. ASSUME i.name \in Consumer
      PROVE  /\ d.kind = "Auth" /\ ~d.nrc /\ d.trk # NoTracker
             /\ d.trk.entry = Home(i.name) /\ d.trk.exit = {Provider}
             /\ \A l \in Router : Up[l] = Provider /\ OnWay(i.name, l) =>
                  d.trk.internet = Span(i.name, l)
  <2>1. d = AuthReply(i)
    BY <1>3 DEF Reply, Public
  <2>2. d.kind = "Auth" /\ ~d.nrc /\ d.trk = i.trk
    BY <2>1 DEF AuthReply
  <2>3. /\ i.trk.exit = {Provider} /\ m.from \in Router
        /\ i.trk.internet = Span(i.name, m.from) /\ OnWay(i.name, m.from)
    BY <1>1, <1>3, ArrivedAuth
  <2>4. Up[m.from] = Provider
    BY DEF UpInterest
  <2>5. i.trk \in Tracker(Id)
    BY <1>1 DEF HonestInterest, Interest
  <2>6. i.owner = i.name
    BY <1>1, <1>3 DEF Fitting
  <2>. HIDE DEF d, i
  <2>7. \A l \in Router : Up[l] = Provider /\ OnWay(i.name, l) => l = m.from
    BY <1>3, <2>3, <2>4, LastHop
  <2>. QED  BY <1>1, <2>2, <2>3, <2>5, <2>6, <2>7, NoneAssumption
<1>4. Provider \notin Router
  BY NodesAssumption
<1>. HIDE DEF d, i
<1>5. AuthData(Provider, d)
  BY <1>2, <1>3, <1>4 DEF AuthData
<1>. QED  BY <1>1, <1>2, <1>5 DEF d, i

LEMMA ProduceAuth ==
  ASSUME Fresh, IInv, Routed, AuthInv, NEW m \in interests, Produce(m)
  PROVE  AuthInv'
<1>0. NetworkInv /\ RouteInv
  BY DEF IInv, Routed
<1>. DEFINE d == Reply(Arrived(Provider, m))
<1>1. /\ m.to = Provider
      /\ SendFromProvider(m, d)
      /\ \E S \in Stored(cs[Provider], d) : cs' = [cs EXCEPT ![Provider] = S]
      /\ UNCHANGED pit
  BY DEF Produce
<1>2. m \in UpInterest /\ AuthUp(m)
  BY <1>0 DEF RouteInv, AuthInv
<1>3. d \in DataAt(Provider) /\ AuthData(Provider, d) /\ d.name = m.pkt.name
  BY <1>1, <1>2, ReplyRouted, ReplyAuth
<1>. HIDE DEF d
<1>4. /\ \A a \in interests' : AuthUp(a)
      /\ \A a \in datas' : AuthData(a.to, a.pkt)
  BY <1>1, <1>2, <1>3, ProviderSendsAuth
<1>5. \A l \in Router \cup {Provider} : \A e \in cs'[l] : AuthData(l, e)
  BY <1>0, <1>1, <1>3, StoreAuth
<1>. QED  BY <1>1, <1>4, <1>5 DEF AuthInv

\* Actions that only drop a packet or end the simulation.
LEMMA DropAuth ==
  ASSUME AuthInv, interests' \subseteq interests, datas' \subseteq datas,
         UNCHANGED <<pit, cs>>
  PROVE  AuthInv'
BY PacketsAuth DEF AuthInv

LEMMA NextAuth ==
  Fresh /\ IInv /\ Routed /\ AuthInv /\ WaitingHasRequest /\ [Next]_vars
    => AuthInv' /\ WaitingHasRequest'
<1>. SUFFICES ASSUME Fresh, IInv, Routed, AuthInv, WaitingHasRequest, [Next]_vars
              PROVE  AuthInv' /\ WaitingHasRequest'
  OBVIOUS
<1>1. ASSUME NEW c \in Consumer, NEW x \in Name, Request(c, x)
      PROVE  AuthInv' /\ WaitingHasRequest'
  BY <1>1, RequestAuth
<1>2. ASSUME NEW c \in Consumer, Retransmit(c)
      PROVE  AuthInv' /\ WaitingHasRequest'
  BY <1>2, RetransmitAuth
<1>3. ASSUME NEW c \in Consumer, NEW m \in datas, ReceiveAnswer(c, m)
      PROVE  AuthInv' /\ WaitingHasRequest'
  BY <1>3, ReceiveAnswerAuth
<1>4. ASSUME NEW n \in Router, NEW m \in interests, LoopInterest(n, m)
      PROVE  AuthInv' /\ UNCHANGED <<asked, waiting>>
  BY <1>4, DropAuth DEF LoopInterest, hosts
<1>5. ASSUME NEW n \in Router, NEW m \in interests, AnswerFromStore(n, m)
      PROVE  AuthInv' /\ UNCHANGED <<asked, waiting>>
  BY <1>5, AnswerFromStoreAuth DEF AnswerFromStore, hosts
<1>6. ASSUME NEW n \in Router, NEW m \in interests, AggregateInterest(n, m)
      PROVE  AuthInv' /\ UNCHANGED <<asked, waiting>>
  BY <1>6, AggregateAuth DEF AggregateInterest, hosts
<1>7. ASSUME NEW n \in Router, NEW m \in interests, ForwardInterest(n, m)
      PROVE  AuthInv' /\ UNCHANGED <<asked, waiting>>
  BY <1>7, ForwardAuth DEF ForwardInterest, hosts
<1>8. ASSUME NEW n \in Router, NEW m \in datas, ReceiveData(n, m)
      PROVE  AuthInv' /\ UNCHANGED <<asked, waiting>>
  BY <1>8, ReceiveDataAuth DEF ReceiveData, hosts
<1>9. ASSUME NEW n \in Router, NEW m \in datas, IgnoreData(n, m)
      PROVE  AuthInv' /\ UNCHANGED <<asked, waiting>>
  BY <1>9, IgnoreDataAuth DEF IgnoreData, hosts
<1>10. ASSUME NEW n \in Router, NEW x \in Name, Erase(n, x)
       PROVE  AuthInv' /\ UNCHANGED <<asked, waiting>>
  BY <1>10, EraseAuth DEF Erase, hosts
<1>11. ASSUME NEW m \in interests, AnswerFromProviderStore(m)
       PROVE  AuthInv' /\ UNCHANGED <<asked, waiting>>
  BY <1>11, ProviderStoreAuth DEF AnswerFromProviderStore, hosts
<1>12. ASSUME NEW m \in interests, Produce(m)
       PROVE  AuthInv' /\ UNCHANGED <<asked, waiting>>
  BY <1>12, ProduceAuth DEF Produce, hosts
<1>13. ASSUME NEW m \in interests, ProducerFault(m)
       PROVE  AuthInv' /\ UNCHANGED <<asked, waiting>>
  BY <1>13, DropAuth DEF ProducerFault, hosts
<1>14. CASE Lose
  <2>1. AuthInv' /\ UNCHANGED <<asked, waiting>>
    BY <1>14, DropAuth DEF Lose, hosts
  <2>. QED  BY <2>1, WaitersKept
<1>15. CASE UNCHANGED vars
  <2>1. AuthInv' /\ UNCHANGED <<asked, waiting>>
    BY <1>15, DropAuth DEF vars
  <2>. QED  BY <2>1, WaitersKept
<1>16. ASSUME NEW n \in Router,
              \/ \E m \in interests :
                   \/ LoopInterest(n, m) \/ AnswerFromStore(n, m)
                   \/ AggregateInterest(n, m) \/ ForwardInterest(n, m)
              \/ \E m \in datas : ReceiveData(n, m) \/ IgnoreData(n, m)
              \/ \E x \in Name : Erase(n, x)
       PROVE  AuthInv' /\ WaitingHasRequest'
  BY <1>4, <1>5, <1>6, <1>7, <1>8, <1>9, <1>10, <1>16, WaitersKept
<1>17. ASSUME NEW m \in interests,
              AnswerFromProviderStore(m) \/ Produce(m) \/ ProducerFault(m)
       PROVE  AuthInv' /\ WaitingHasRequest'
  BY <1>11, <1>12, <1>13, <1>17, WaitersKept
<1>. QED
  BY <1>1, <1>2, <1>3, <1>14, <1>15, <1>16, <1>17 DEF Next

LEMMA AuthInvariance == Fresh => (Spec => []AuthInv /\ []WaitingHasRequest)
<1>. SUFFICES ASSUME Fresh PROVE Spec => []AuthInv /\ []WaitingHasRequest
  OBVIOUS
<1>1. Init => AuthInv /\ WaitingHasRequest
  BY InitAuth
<1>2. IInv /\ Routed /\ (AuthInv /\ WaitingHasRequest) /\ [Next]_vars
        => (AuthInv /\ WaitingHasRequest)'
  BY NextAuth
<1>. QED  BY <1>1, <1>2, Invariance, RoutedInvariance, PTL DEF Spec

-----------------------------------------------------------------------------
\* Unless retransmissions alter the Interests pending, a consumer that waits
\* for its tag has the request for it pending, whatever is lost, aggregated or
\* answered from stores: no router on the way turns the answer into a Blob,
\* which would settle the request without ending the wait.
THEOREM WaitersHaveRequests ==
  "reused-interest" \notin Defects => (Spec => []WaitingHasRequest)
BY AuthInvariance DEF Fresh
=============================================================================
