--------------------------- MODULE AccessNetwork ---------------------------
(***************************************************************************)
(* The access-controlled network of the simulation: consumers, the edge    *)
(* and core routers, and the producer, with NFD's forwarding pipelines     *)
(* (NFD/daemon/fw/forwarder.cpp) as the producer's project modified them.  *)
(* The nodes of consumers and of the producer are each taken as a whole,   *)
(* application and forwarder together.                                     *)
(*                                                                         *)
(* A packet in flight may be delivered at any later time, or be lost, as   *)
(* when a device queue overflows.  Time is left out: an unexpired record   *)
(* may lapse at any moment, and so may a PIT entry.  A behaviour starts    *)
(* with nothing pending, cached or stored, but some consumers may hold a   *)
(* tag they were granted earlier.                                          *)
(***************************************************************************)
EXTENDS AccessStrategy, Sequences

CONSTANTS
  CsLimit,   \* the capacity of a content store
  Granted,   \* the consumers that hold a tag when the behaviour starts
  MaxSends,  \* bound on the number of Interests each consumer sends
  MaxFlight  \* bound on the packets in flight when a consumer sends one

ASSUME BoundsAssumption ==
  CsLimit \in Nat \ {0} /\ MaxFlight \in Nat
  /\ MaxSends \in [Consumer -> Nat] /\ Granted \subseteq Consumer

VARIABLES
  interests,  \* Interests in flight: [from, to, pkt]
  datas,      \* Data in flight: [from, to, pkt]
  pit,        \* the in-records of each router's entry of a name, oldest first
  out,        \* the names for which a router has an out-record
  cs,         \* the content stores of the routers and of the producer's node
  cache,      \* m_positive_cache and m_negative_cache of the edge routers
  tag,        \* the tag each consumer holds
  asked,      \* the Interests each consumer has pending
  waiting,    \* the consumers with m_pending_auth set
  sends,      \* the number of Interests each consumer has sent
  crashed     \* the simulation has ended in a fault

vars == <<interests, datas, pit, out, cs, cache, tag, asked, waiting, sends, crashed>>
hosts == <<tag, asked, waiting, sends>>

Packet(n, m, p) == [from |-> n, to |-> m, pkt |-> p]

\* A content store that has taken d, having evicted another Data if it is full.
Stored(S, d) ==
  IF Cardinality(S \cup {d}) <= CsLimit THEN {S \cup {d}}
  ELSE {(S \cup {d}) \ {e} : e \in S \ {d}}

Init ==
  /\ interests = {} /\ datas = {}
  /\ pit = [n \in Router |-> [x \in Name |-> <<>>]]
  /\ out = [n \in Router |-> {}]
  /\ cs = [n \in Router \cup {Provider} |-> {}]
  /\ cache = [n \in Router |-> [pos |-> EmptyFilter, neg |-> EmptyFilter]]
  /\ tag = [c \in Consumer |->
              IF c \in Granted THEN Spoilt(c, {c, Up[c]}) ELSE NoTag]
  /\ asked = [c \in Consumer |-> {}]
  /\ waiting = {}
  /\ sends = [c \in Consumer |-> 0]
  /\ crashed = FALSE

-----------------------------------------------------------------------------
\* Consumers.

\* The bounds allow c to send an Interest.
Room(c) ==
  /\ sends[c] < MaxSends[c]
  /\ Cardinality(interests) + Cardinality(datas) < MaxFlight

HasAuth(c) == tag[c] # NoTag /\ Flaw[c] \notin {"bad_prefix", "expired_auth"}

Pending(c, x) == \E i \in asked[c] : i.name = x

\* SendNext: the next segment of the content, or an authentication request
\* if the consumer has no tag to use.  FillWindow calls it only while no
\* authentication is awaited.  The consumer's forwarder stamps the Interest.
Request(c, x) ==
  /\ ~crashed
  /\ Room(c)
  /\ c \notin waiting /\ ~Pending(c, x)
  /\ IF HasAuth(c) THEN x \in Content ELSE x = c
  /\ LET i == [name |-> x, owner |-> c, nonce |-> sends[c],
               tag |-> IF x = c THEN NoTag ELSE tag[c],
               trk |-> Update(FreshTracker, c), vouched |-> FALSE]
     IN  /\ interests' = interests \cup {Packet(c, Up[c], i)}
         /\ asked' = [asked EXCEPT ![c] = @ \cup {i}]
  /\ waiting' = IF x = c THEN waiting \cup {c} ELSE waiting
  /\ sends' = [sends EXCEPT ![c] = @ + 1]
  /\ UNCHANGED <<datas, pit, out, cs, cache, tag, crashed>>

\* OnTimeout and RetX hand the pending Interest itself to the forwarder once
\* more, which stamps it again.
Retransmit(c) ==
  \E i \in asked[c] :
    LET j == IF "reused-interest" \in Defects
             THEN [i EXCEPT !.trk = Update(@, c)] ELSE i
    IN  /\ ~crashed
        /\ Room(c)
        /\ interests' = interests \cup {Packet(c, Up[c], j)}
        /\ asked' = [asked EXCEPT ![c] = (@ \ {i}) \cup {j}]
        /\ sends' = [sends EXCEPT ![c] = @ + 1]
        /\ UNCHANGED <<datas, pit, out, cs, cache, tag, waiting, crashed>>

\* Mutant: m_pending_auth is not reset when the tag has come.
ReceiveAnswerStillWaiting(c, m) ==
  LET granted == m.pkt.kind = "Auth" /\ Pending(c, m.pkt.name)
  IN  /\ ~crashed
      /\ m.to = c
      /\ datas' = datas \ {m}
      /\ asked' = [asked EXCEPT ![c] = {i \in @ : i.name # m.pkt.name}]
      /\ tag' = IF granted THEN [tag EXCEPT ![c] = Spoilt(c, m.pkt.grant)] ELSE tag
      /\ UNCHANGED <<interests, pit, out, cs, cache, waiting, sends, crashed>>

\* OnData: any Data settles the request of its name, only one of type Auth
\* brings a tag.  What was not requested is ignored.
ReceiveAnswer(c, m) ==
  LET d == m.pkt
      granted == d.kind = "Auth" /\ Pending(c, d.name)
  IN  /\ ~crashed
      /\ m.to = c
      /\ datas' = datas \ {m}
      /\ asked' = [asked EXCEPT ![c] = {i \in @ : i.name # d.name}]
      /\ tag' = IF granted THEN [tag EXCEPT ![c] = Spoilt(c, d.grant)] ELSE tag
      /\ waiting' = IF granted THEN waiting \ {c} ELSE waiting
      /\ UNCHANGED <<interests, pit, out, cs, cache, sends, crashed>>

-----------------------------------------------------------------------------
\* Routers: Forwarder::onIncomingInterest and the pipelines it leads to.

\* The Interest of m as router n sees it, its own id stamped on it.
Arrived(n, m) == [m.pkt EXCEPT !.trk = Update(@, n)]

InRecord(n, m) == [from |-> m.from, pkt |-> Arrived(n, m)]

SameNonce(i, j) == i.owner = j.owner /\ i.nonce = j.nonce

Duplicate(n, m) ==
  \E k \in DOMAIN pit[n][m.pkt.name] : SameNonce(pit[n][m.pkt.name][k].pkt, m.pkt)

Matches(n, x) == {d \in cs[n] : d.name = x}

\* The cases in which the handler goes on to the content store.
Accepted(n, m) == ~crashed /\ m.to = n /\ ~Duplicate(n, m)

\* onInterestLoop: an Interest whose nonce is already pending is dropped.
LoopInterest(n, m) ==
  /\ ~crashed
  /\ m.to = n /\ Duplicate(n, m)
  /\ interests' = interests \ {m}
  /\ UNCHANGED <<datas, pit, out, cs, cache, hosts, crashed>>

\* Mutant: the edge inserts the tags of denied requests in the positive cache.
LearnedDenied(n, recs, R, d) ==
  LET leaving == {k \in R : ~EdgeFace(n, Up[n]) /\ EdgeFace(n, recs[k].from)
                            /\ ~Public(d.name)}
  IN  [cache[n] EXCEPT !.pos =
         Inserted(@, {recs[k].pkt.tag : k \in leaving}, Cardinality(leaving))]

\* What an edge learns when it sends Data out of the network: the tags of
\* denied requests, and those of satisfied ones that are not to be vouched
\* for already.  R is the set of the indices of the records served.
Learned(n, recs, R, d) ==
  LET leaving == {k \in R : ~EdgeFace(n, Up[n]) /\ EdgeFace(n, recs[k].from)
                            /\ ~Public(d.name)}
      judged(k) == Judged(n, recs[k].from, recs[k].pkt, d)
      bad  == {k \in leaving : judged(k).kind = "Nack"}
      good == {k \in leaving \ bad : ~judged(k).nrc}
      tags(K) == {recs[k].pkt.tag : k \in K}
  IN  [pos |-> Inserted(cache[n].pos, tags(good), Cardinality(good)),
       neg |-> Inserted(cache[n].neg, tags(bad), Cardinality(bad))]

\* Give Data d to the records of recs from index k on, the newest first; `left'
\* are the Data in flight otherwise.  A fault ends the simulation and an
\* exception ends the loop, so that the records after it get nothing.
Serve(n, recs, k, d, left) ==
  LET crash(j) == Crashes(n, recs[j].from, recs[j].pkt, d)
      fails  == {j \in k..Len(recs) :
                   crash(j) \/ Throws(n, recs[j].from, recs[j].pkt, d)}
      served == {j \in k..Len(recs) : \A f \in fails : f < j}
      answer(j) == Stamped(Judged(n, recs[j].from, recs[j].pkt, d), n)
  IN  /\ datas' = left \cup {Packet(n, recs[j].from, answer(j)) : j \in served}
      /\ cache' = [cache EXCEPT ![n] = Learned(n, recs, served, d)]
      /\ crashed' = \E f \in fails : crash(f) /\ \A g \in fails : g <= f

\* onContentStoreHit: with no Interest pending the store is asked first.
AnswerFromStore(n, m) ==
  /\ Accepted(n, m)
  /\ pit[n][m.pkt.name] = <<>>
  /\ interests' = interests \ {m}
  /\ \E d \in Matches(n, m.pkt.name) : Serve(n, <<InRecord(n, m)>>, 1, d, datas)
  /\ UNCHANGED <<pit, out, cs, hosts>>

Missed(n, m) ==
  /\ Accepted(n, m)
  /\ pit[n][m.pkt.name] # <<>> \/ Matches(n, m.pkt.name) = {}

\* onContentStoreMiss while the Interest forwarded before is unanswered:
\* afterReceiveInterest leaves it at the new in-record.
AggregateInterest(n, m) ==
  /\ Missed(n, m)
  /\ m.pkt.name \in out[n]
  /\ interests' = interests \ {m}
  /\ pit' = [pit EXCEPT ![n][m.pkt.name] = Append(@, InRecord(n, m))]
  /\ UNCHANGED <<datas, out, cs, cache, hosts, crashed>>

\* onContentStoreMiss with no out-record or an expired one: onOutgoingInterest
\* picks the in-record renewed least recently and asks the strategy, which
\* may drop the Interest; the in-records stay in either case.
ForwardInterest(n, m) ==
  LET x == m.pkt.name
      recs == Append(pit[n][x], InRecord(n, m))
      picked == Head(recs)
      result == FilterOutgoingInterest(n, picked.from, picked.pkt, cache[n])
  IN  /\ Missed(n, m)
      /\ interests' = (interests \ {m}) \cup
                      (IF result.sent THEN {Packet(n, Up[n], result.pkt)} ELSE {})
      /\ pit' = [pit EXCEPT ![n][x] = recs]
      /\ out' = [out EXCEPT ![n] = IF result.sent THEN @ \cup {x} ELSE @ \ {x}]
      /\ cache' = [cache EXCEPT ![n] = result.cache]
      /\ UNCHANGED <<datas, cs, hosts, crashed>>

\* onIncomingData: the Data is stored, the records of the entry are deleted,
\* and the strategy is asked about each in-record that has not expired.
ReceiveData(n, m) ==
  LET d == m.pkt
      recs == pit[n][d.name]
  IN  /\ ~crashed
      /\ m.to = n /\ recs # <<>>
      /\ \E S \in Stored(cs[n], d) : cs' = [cs EXCEPT ![n] = S]
      /\ pit' = [pit EXCEPT ![n][d.name] = <<>>]
      /\ out' = [out EXCEPT ![n] = @ \ {d.name}]
      /\ \E k \in 1..(Len(recs) + 1) : Serve(n, recs, k, d, datas \ {m})
      /\ UNCHANGED <<interests, hosts>>

\* Data that nothing waits for is dropped, after it has been stored if the
\* entry of its name is still there without in-records.
IgnoreData(n, m) ==
  /\ ~crashed
  /\ m.to = n /\ pit[n][m.pkt.name] = <<>>
  /\ datas' = datas \ {m}
  /\ \E S \in Stored(cs[n], m.pkt) \cup {cs[n]} : cs' = [cs EXCEPT ![n] = S]
  /\ UNCHANGED <<interests, pit, out, cache, hosts, crashed>>

\* The unsatisfy or the straggler timer of an entry deletes it.
Erase(n, x) ==
  /\ ~crashed
  /\ pit[n][x] # <<>>
  /\ pit' = [pit EXCEPT ![n][x] = <<>>]
  /\ out' = [out EXCEPT ![n] = @ \ {x}]
  /\ UNCHANGED <<interests, datas, cs, cache, hosts, crashed>>

-----------------------------------------------------------------------------
\* The producer's node: its forwarder answers from its content store or hands
\* the Interest to Producer::OnInterest, whose answer it stores and sends.
\* What leaves the node is a copy of what is stored, made through the wire.
SendFromProvider(m, d) ==
  /\ interests' = interests \ {m}
  /\ datas' = datas \cup {Packet(Provider, m.from, Stamped(Decoded(d), Provider))}

AnswerFromProviderStore(m) ==
  /\ ~crashed
  /\ m.to = Provider
  /\ \E d \in Matches(Provider, m.pkt.name) : SendFromProvider(m, d)
  /\ UNCHANGED <<pit, out, cs, cache, hosts, crashed>>

Produce(m) ==
  LET i == Arrived(Provider, m)
  IN  /\ ~crashed
      /\ m.to = Provider /\ Matches(Provider, i.name) = {}
      /\ ~ProducerCrashes(i)
      /\ SendFromProvider(m, Reply(i))
      /\ \E S \in Stored(cs[Provider], Reply(i)) : cs' = [cs EXCEPT ![Provider] = S]
      /\ UNCHANGED <<pit, out, cache, hosts, crashed>>

\* An exception in OnInterest, which a simulator event runs, is not caught.
ProducerFault(m) ==
  /\ ~crashed
  /\ m.to = Provider /\ Matches(Provider, m.pkt.name) = {}
  /\ ProducerCrashes(m.pkt)
  /\ crashed' = TRUE
  /\ UNCHANGED <<interests, datas, pit, out, cs, cache, hosts>>

-----------------------------------------------------------------------------
\* A device queue on the path of a packet is full.
Lose ==
  /\ ~crashed
  /\ \/ \E m \in interests : interests' = interests \ {m} /\ UNCHANGED datas
     \/ \E m \in datas : datas' = datas \ {m} /\ UNCHANGED interests
  /\ UNCHANGED <<pit, out, cs, cache, hosts, crashed>>

Next ==
  \/ \E c \in Consumer :
       \/ \E x \in Name : Request(c, x)
       \/ Retransmit(c)
       \/ \E m \in datas : ReceiveAnswer(c, m)
  \/ \E n \in Router :
       \/ \E m \in interests : LoopInterest(n, m)
       \/ \E m \in interests : AnswerFromStore(n, m)
       \/ \E m \in interests : AggregateInterest(n, m)
       \/ \E m \in interests : ForwardInterest(n, m)
       \/ \E m \in datas : ReceiveData(n, m)
       \/ \E m \in datas : IgnoreData(n, m)
       \/ \E x \in Name : Erase(n, x)
  \/ \E m \in interests :
       \/ AnswerFromProviderStore(m)
       \/ Produce(m)
       \/ ProducerFault(m)
  \/ Lose

Spec == Init /\ [][Next]_vars

-----------------------------------------------------------------------------
Hop(From, P) == [from : From, to : Id, pkt : P]

TypeOK ==
  /\ interests \subseteq Hop(Id, Interest)
  /\ datas \subseteq Hop(Id, Data)
  /\ pit \in [Router -> [Name -> Seq([from : Id, pkt : Interest])]]
  /\ out \in [Router -> SUBSET Name]
  /\ cs \in [Router \cup {Provider} -> SUBSET Data]
  /\ cache \in [Router -> [pos : Filter, neg : Filter]]
  /\ tag \in [Consumer -> Tag \cup {NoTag}]
  /\ asked \in [Consumer -> SUBSET Interest]
  /\ waiting \subseteq Consumer
  /\ sends \in [Consumer -> Nat]
  /\ crashed \in BOOLEAN

\* The signature of every tag of consumer c is good, or that of none.
Signed(c) == Flaw[c] # "bad_auth_sig"

\* The bits of the tags whose signature is good.
GoodBits == UNION {Hash(t) : t \in {t \in Tag : t.sig /\ Signed(t.owner)}}

\* The tags of consumer c name the producer's key, and their signature is good
\* or looks so to a positive cache, its bits being those of good tags.
Authorised(c) ==
  /\ Flaw[c] # "bad_keyloc"
  /\ ~Signed(c) => \E t \in Tag : t.owner = c /\ Hash(t) \subseteq GoodBits

\* Content reaches only consumers whose tag bears the producer's key locator
\* and signature, whoever fetched it first and whichever of the producer, the
\* content stores and the aggregated in-records it came from.
OnlyAuthorisedReceive ==
  \A m \in datas :
    m.to \in Consumer /\ m.pkt.name \in Content /\ m.pkt.kind = "Blob"
      => Authorised(m.to)

\* A consumer whose configuration spoils nothing is never denied: the denial
\* of another consumer's request, stored or answering an in-record beside
\* its own, is judged anew for it.
SoundNeverDenied ==
  \A m \in datas :
    m.to \in Consumer /\ m.pkt.kind = "Nack" => Flaw[m.to] # "none"

\* The strategy never stops the request of a consumer whose configuration
\* spoils nothing: while one is the record an entry's Interests are picked
\* by, it has been sent on, even by an edge whose negative cache mistakes its
\* tag for a denied one.
SoundIsForwarded ==
  \A n \in Router, x \in Name :
    pit[n][x] # <<>> /\ Flaw[Head(pit[n][x]).pkt.owner] = "none" => x \in out[n]

\* A positive cache vouches for verified tags alone: what an edge learns from
\* verdicts it did not reach itself, it learns about the tag they were
\* reached on.
OnlyVerifiedAreCached == \A n \in Router : cache[n].pos.bits \subseteq GoodBits

\* The routes of a Data that reaches a consumer are those its Interest left
\* with: each forwarder on the way back takes its id off the hash it put it
\* on, also when the Data comes from a store or had another Interest's routes.
RoutesUnwind ==
  \A m \in datas : m.to \in Consumer =>
    m.pkt.trk = [FreshTracker EXCEPT !.entry = {m.to}]

\* The network fields the strategies and the producer assert of the packets
\* that cross from one network into another.
NetworksAgree ==
  /\ \A m \in interests :
       m.pkt.trk.net = IF m.from \in Consumer THEN "ENTRY"
                       ELSE IF m.to = Provider THEN "EXIT" ELSE "INTERNET"
  /\ \A m \in datas : m.pkt.trk # NoTracker =>
       m.pkt.trk.net = IF m.to \in Consumer THEN "ENTRY"
                       ELSE IF m.from = Provider THEN "EXIT" ELSE "INTERNET"

\* A consumer that awaits its tag has the request for it pending, so that it
\* is bound to send it again and to get an answer.
WaitingHasRequest == \A c \in waiting : Pending(c, c)

\* The route in a tag is the one that the consumer's Interests have at the
\* edge it is attached to, so that the edge lets them in.
TagFitsRequests ==
  \A c \in Consumer :
    tag[c] # NoTag /\ Flaw[c] # "bad_route" => tag[c].route = {c, Up[c]}

\* As long as every consumer's tags are sound nothing brings the simulation
\* down: no Nack is made for an edge to empty, no key locator is missing.
SoundRunsOn == (\A c \in Consumer : Flaw[c] = "none") => ~crashed

-----------------------------------------------------------------------------
\* What the state of the network says of the promises made to consumers.
Admitted == {c \in Consumer : Authorised(c)}
Unspoilt == {c \in Consumer : Flaw[c] = "none"}

PendingNames == [c \in Consumer |-> {i.name : i \in asked[c]}]
Holders == {c \in Consumer : tag[c] # NoTag}

\* A request is on the link from its consumer, or in the PIT at its end.
InPit(c, x) == \E k \in DOMAIN pit[Up[c]][x] : pit[Up[c]][x][k].from = c

Requests ==
  {r \in [from : Consumer, name : Name] :
     \/ \E m \in interests : m.from = r.from /\ m.pkt.name = r.name
     \/ InPit(r.from, r.name)}

AnswerIn(m) == [to |-> m.to, name |-> m.pkt.name, kind |-> m.pkt.kind]
Arriving == {AnswerIn(m) : m \in {m \in datas : m.to \in Consumer}}

Policy == INSTANCE AccessPolicy WITH
  Entitled <- Admitted, Sound <- Unspoilt, Reliant <- Consumer,
  pending <- PendingNames, holders <- Holders, requests <- Requests,
  arriving <- Arriving, stopped <- crashed

\* Routers, caches and stores keep the promises of the access control: what
\* reaches a consumer was asked for by it and is what it may have, whoever's
\* request fetched it, whatever is lost, evicted, timed out or sent again.
ImplementsPolicy == Policy!Spec

\* A retransmission that alters the Interest pending takes the consumer's id
\* off its entry hash, so that routers may take neighbours for each other.
Neighbours(c) == {d \in Consumer : Up[d] = Up[c]}
NearAdmitted == {c \in Consumer : \E d \in Neighbours(c) : Authorised(d)}
NearUnspoilt == {c \in Consumer : \A d \in Neighbours(c) : Flaw[d] = "none"}

LocalPolicy == INSTANCE AccessPolicy WITH
  Entitled <- NearAdmitted, Sound <- NearUnspoilt, Reliant <- {},
  pending <- PendingNames, holders <- Holders, requests <- Requests,
  arriving <- Arriving, stopped <- crashed

\* The code as it is keeps the promises edge by edge: a content reaches no
\* consumer but behind an edge that somebody authorised is attached to, and a
\* denial none behind an edge to which only sound consumers are attached.
ImplementsLocalPolicy == LocalPolicy!Spec

-----------------------------------------------------------------------------
\* What comments say of the code.

\* A producer's Data carries the tracker of the Interest (route-tracker.hpp).
TrackerIsCopied == \A m \in datas : m.from = Provider => m.pkt.trk # NoTracker

\* A denied request leaves its tag in the negative cache (edge-strategy.cpp),
\* and the simulation runs on.
DenialsAreHandled == ~crashed
=============================================================================
