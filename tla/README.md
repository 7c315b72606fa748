# A TLA+ model of tag-based access control for NDN

The repository is a simulation, in ns-3 with ndnSIM, of an access control
mechanism for named data networking: a producer issues *authentication tags*,
consumers attach them to their Interests, and the routers, not the producer
alone, decide who may receive a Data, because a Data may come from any content
store on the way or answer several Interests at once. This directory holds a
specification of the project's own code, the TLC runs that check it on small
networks, and TLAPS proofs of its main safety properties for all networks.

Paths below are relative to `src/`; `NFD/` stands for
`ns-3/src/ndnSIM/NFD/daemon/`, `ndn-cxx/` for `ns-3/src/ndnSIM/ndn-cxx/`,
`extensions/` for `scenario/extensions/`. The project's own logic is C++ in
these three places and in the scenario. Everything else in the tree, which is by
far the most of it, is ns-3, ndnSIM, waf and pybindgen as they come: simulator,
generated bindings and build tools, none of which is modelled.

## 1. The system

| component | state | operations | depends on |
|---|---|---|---|
| `TxQueue` (`NFD/fw/tx-queue.hpp`) | `m_queue`, `m_last_event`, `m_pending` | `sendInterest`, `sendData`, `receiveInterest`, `receiveData`, `delay`; `doNext` and four handlers run by the simulator | the simulator's event list; its handlers call faces, hence forwarders and applications, which call the queue again |
| `AuthCache` (`extensions/auth-cache.hpp`, `bloom_filter.hpp`) | bit table, count of insertions | `insert`, `contains` (which clears first), `getEffectiveFPP` | owned by a strategy |
| `RouteTracker` (`ndn-cxx/src/route-tracker.*`) | current network, three route hashes | `update`, `setCurrentNetwork`, encoding | carried by Interests and Data |
| `RouterStrategy`, `EdgeStrategy` (`extensions/*-strategy.cpp`) | a router cache; at an edge a positive and a negative cache | `filterOutgoingInterest`, `filterOutgoingData`, and the callbacks `toNack`, `toSatisfy`, `toPreserve`, `onDataDenied`, `onDataSatisfied`, `onDataPreserved` | called by the forwarder for every packet it is about to send |
| `Forwarder` (`NFD/fw/forwarder.cpp`) | PIT with in- and out-records, content store, Dead Nonce List, two timers an entry, route id | the incoming, outgoing, hit, miss, loop, unsolicited, reject, unsatisfied and finalize pipelines | the strategies, `Cs`, `TxQueue` |
| `Consumer` (`extensions/consumer.cpp`) | tag, `m_pending_auth`, pending requests, window, retransmission queue | `StartNextContent`, `FillWindow`, `SendNext`, `OnData`, `OnTimeout`, `RetX`, `CheckTimeouts` | `TxQueue`, its node's forwarder |
| `Producer` (`extensions/producer.cpp`) | configuration | `OnInterest`, `onAuthRequest`, `onDataRequest` | `TxQueue`, its node's forwarder and content store |
| packet format (`ndn-cxx/src/data.*`, `auth-tag.hpp`, `interest.hpp`) | fields of a packet | encode, decode | everything |
| scenario (`scenario/scenarios/auth-tag-simulation.cc`) | topology | builds nodes, links, strategies | everything |

How a request travels. A consumer's Interest carries a tag and a fresh tracker.
Every forwarder XORs its route id onto the hash of the current network. The
consumer's edge rewrites the network from ENTRY to INTERNET and compares the
ENTRY hash with the one in the tag; it looks the tag up in its caches and sets
a "validity probability". The producer's edge rewrites INTERNET to EXIT. The
producer checks the tag and answers with a copy of the tracker, as a Blob or as
a Nack. On the way back each forwarder XORs its id off again, so that a Data
whose three hashes equal those of a pending Interest is taken to answer that
Interest, and its verdict is kept; otherwise the router comes to a verdict of
its own on the tag of the Interest. The consumer's edge learns from the verdict
which tags are good and which are bad.

What is hard about it:

* the same Data serves consumers of different standing: aggregated in-records,
  content stores, retransmissions; each must get its own verdict;
* verdicts travel as *equality of XORs*, so whatever stamps a packet once more
  or once less changes who is judged;
* the caches forget at moments of their own, and answer wrongly sometimes;
* packets are lost, timers delete PIT entries under way, content is evicted;
* an exception in one strategy call drops the packet it was made for after the
  PIT and the content store have already changed;
* `TxQueue` handlers re-enter the queue they are run by.

The hazards found in the code are listed with their lines in `PROJECT.json`.

What makes each component correct:

* `TxQueue`: each request runs exactly once, in order, and in the end;
* `AuthCache`: no tag it keeps is missed; it clears before it answers;
* strategies, producer, forwarders together: content reaches none but
  authorised consumers, authorised ones are never denied, their Interests are
  never stopped, positive caches hold verified tags only;
* `RouteTracker`: routes unwind on the way back, and the network fields agree
  with where a packet is;
* `Forwarder`: no pending request is stranded without a timer or outlives its
  time, and what was sent upstream is recognised when it comes back;
* `Consumer`: the tag it holds fits the Interests it will send, its maps and
  window stay right through retransmissions and changes of content; and it does
  not wait for a tag it has no request out for, and gets through every content,
  which as the code is it does not always (section 6).

## 2. The modules

| module | what it is |
|---|---|
| `FifoServer` | abstract: a FIFO server (what `TxQueue` promises) |
| `TxQueue` | the transmit queue; `ImplementsServer` refines `FifoServer` |
| `TxQueueProofs` | theorems about `TxQueue` |
| `MCTxQueue` | instance for TLC |
| `TagMemory` | abstract: a memory that misses nothing it keeps (what an `AuthCache` promises) |
| `AuthCache` | the Bloom filter as a value: operators, no state |
| `TagCache` | one cache as a state machine; `ImplementsMemory` refines `TagMemory` |
| `TagCacheProofs` | theorems about `TagCache` |
| `MCTagCache` | instance for TLC |
| `RouteTracker` | route trackers as values |
| `AccessStrategy` | packets, the decisions of the strategies and of the producer, the encoding of a Data, as operators |
| `AccessPolicy` | abstract: what the access control promises to consumers, with no routers, caches or stores |
| `AccessNetwork` | the network: consumers, routers, producer, links; its actions apply the operators of `AccessStrategy`; `ImplementsPolicy` refines `AccessPolicy`, `ImplementsLocalPolicy` an instance of it that tells edges apart, not consumers |
| `AccessNetworkProofs` | theorems about `AccessNetwork`: types and access control |
| `AccessRoutesProofs` | more of them: routes, networks, what sound consumers get |
| `AuthRequestProofs` | one more: consumers that wait for a tag |
| `AccessPolicyProofs` | what holds of each edge as the code is, and the refinements of `AccessPolicy` |
| `MCAccessNetwork` | topologies, flaws and bounds for TLC |
| `Consumer` | the client application in full, with tags that expire |
| `ConsumerProofs` | theorems about `Consumer` |
| `MCConsumer` | contents and configurations for TLC |
| `PendingTable` | abstract: a table of pending requests (what a forwarder promises) |
| `Forwarder` | the pipelines of one forwarder in full, with time; `ImplementsTable` refines `PendingTable` |
| `ForwarderProofs` | theorems about `Forwarder` |
| `MCForwarder` | instance for TLC |

Operators whose comment says "Mutant" (`DoNextFromBack`, `LearnedDenied`, ...)
are plausible mistakes of the code; each property is known to be violated when
one of them takes the place of the definition it is a variant of.

### TxQueue

`queue`, `pending` and `last` are `m_queue`, `m_pending` and `m_last_event`
(`None` once its event has run: the simulator counts the event it is running as
expired, `default-simulator-impl.cc:387`). `retries` counts the events of the
1 ms branch, to which no variable refers. `added` and `executed` are history.
`DoNext` is an operator of the queue it finds and of what runs, because the code
calls it from `addEvent`, from each handler and as a handler itself. A handler
that calls `addEvent` before its own `doNext`, as when a receive event makes the
forwarder send, is the action `AddEvent` taken before `DoPacket`: in both,
`m_pending` is set, so that the request is only queued.

### AuthCache and TagCache

A filter is the set of its bits and the count of insertions. `effective_fpp`
depends on that count alone and grows with it, so "the probability has passed
`m_max_fpp`" is "more than `Limit` insertions". `Hash` gives the bits of a tag;
nothing is assumed of it but its range, so that every collision is allowed.

### RouteTracker

Route ids are 64-bit random numbers and a hash is an XOR of them. It is
represented by the set of ids that occur an odd number of times. So the model
has every cancellation, and leaves out only that two different sets have the
same XOR by accident.

### AccessStrategy

Packets are records with the fields the mechanism tells apart. A tag has the
route of the request it was issued for, the standing of its key locator, and
whether its signature is good; `owner` says whose it is. A Data has a kind
(`Blob`, `Nack`, `Auth`), a tracker that may be missing, and the NoReCacheFlag.
`Up` gives each node its next hop. `TopologyAssumption` says where edges are:
consumers hang on edges that are not the producer's
(`auth-tag-simulation.cc:587-616`); `AcyclicAssumption` that routes, being
shortest paths (`:193`), do not close. Only `AuthRequestProofs`, and what rests on it, needs the latter.

* `FilterOutgoingInterest`, `EnterNetwork`: `EdgeStrategy::filterOutgoingInterest`
  (a router's does nothing).
* `Judged`: the Data as `filterOutgoingData` leaves it, edge part and router
  part; `Accepts` the verdict; `Crashes` and `Throws` the two ways in which
  it does not return.
* `Mangled`, `Encodes`, `Decoded`: the octet `Data::wireEncode` writes after the
  flag, and what the decoder makes of it.
* `AuthReply`, `ContentReply`, `ProducerCrashes`: the producer.

Two branches of the code do not appear, because no execution takes them: the
router's own cache is consulted only if `rand() < probability` fails for a
probability above 0, but that probability is then close to 2^32 and `rand()` is
below 2^31; and the checks of expiry, prefix and level pass for each tag a
consumer attaches, because `HasAuth` has checked the first two, tags do not
expire as the code is (see `old_tag` in section 6), and the levels are 3 and 1.

`Defects` names four faults of the code, so that the mechanism can be examined
with and without each. The code as it is has all four:

| defect | where | effect |
|---|---|---|
| `empty-block` | `edge-strategy.cpp:213,226` | `setContent( ndn::Block() )` reads through a null buffer: a Nack at an edge ends the process |
| `stray-byte` | `ndn-cxx/src/data.cpp:91` | a Data with the NoReCacheFlag loses its tracker, or cannot be decoded |
| `no-keyloc` | `consumer.cpp:156` | the bad signature replaces the SignatureInfo, and with it the KeyLocator; reading it throws |
| `reused-interest` | `consumer.cpp:407` | a retransmission hands over the pending Interest itself, which is stamped again |

### AccessNetwork

One module composes everything: its variables are the packets in flight, the
PIT, out-records and content store of each router, the caches of each edge, and
the tag, pending requests and `m_pending_auth` of each consumer. The nodes of
consumers and of the producer are each one atomic whole (application, forwarder,
transmit queue): nothing in them depends on the order of their internal events
beyond the FIFO order that `TxQueue` is shown to keep.

* A router's in-records are kept per Interest, not per face
  (`pit-entry.cpp:132`), oldest first; Data serves them newest first, which
  matters when an exception ends the loop.
* `Serve` is the loop over the pending downstreams together with the strategy
  callbacks: the Data sent, the tags learned, the fault or exception that stops it.
* Time is left out here; `Forwarder` has it. `ForwardInterest` may find the out-record expired or not,
  `ReceiveData` may find the oldest in-records expired, `Erase` is either timer.
* A packet in flight may be delivered in any order or be lost (`Lose`, a full
  device queue). A retransmission that the consumer's own forwarder drops as
  a duplicate has still been stamped: it is `Retransmit` followed by `Lose`.
* The Dead Nonce List is left out here: it only drops more Interests, as `Lose`
  does. `Forwarder` has it.
* The consumers are reduced to what the network can tell: they ask for a tag or
  a content whenever they may, and retransmit what is pending whenever they
  like. `Consumer` has their window, timers and choice of contents.
* `crashed` means that the process has ended; no action is enabled after it.

`AccessPolicy` is what remains when routers, caches, stores, tags and trackers are
taken away: consumers that ask and wait, requests the network has, and answers
on their way. An answer is *solicited* if its consumer's request is there, and
*permitted* if a tag comes only for a request for one, and such a request of a
*reliant* consumer brings nothing else, content comes only to the entitled, a
denial only to those whose tags are not sound. The network may lose anything,
and stops only if somebody's tag is not sound. The refinement mapping takes for a
request one that is on the link from its consumer or in the PIT of its edge
(`Requests`), and for an answer the Data on the link to the consumer (`Arriving`);
all that happens between edge and producer maps to `Deliver`.

The policy has two instances, with the same mapping. In `Policy` the entitled are
those authorised, the sound those whose configuration spoils nothing, and all are
reliant; the network implements it if retransmissions leave the Interest pending
alone. In `LocalPolicy` a consumer is entitled if somebody behind its edge is
authorised (`NearAdmitted`), sound if all behind it are (`NearUnspoilt`), and
nobody is reliant: that is what remains of the promises with `reused-interest`,
since a retransmitted Interest can be taken for a neighbour's, but not for that
of a consumer behind another edge.

### Consumer

`app` holds the fields of the application: `content` and `segno` are
`m_content` and `m_segno`, `starts` counts the scheduled events of
`StartNextContent`, `seqs` and `pending` are the keys of `m_seqs` and the
entries of `m_pending`, `auth` and `pendingAuth` are `m_auth` and
`m_pending_auth`. `flying` is the network: Interests that may be lost, or
answered at any later time, or answered after they were retransmitted.
`altered` is history: the authentication requests that `RetX` has handed over
once more, and thereby altered (`reused-interest` above). From then on a store
may hold an answer with other hashes than a request that reaches it, and the
router makes a Blob of it (`router-strategy.cpp:47-70`, `203-206`): that Data
settles the request and brings no tag (`consumer.cpp:116-126`). So `Answer` lets
such a request, and no other, be answered by a Blob; that no other is, is what
`WaitingHasRequest` and `ImplementsPolicy` say of the network.

`FillWindow` ends every handler, as in the code, so it is an operator of the
state the handler has reached and of the Interests under way. It runs `SendNext`
to the end of its loop in one step: `NewNames(h, n)` are the segments asked for
until `m_segno` is `n`, and `Full` is where the loop stops. Handlers:
`StartNextContent`; `CheckTimeouts(E)` for any set `E` of late entries (OnTimeout
and RetX of each); `OnSatisfied`, `OnDenied` and `OnUnrequested` for `OnData`.
`m_retx_queue` is empty between events, since `FillWindow` drains it.

A tag has a prefix, the day of its issue and its last day. `SetSignature` is
`setSignature`, which replaces the SignatureInfo and the validity period in it;
`config.periodLost = FALSE` is the code with that repaired, and
`config.reused = FALSE` the code with `RetX` repaired. `config.answered` says that
the network answers what it is sent time and again, see Fairness in section 3.
`config.options` are the `enable_*` settings. Moments of timeouts and of the gap between contents are
free, so that round-trip estimates and random gaps need no model.

### Forwarder

One node. `pit[x]` is the entry for a name: the time each in-record has left
(`ins`), the Interest that came first (`oldest`, which is what
`compare_pickInterest` picks), the out-record, the two timers and the flag the
straggler timer hands on. `dead` is the Dead Nonce List. `asked` are Interests
upstream, or their Data on the way back. `sent` and `recent` are history: the
packets the last step sent, and what was sent upstream lately and not answered.

`IncomingInterest` is one of loop, hit, aggregation, forwarding or rejection, by
the conditions of `onIncomingInterest`, `onContentStoreMiss`,
`BestRouteStrategy` and the filter; each action runs the pipelines to their end,
with the timers they cancel and set. `IncomingData` serves any subset of the
pending downstreams: the strategy may deny some, and when it throws, the rest
get nothing. `InterestUnsatisfied` and `StragglerTimer` are the two handlers,
both ending in `Finalize`. `Tick` lets time pass, but not past a due handler.

## 3. The runs

| run | configuration | shows | states |
|---|---|---|---|
| `tx_queue` | 2 packets, 1 delay, 5 requests | wake-ups, single event, order, service in the end, refinement of `FifoServer` | 2 005 |
| `tag_cache` | 4 tags on 5 bits, limit 4 | bits, tolerance, refinement of `TagMemory` | 418 |
| `access_shared` | both consumers at one edge, c2 forges its signature, no defects; its tags have the bits of c1's and one more | access control as designed, with false positives of both caches; refinement of `AccessPolicy` | 308 379 |
| `access_tags` | two sound consumers without tags, three defects | tags fit requests, no lost wait, refinement of `AccessPolicy` | 885 013 |
| `access_faults` | edges of their own, c2 forges, all defects | nothing gets through to the forger, by faults, exceptions or altered retransmissions; refinement of `LocalPolicy` | 143 994 |
| `access_sound` | two sound consumers at one edge, all defects | no denial, no fault; refinement of `LocalPolicy` | 1 038 945 |
| `consumer` | eight configurations, four contents of two producers: five of the code as it is, three over a network that answers | maps, window, scheduling, tags; over the network that answers, every content asked for | 128 807 |
| `forwarder` | one name, 3 nonces, lifetimes 1 and 2 | timers, expiry, nonces known, requests end, refinement of `PendingTable` | 61 723 |
| `tracker_copied` | all defects | violated, see section 6 | |
| `denials` | all defects | violated | |
| `verdict_preserved` | all defects | violated | |
| `old_tag` | the consumer as it is, over two days | violated | |

Bounds and why they are enough. Five requests fill the queue behind a request in
service and a delay, and let both chains of events meet. Four tags make a false
positive by two others, and a limit of 4 is passed with the fifth insertion, so
that the clear happens. The network has a core router between two edges, the
smallest on which INTERNET hashes differ from ENTRY and EXIT ones; two consumers
and one or two contents give aggregation, hits on another's Data and eviction
(content stores hold one Data). `MaxFlight` 2 lets packets of both consumers
pass each other, or an Interest pass its own retransmission; the Interests per
consumer (`Twice`: 2 and 1; `Thrice`: 3 and 2; `Four`: 4 and 2) allow a request
for the tag, one for content and a retransmission. A filter limit of 2 makes the
caches clear. In `access_shared` the tags of c2 have the bit of c1's and one more
(`Overlap`), so that a negative cache that knows c2's takes c1's for denied, which
the edge must then verify, while a positive one that knows c1's does not know
c2's. With `empty-block` a denial ends the simulation at the next edge; so the runs with
all defects show of denials that none is made for sound consumers, and what becomes
of one that travels is shown by `access_shared` and, for the code without that
defect but with the others, by the theorems of section 4. Contents are symmetric where there are two; no liveness property
is checked with symmetry. Deadlock is not checked where the bounds on requests,
or a crash, stop the system.

`Consumer`: contents of 2, 1, 1 and 0 segments, the third by another producer, so
that contents overlap and a tag for one does not serve the other, and the consumer
stops at the last; windows of 1 to
2, so that the window grows, shrinks under what is pending, and fills within a
content and at its end; two days, so that a tag expires once. `AllConfigs` has of
the code as it is a sound consumer of one producer, one of two, one with
`enable_expired_auth`, one with `enable_no_auth`, and one with the content of size
0; and over a network that answers, with `RetX` repaired, a sound consumer of two
producers, one that forges, and one whose tags do expire. In the former a
retransmitted request for a tag may bring a Blob, after which the consumer waits for
ever; in the latter it always gets through.
It stops at the content of size 0, when it waits for ever, and when
`enable_no_auth` ends the simulation, so deadlock is not checked.
`Forwarder`: entries of different names do
not touch each other (the only shared bound, the capacity of the Dead Nonce List,
is left out), so one name is enough; with three nonces one Interest can be
aggregated behind another while a third was sent before; lifetimes 1 and 2, a
straggler timer of 1 and a dead time of 4 make all orders of expiry possible
and let a nonce be forgotten. Deadlock is checked.

The properties, by run:

* **NoLostWakeup, OneOutstandingEvent, ExecutedInOrder, EveryRequestRuns,
  ImplementsServer**: no request is stranded; the untracked retry is dead code;
  order; service.
* **BitsAreOfKeptTags, AnswersWithinTolerance, ImplementsMemory**.
* **OnlyAuthorisedReceive**: content reaches only consumers whose tag names the
  producer's key and is signed by it (or cannot be told from one that is, by a
  Bloom filter, see `Authorised`). A consumer whose tag was issued for another
  route is *not* excluded: an edge compares routes only for Interests it sends
  on, so such a consumer is served when its Interest is aggregated or hits the
  edge's content store.
* **SoundNeverDenied**: no stored or aggregated denial of another reaches a
  consumer with a sound tag.
* **SoundIsForwarded**: nor is its Interest stopped while it is the one an
  entry is represented by. (Behind another's rejected Interest, which stays
  in the entry for 100 ms, it is: the code picks the oldest in-record.)
* **OnlyVerifiedAreCached**: an edge that learns from the verdicts of others
  never vouches for a tag that nobody verified.
* **RoutesUnwind, NetworksAgree**: what the assertions in the strategies and the
  producer, and the comparison of hashes, rely on.
* **TagFitsRequests, WaitingHasRequest**: the consumer's side; both hold only
  while a retransmission does not alter the pending Interest.
* **SoundRunsOn**: the faults of the code are reached through denials and spoilt
  tags alone, and no denial is made unless somebody's tags are spoilt: an edge may
  drop an altered Interest of a sound consumer, but nobody denies it. It does not
  say that a sound request is answered: what `stray-byte` costs is shown by
  `tracker_copied` alone.
* **ImplementsPolicy**: the promises above in one, and two that no invariant
  states: no consumer is brought what it has not asked for, by whichever store, timer
  or other consumer's request; and a request for a tag is answered by a tag.
* **ImplementsLocalPolicy**: what is left of that when retransmissions do alter the
  pending Interest: no content reaches an edge at which nobody is authorised, no
  denial one at which all are sound, and nobody what it has not asked for.
* **MapsAgree, WindowBound, NextContentOnce**: the two maps of the consumer, whose
  lookups and iterators rely on each other; its window; and the next content
  scheduled once, not twice and not never, by a `SendNext` that may run inside
  any handler.
* **AwaitsFittingTag**: the only tag a consumer asks for is the one it waits for,
  which is for the content it is at, although contents change while requests are
  pending; and it has that request out, unless a retransmission has altered it
  (`altered`). The condition is the one on `WaitingHasRequest`, and as the code is
  it matters: see section 6.
* **NoneAbandoned**: `RetX` gives up no request. This rests on tags that do not
  expire; **RepairedSendsValidTags** says what holds if they do.
* **EveryContentIsAskedFor**: the consumer gets through every content, whichever
  Interests are lost or denied, over a network that answers
  (`config.answered`) and with `RetX` repaired (`~config.reused`). It fails of the
  code as it is, for two reasons that have nothing to do with loss: section 6.
* **OneTimer, TimerIsLastExpiry**: the two timers of an entry, which five
  handlers cancel and set.
* **SentIsKnown**: PIT and Dead Nonce List together know what was sent upstream.
* **RequestsEnd**: each in-record goes, though others can put that off.
* **ImplementsTable**: data only for requests that have not expired; all requests
  for a name end together, by an answer, a refusal, or the last expiry.

**Fairness.**
* `TxQueue`: weak fairness of `DoPacket` and of `RunDoNext`, because the
  simulator runs every event that is scheduled in it and these are those events.
  Nothing obliges clients to make requests.
* `Forwarder`: weak fairness of `Tick`, `InterestUnsatisfied` and `StragglerTimer`:
  the clock goes on and the scheduler runs each timer's event. No Interest and no
  Data is ever obliged to come.
* `Consumer`: weak fairness of `StartNextContent` and, for each name, of a
  timeout of its entry: `CheckTimeouts` reschedules itself, so that an entry
  which stays pending is late again and again. Strong fairness of the answer to
  each name is assumed only if `config.answered`: links lose packets when their
  queues are full, but what is sent time and again is answered some time, if
  nothing but loss goes wrong. The network as it is does not justify that: once an
  edge vouches for a tag, contents that the producer sends never arrive
  (`tracker_copied`), and a denial ends the simulation (`denials`). So no
  configuration of the code as it is has it.
* `AccessNetwork` has no fairness and no liveness property: its packets may be
  lost for ever.

## 4. What is proved

All theorems are checked by TLAPS and hold for all values of the constants that
satisfy the named assumptions.

* `TxQueueProofs`: `TypeCorrect`, `WakeupNeverLost`, `RetryNeverTaken`,
  `ExecutionInOrder`, `RefinesServer`. The inductive invariant is the conjunction
  of the four invariants: order is preserved because the retry branch is dead,
  which is so because `m_pending` is set exactly while an event is outstanding.
* `TagCacheProofs`: `TypeCorrect`, `BitsExplained`, `ToleranceKept`,
  `RefinesMemory`. Assumes only that `Hash` yields bits (`HashAssumption`).
* `AccessNetworkProofs`: `TypeCorrect`; `AccessControl` and `VerifiedTagsCached`
  under the hypothesis `"reused-interest" \notin Defects`, without which TLC
  refutes the first (`verdict_preserved`). They hold for every tree of
  edges and core routers, all consumers and flaws, every hash function, and
  with or without each of the other three defects.

The argument of `AccessControl`. `OnlyAuthorisedReceive` is not inductive: it
speaks of Data about to reach a consumer, and the verdict is usually reached hops
before. The invariant `IInv` says of all packets, wherever they are: an Interest
is *honest* (its ENTRY hash contains its own consumer and no other, its tag is that consumer's,
`vouched` only if the tag's bits are good bits), a content Blob in flight or in a
store is *rightful* (the consumer that its ENTRY hash names is authorised, and its tag is good unless
the NoReCacheFlag keeps edges from learning it),
and the positive caches hold good bits only. A verdict that is preserved is then
right because equal hashes name the same consumer; a new one because `Accepts`
looked at a tag, or at a bit that stands for tags someone looked at. Learning
and vouching depend on each other, so they are in one invariant.
TLC had checked `IInv` on the configurations of the runs before it was proved, and
`EdgeInv`, below, with all defects in force.

* `AccessRoutesProofs`: `FieldsMatchLinks` (`NetworksAgree`) with no condition;
  `RoutesReturn` (`RoutesUnwind`), `TagsBearTheRoute` (`TagFitsRequests`),
  `NeverDenied` and `AlwaysForwarded` under `"reused-interest" \notin Defects`. The invariant `Routed`, on top of `IInv`,
  says that packets go up and down the links of `Up`, and that the link a packet
  is on tells its network (`UpNet`); so only a consumer and its edge ever stamp
  an ENTRY hash, which from there on is `Home` of its consumer in the Interest,
  in the tag granted for it, and in each Data given to it. Tags of sound consumers
  pass every check (`Fit`), and no denial bears their hash (`Merited`), so
  that none is preserved for them.
* `AuthRequestProofs`: `WaitersHaveRequests` (`WaitingHasRequest`), if
  `"reused-interest" \notin Defects`. A consumer stops waiting when a Data of type Auth comes, but any Data
  settles its request; so no router may make a Blob of the answer, which it
  does to each whose hashes it does not find in the Interest. Requests for one
  consumer's tag all take the chain of next hops from it, and routes are
  acyclic; so at each node all of them, and their answers, have the hashes of the
  part of the chain below (`Span`), and every router preserves the answer.
* `AccessPolicyProofs`, first part: `RunsOnWhenSound` (`SoundRunsOn`) with no condition on the
  defects. It does not follow from `Routed`, whose ENTRY hashes are those of
  homes only while `reused-interest` is out of force. A retransmission takes the consumer's id off the
  hash, or puts it back, and so tells nothing of consumers; but no consumer puts the
  id of a router on it. So the routers in the ENTRY hash of an Interest that has
  passed its edge are that edge alone (`Behind`), a verdict that is preserved
  stays behind the edge it was made for (`Near`), and what matters of it is
  whether somebody there is authorised (`Admits`) or is not sound (`Denies`).
  The invariant `EdgeInv` has that of all Data, stored ones included; of Interests,
  that an edge vouches only for what it may admit (`Telling`), which leans on what it
  has learned (`Learns`), which leans on the Data; and that only a spoilt tag lacks
  the producer's key locator. A denial then takes a consumer that is not sound.
* `AccessPolicyProofs`, second part: `NetworkKeepsPolicy` (all of `ImplementsPolicy`, as
  `AccessPolicy` has no fairness), on the same condition, and
  `NetworkKeepsLocalPolicy` (`ImplementsLocalPolicy`) on none. Each action of a consumer is one of
  the policy's, each other action a `Deliver`. What an answer may be is known from
  `IInv`, `Routed` and the invariant of `AuthRequestProofs`, or from `EdgeInv`; that it was asked for,
  because Data goes to the sender of an in-record, and those an edge has of
  consumers are of Interests they sent (`ServeSolicited`, `RecordAdded`).
* `ConsumerProofs`: `TypeCorrect`, `MapsInAgreement`, `WindowKept`,
  `ScheduledOnce`, `FittingTagAwaited`, `RequestsLast` (`NoneAbandoned`) and the
  action property `ValidTagsSent` (`RepairedSendsValidTags`), for all contents,
  sizes, windows and settings. `FittingTagAwaited` has no hypothesis on `RetX`;
  its condition is in the property, and `RepairedTagAsked` draws the conclusion
  that with `RetX` repaired nothing is awaited but what is pending. `FillWindow` ends each handler, so the
  invariant (`Good`) is stated of a state of the application, and it is shown
  that what a handler does first, and then `FillWindow`, preserve it. Its parts
  lean on each other: no content starts while a tag is awaited (`Awaits`)
  because none is scheduled then (`Once`), and the first is scheduled once
  because no answer can come before it (`Idle`). That what is awaited is asked for,
  or was altered, is `Asked`, which every answer preserves: an Auth answer ends the
  wait, a Blob settles a segment or a request that was altered. The two theorems on tags add
  what they need of the tag held: that it never expires as the code is
  (`Lasting`), and that with the defect repaired it expires with the day of its
  issue (`Timely`).
* `ForwarderProofs`: `TypeCorrect`, `TimersRight`, `ExpiryRight`, `SentStaysKnown`,
  `RefinesTable`, for all names, nonces, lifetimes and delays. The invariant says
  of each entry that its out-record has the nonce of the oldest in-record
  (`RecordsAgree`), that one timer runs (`OneTimerOf`) and until when
  (`LastExpiryOf`), and of nonces that each is in the out-record or dead for long
  enough (`HandedOver`). `SentStaysKnown` therefore depends on the *oldest*
  Interest being the one that is sent: a second forwarding sends the same
  nonce again and overwrites none. `RefinesTable` is all of `ImplementsTable`,
  as `PendingTable` has no fairness.

**Only model-checked:** the liveness properties `EveryRequestRuns`,
`EveryContentIsAskedFor` and `RequestsEnd`, and the fairness of
`ImplementsServer` (liveness is out of the prover's reach).

## 5. What is not modelled

* Tracers, configuration scripts, `extensions-old`, and the unmodified parts of
  ns-3, ndnSIM, NFD and ndn-cxx, with the Python of the bindings and of the build:
  no state of theirs bears on who receives what.
* Several next hops for a name, and routes to several producers through one
  `AccessNetwork`; `canForwardTo` finds the one next hop usable. `Consumer` has
  several producers.
* The capacity of the Dead Nonce List, which NFD adapts by marks: in
  `Forwarder` it keeps each nonce for a fixed time. As `MustBeFresh` is never set,
  only nonces of unsatisfied entries enter it.
* Delays: the processing and signature delays only postpone a packet.
* In `AccessNetwork`, tags that expire, prefixes, and round-trip times.
* In `Consumer`, what the network does to an Interest (that is
  `AccessNetwork`).
* Accidental equality of XORs of different sets of ids, of nonces, or of the
  64-bit hashes in which the Dead Nonce List keeps names and nonces.
* Two packets at the same instant arrive one after the other.

## 6. Where the code and its comments disagree

* `route-tracker.hpp:18` expects the data response to carry the Interest's
  tracker; `data.cpp:91` makes it unreadable on each Data that has the
  NoReCacheFlag, that is for every tag in an edge's positive cache
  (`tracker_copied`). Once an edge vouches for a consumer's tag, no content that
  the producer sends for its Interests gets past the producer's edge.
* `edge-strategy.cpp:212` and `259` describe how denials are handled; line 213
  ends the process first, and the negative cache stays empty for ever (`denials`).
* `router-strategy.cpp:39` takes equal hashes for "retrieved by this Interest";
  a retransmitted Interest is stamped twice by its own node, loses its consumer's
  id from the hash, and shares the hash of any other such consumer at the
  same edge (`verdict_preserved`).
* `consumer.hpp:22-27` says that for every segment the consumer ensures that its
  tag is valid. The producer sets the validity period and signs afterwards
  (`producer.cpp:284-296`); signing replaces the SignatureInfo that held the
  period, and a tag without one never expires (`auth-tag.hpp:148-157`), so a tag
  is used after the day it was issued for (`old_tag`).

Not runs, but seen on the way:

* `forwarder.cpp:195` says the outgoing Interest picked is the last incoming
  one; line 214 picks the one renewed least recently, so that a second
  forwarding repeats the old nonce, and looks like a loop to the next node.
* `forwarder.cpp:93` inserts the entry before it looks for a duplicate nonce;
  the entry of a loop has no record and no timer, and stays.
* `forwarder.cpp:411`: when the strategy throws for one downstream, those after
  it get nothing, although the Data has come and is stored.
* `consumer.cpp:407` retransmits with the same nonce, which the forwarders drop as
  a loop while they know it.
* `consumer.cpp:407` also retransmits requests for a tag, whose hashes are then not
  those of an answer that a store or a router on the way has. Authentication data
  being public, that router sends it on as a Blob (`router-strategy.cpp:61-70`,
  `203-206`), which settles the request without `OnReceiveAuth`
  (`consumer.cpp:116-126`): `m_pending_auth` stays set with nothing pending, and
  the consumer asks for nothing any more. This is why `WaitingHasRequest`,
  `AwaitsFittingTag` and `EveryContentIsAskedFor` have their conditions.
* With `enable_expired_auth` the consumer only ever asks for tags, where
  `consumer.hpp:93-97` wants it to use an expired one; with `enable_no_auth`,
  `SendNext` dereferences a null tag (`consumer.cpp:338`).
* The next content is scheduled when the last segment has been asked for
  (`consumer.cpp:375`), not when the content has been retrieved
  (`consumer.hpp:11-15`).
* Were tags to expire, a denied request with an expired tag would be given up by
  `RetX` and stay in the window (`consumer.cpp:400`). As it is, the branches on
  expired tags are not taken by consumers whose options are sound.
* `AuthCache` counts an insertion of a tag it already has; when the null block is
  repaired, an edge empties Nacks also on the way inward, so that a store further
  on may turn the denial into a Blob without content; `route-tracker.hpp:10`
  speaks of incoming link ids where forwarders have one id each;
  `consumer.hpp:12` speaks of an EoC packet that nothing sends.

## 7. Plan

*Done*: the transmit queue, the authentication cache, the access control over the
network, the consumer and the forwarder in full, and the theorems of section 4,
which state every safety property of the passing runs, the refinements of the
access policy included. *Left*:

1. The Dead Nonce List by capacity; several next hops and producers.
2. One abstract client, of which both `Consumer` and the consumers of
   `AccessNetwork` are refinements.
3. The comparison of `rand()` with a 32-bit probability (`router-strategy.cpp:125`).
