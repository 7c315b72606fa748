----------------------------- MODULE Forwarder ------------------------------
(***************************************************************************)
(* The pipelines of nfd::Forwarder (NFD/daemon/fw/forwarder.cpp) at one    *)
(* node, with the records of its Pending Interest Table, the two timers of *)
(* an entry and the Dead Nonce List, under BestRouteStrategy and the       *)
(* filters that the project added to it.                                   *)
(*                                                                         *)
(* The node has one route to each name.  In-records are kept for each      *)
(* Interest, whatever its face, so that faces play no part.  Time passes   *)
(* in ticks; a moment at which a timer is due does not pass before its     *)
(* handler has run.                                                        *)
(***************************************************************************)
EXTENDS Integers

CONSTANTS
  Name,
  Nonce,
  Lifetime,    \* the lifetimes of Interests
  Straggle,    \* the straggler timer
  DeadTime,    \* how long the Dead Nonce List keeps a nonce
  None         \* no entry, no record, or a timer that is not set

ASSUME LifetimeAssumption ==
  /\ Lifetime \subseteq Nat \ {0}
  /\ \E most \in Lifetime : \A life \in Lifetime : life <= most
ASSUME TimeAssumption == Straggle \in Nat /\ DeadTime \in Nat
\* The time a record has left is 0 when it expires now, and then Over.
Over == -1
Longest == CHOOSE l \in Lifetime : \A life \in Lifetime : life <= l
Left == Over..Longest

\* An entry of the PIT: for the nonce of each in-record the time it has left,
\* the Interest whose in-record came first, the out-record, and the timers.
\* `satisfied' is what the straggler timer hands to onInterestFinalize.
InRecords == UNION {[N -> Left] : N \in SUBSET Nonce}
OldestInterest == [nonce : Nonce, life : Lifetime]
OutRecord == [nonce : Nonce, left : Left]

Entry ==
  [ins : InRecords, oldest : OldestInterest \cup {None}, out : OutRecord \cup {None},
   unsatisfy : 0..Longest \cup {None}, straggler : 0..Straggle \cup {None},
   satisfied : BOOLEAN]

ASSUME NoneAssumption == None \notin Int \cup OldestInterest \cup OutRecord \cup Entry

VARIABLES
  pit,     \* for each name its entry
  dead,    \* for each name and nonce the time the Dead Nonce List keeps it
  store,   \* names in the content store
  asked,   \* names and nonces of Interests under way upstream, or their Data
  sent,    \* history: what the last step sent
  recent   \* history: for each name and nonce sent upstream, and not
           \* answered since, what is left of DeadTime from then on

vars == <<pit, dead, store, asked, sent, recent>>

NewEntry == [ins |-> <<>>, oldest |-> None, out |-> None, unsatisfy |-> None,
             straggler |-> None, satisfied |-> FALSE]

Pairs == Name \X Nonce

InterestFor(x, n) == [kind |-> "Interest", name |-> x, nonce |-> n]
DataTo(x, n)      == [kind |-> "Data", name |-> x, nonce |-> n]

Init ==
  /\ pit = [x \in Name |-> None]
  /\ dead = [p \in Pairs |-> 0]
  /\ store = {}
  /\ asked = {}
  /\ sent = {}
  /\ recent = [p \in Pairs |-> 0]

-----------------------------------------------------------------------------
\* Entries (NFD/daemon/table/pit-entry.cpp) and their timers.

Pit(x) == IF pit[x] = None THEN NewEntry ELSE pit[x]

\* findNonce, which also finds records that have expired.
HasNonce(e, n) ==
  \/ n \in DOMAIN e.ins
  \/ e.out # None /\ e.out.nonce = n

HasUnexpiredOutRecord(e) == e.out # None /\ e.out.left >= 0

\* Mutant: the Interest to be sent is the last one, as the comment on
\* compare_pickInterest has it.
InsertInRecordAsPicked(e, n, life) ==
  [e EXCEPT !.ins = [m \in DOMAIN @ \cup {n} |-> IF m = n THEN life ELSE @[m]],
            !.oldest = [nonce |-> n, life |-> life]]

InsertInRecord(e, n, life) ==
  [e EXCEPT !.ins = [m \in DOMAIN @ \cup {n} |-> IF m = n THEN life ELSE @[m]],
            !.oldest = IF DOMAIN e.ins = {} THEN [nonce |-> n, life |-> life] ELSE @]

\* Mutant: a straggler timer goes on running.
CancelTimersUnsatisfyOnly(e) == [e EXCEPT !.unsatisfy = None]

CancelTimers(e) == [e EXCEPT !.unsatisfy = None, !.straggler = None]

\* Mutant: the timer runs for the lifetime of the Interest that has come.
SetUnsatisfyTimerAnew(e, life) == [e EXCEPT !.unsatisfy = life]

\* The unsatisfy timer runs until the last in-record expires, life being the
\* lifetime of the Interest that has just come.
SetUnsatisfyTimer(e, life) ==
  [e EXCEPT !.unsatisfy =
     CHOOSE t \in {e.ins[n] : n \in DOMAIN e.ins} :
       \A n \in DOMAIN e.ins : e.ins[n] <= t]

SetStragglerTimer(e, satisfied) ==
  [e EXCEPT !.straggler = Straggle, !.satisfied = satisfied]

-----------------------------------------------------------------------------
\* Interests.

\* Mutant: nonces of pending Interests are taken for new ones.
SeenDeadOnly(x, n) == dead[<<x, n>>] > 0

Seen(x, n) == HasNonce(Pit(x), n) \/ dead[<<x, n>>] > 0

\* onInterestLoop.  The PIT has an entry for the name by then.
InterestLoop(x, n) ==
  /\ Seen(x, n)
  /\ pit' = [pit EXCEPT ![x] = Pit(x)]
  /\ sent' = {}
  /\ UNCHANGED <<dead, store, asked, recent>>

\* onContentStoreHit: the strategy lets the Data pass or not.
ContentStoreHit(x, n) ==
  /\ ~Seen(x, n)
  /\ DOMAIN Pit(x).ins = {} /\ x \in store
  /\ pit' = [pit EXCEPT ![x] = SetStragglerTimer(CancelTimers(Pit(x)), TRUE)]
  /\ sent' \in SUBSET {DataTo(x, n)}
  /\ UNCHANGED <<dead, store, asked, recent>>

\* onContentStoreMiss up to the strategy: the entry with its new in-record.
Missed(x, n, life) ==
  SetUnsatisfyTimer(InsertInRecord(CancelTimers(Pit(x)), n, life), life)

Misses(x, n) ==
  /\ ~Seen(x, n)
  /\ DOMAIN Pit(x).ins # {} \/ x \notin store

\* BestRouteStrategy forwards nothing while the out-record has not expired.
AggregateInterest(x, n, life) ==
  /\ Misses(x, n)
  /\ HasUnexpiredOutRecord(Pit(x))
  /\ pit' = [pit EXCEPT ![x] = Missed(x, n, life)]
  /\ sent' = {}
  /\ UNCHANGED <<dead, store, asked, recent>>

\* onOutgoingInterest: the Interest whose in-record is the oldest is sent.
ForwardInterest(x, n, life) ==
  /\ Misses(x, n)
  /\ ~HasUnexpiredOutRecord(Pit(x))
  /\ LET e == Missed(x, n, life)
         o == e.oldest
     IN  /\ pit' = [pit EXCEPT ![x] =
                      [e EXCEPT !.out = [nonce |-> o.nonce, left |-> o.life]]]
         /\ sent' = {InterestFor(x, o.nonce)}
         /\ recent' = [recent EXCEPT ![<<x, o.nonce>>] = DeadTime]
  /\ asked' = asked \cup {<<x, Missed(x, n, life).oldest.nonce>>}
  /\ UNCHANGED <<dead, store>>

\* onInterestReject, as the filter of the strategy refuses that Interest.
RejectInterest(x, n, life) ==
  /\ Misses(x, n)
  /\ ~HasUnexpiredOutRecord(Pit(x))
  /\ pit' = [pit EXCEPT ![x] =
               SetStragglerTimer(CancelTimers(Missed(x, n, life)), FALSE)]
  /\ sent' = {}
  /\ UNCHANGED <<dead, store, asked, recent>>

IncomingInterest(x, n, life) ==
  \/ InterestLoop(x, n)
  \/ ContentStoreHit(x, n)
  \/ AggregateInterest(x, n, life)
  \/ ForwardInterest(x, n, life)
  \/ RejectInterest(x, n, life)

-----------------------------------------------------------------------------
\* Data, from upstream, in answer to an Interest with nonce n.

\* Mutant: expired in-records are served as well.
DownstreamsAll(e) == DOMAIN e.ins

Downstreams(e) == {n \in DOMAIN e.ins : e.ins[n] > 0}

Satisfied(e) == [e EXCEPT !.ins = <<>>, !.out = None]

\* The strategy lets the Data pass to some of the pending downstreams; when it
\* throws, those that are left get none.
IncomingData(x, n) ==
  /\ <<x, n>> \in asked /\ pit[x] # None
  /\ pit' = [pit EXCEPT ![x] = SetStragglerTimer(Satisfied(CancelTimers(@)), TRUE)]
  /\ sent' \in SUBSET {DataTo(x, d) : d \in Downstreams(pit[x])}
  /\ store' = store \cup {x}
  /\ asked' = asked \ {<<x, n>>}
  /\ recent' = [p \in Pairs |-> IF p[1] = x THEN 0 ELSE recent[p]]
  /\ UNCHANGED dead

\* Data that nobody waits for is stored if it comes from a local face.
DataUnsolicited(x, n) ==
  /\ <<x, n>> \in asked /\ pit[x] = None
  /\ store' \in {store, store \cup {x}}
  /\ asked' = asked \ {<<x, n>>}
  /\ sent' = {}
  /\ UNCHANGED <<pit, dead, recent>>

-----------------------------------------------------------------------------
\* Timers.

\* onInterestFinalize.
Finalize(x, satisfied) ==
  /\ dead' = IF satisfied \/ pit[x].out = None THEN dead
             ELSE [dead EXCEPT ![<<x, pit[x].out.nonce>>] = DeadTime]
  /\ pit' = [pit EXCEPT ![x] = None]
  /\ sent' = {}
  /\ UNCHANGED <<store, asked, recent>>

InterestUnsatisfied(x) ==
  /\ pit[x] # None /\ pit[x].unsatisfy = 0
  /\ Finalize(x, FALSE)

StragglerTimer(x) ==
  /\ pit[x] # None /\ pit[x].straggler = 0
  /\ Finalize(x, pit[x].satisfied)

\* Mutant: the age of an expired record goes on being counted.
RecordLaterOn(left) == left - 1

\* A tick less is left of a record, of a timer, of a nonce.
RecordLater(left) == IF left < 0 THEN Over ELSE left - 1
TimerLater(t) == IF t = None THEN None ELSE t - 1
OutLater(out) == IF out = None THEN None ELSE [out EXCEPT !.left = RecordLater(@)]
NonceLater(left) == IF left = 0 THEN 0 ELSE left - 1

EntryLater(e) ==
  [e EXCEPT !.ins = [n \in DOMAIN @ |-> RecordLater(@[n])],
            !.out = OutLater(@),
            !.unsatisfy = TimerLater(@),
            !.straggler = TimerLater(@)]

Tick ==
  /\ \A x \in Name : pit[x] # None => pit[x].unsatisfy # 0 /\ pit[x].straggler # 0
  /\ pit' = [x \in Name |-> IF pit[x] = None THEN None ELSE EntryLater(pit[x])]
  /\ dead' = [p \in Pairs |-> NonceLater(dead[p])]
  /\ recent' = [p \in Pairs |-> NonceLater(recent[p])]
  /\ sent' = {}
  /\ UNCHANGED <<store, asked>>

-----------------------------------------------------------------------------
\* The content store evicts a name, and the network loses an Interest or its
\* Data.
Evict(x) ==
  /\ x \in store
  /\ store' = store \ {x}
  /\ sent' = {}
  /\ UNCHANGED <<pit, dead, asked, recent>>

Lose(x, n) ==
  /\ <<x, n>> \in asked
  /\ asked' = asked \ {<<x, n>>}
  /\ sent' = {}
  /\ UNCHANGED <<pit, dead, store, recent>>

Next ==
  \/ \E x \in Name, n \in Nonce :
       \/ \E life \in Lifetime : IncomingInterest(x, n, life)
       \/ IncomingData(x, n) \/ DataUnsolicited(x, n) \/ Lose(x, n)
  \/ \E x \in Name : InterestUnsatisfied(x) \/ StragglerTimer(x) \/ Evict(x)
  \/ Tick

\* Time passes, and the scheduler runs the handlers of the timers.
Fairness ==
  /\ WF_vars(Tick)
  /\ \A x \in Name : WF_vars(InterestUnsatisfied(x)) /\ WF_vars(StragglerTimer(x))

Spec == Init /\ [][Next]_vars
FairSpec == Spec /\ Fairness

-----------------------------------------------------------------------------
TypeOK ==
  /\ pit \in [Name -> Entry \cup {None}]
  /\ dead \in [Pairs -> 0..DeadTime]
  /\ store \subseteq Name
  /\ asked \subseteq Pairs
  /\ sent \subseteq [kind : {"Interest", "Data"}, name : Name, nonce : Nonce]
  /\ recent \in [Pairs -> 0..DeadTime]

\* However Interests, Data, refusals and timers come together, no entry has
\* both timers set, and one with a record has one: were there none, the entry
\* would stay and swallow what is asked for its name; were there two, the
\* second would end an entry that was made later.
OneTimer ==
  \A x \in Name : pit[x] # None =>
    /\ pit[x].unsatisfy = None \/ pit[x].straggler = None
    /\ DOMAIN pit[x].ins # {} \/ pit[x].out # None =>
         pit[x].unsatisfy # None \/ pit[x].straggler # None

\* An entry that is not refused lasts exactly until its last in-record
\* expires, although in-records of different lifetimes join it at any time.
TimerIsLastExpiry ==
  \A x \in Name : pit[x] # None /\ pit[x].unsatisfy # None =>
    /\ \A n \in DOMAIN pit[x].ins : pit[x].ins[n] <= pit[x].unsatisfy
    /\ \E n \in DOMAIN pit[x].ins : pit[x].ins[n] = pit[x].unsatisfy

\* An Interest that was sent upstream and comes back is known, through PIT and
\* Dead Nonce List together, unless it was answered or DeadTime has passed.
SentIsKnown == \A x \in Name, n \in Nonce : recent[<<x, n>>] > 0 => Seen(x, n)

\* Each in-record goes: the entry is answered, refused or expires, as other
\* Interests can put that off only once with each nonce.
Pending(x, n) == n \in DOMAIN Pit(x).ins

RequestsEnd ==
  \A x \in Name, n \in Nonce : Pending(x, n) ~> ~Pending(x, n)

\* What the state of the forwarder says of the table of requests.
Requests(x, ins) == {[name |-> x, nonce |-> n, left |-> ins[n]] : n \in DOMAIN ins}
Waiting == UNION {Requests(x, Pit(x).ins) : x \in Name}
Refused == {x \in Name : Pit(x).straggler # None /\ ~Pit(x).satisfied}
Answered == {[name |-> p.name, nonce |-> p.nonce] : p \in {p \in sent : p.kind = "Data"}}

Table == INSTANCE PendingTable WITH
  waiting <- Waiting, refused <- Refused, answered <- Answered

\* The pipelines keep the promises of a table of pending requests.
ImplementsTable == Table!Spec
=============================================================================
