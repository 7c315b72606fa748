------------------------------ MODULE TxQueue ------------------------------
(***************************************************************************)
(* ndntac::TxQueue (NFD/daemon/fw/tx-queue.hpp): the queue through which   *)
(* the forwarder, the consumer and the producer send and receive packets.  *)
(* A request is either immediate (send or receive an Interest or a Data,   *)
(* run by a zero-delay simulator event) or a delay, which only postpones   *)
(* the requests behind it.  The simulator's event list is modelled by the  *)
(* events this queue has outstanding in it: the one m_last_event refers    *)
(* to, and the 1 ms retries of doNext, which no variable refers to.        *)
(***************************************************************************)
EXTENDS Naturals, Sequences

CONSTANTS Packet,    \* packets an immediate request can carry
          Delay,     \* lengths of delay requests
          None,      \* no event: m_last_event does not run
          MaxEvents  \* bound on the number of requests of a behaviour

ASSUME DisjointAssumption == Packet \cap Delay = {}
ASSUME NoneAssumption == None \notin Packet \cup Delay
ASSUME BoundAssumption == MaxEvents \in Nat

Event == Packet \cup Delay

VARIABLES
  queue,    \* m_queue
  pending,  \* m_pending
  last,     \* the request whose event m_last_event is, or None if it has run
  retries,  \* events scheduled by the 1 ms branch of doNext, not yet run
  added,    \* history: every request, in the order of the addEvent calls
  executed  \* history: every request whose event has run

vars == <<queue, pending, last, retries, added, executed>>

-----------------------------------------------------------------------------
Init ==
  /\ queue = <<>>
  /\ pending = FALSE
  /\ last = None
  /\ retries = 0
  /\ added = <<>>
  /\ executed = <<>>

\* Three mistakes in doNext, for the mutants of the runs: m_pending stays set
\* when the queue is empty, or the request at the front is not popped, or it
\* is the one at the back that is started.
DoNextStaysPending(q, running, r) ==
  /\ pending' = TRUE
  /\ queue' = IF q # <<>> THEN Tail(q) ELSE q
  /\ last' = IF q # <<>> THEN Head(q) ELSE running
  /\ retries' = r

DoNextWithoutPop(q, running, r) ==
  /\ pending' = (q # <<>>)
  /\ queue' = q
  /\ last' = IF q # <<>> THEN Head(q) ELSE running
  /\ retries' = r

DoNextFromBack(q, running, r) ==
  /\ pending' = (q # <<>>)
  /\ queue' = SubSeq(q, 1, Len(q) - 1)
  /\ last' = IF q # <<>> THEN q[Len(q)] ELSE running
  /\ retries' = r

\* doNext, called when m_queue holds q, `running` is the request whose event
\* m_last_event still awaits, and r retries are outstanding: it stops on an
\* empty queue, retries later while an event runs, and otherwise schedules
\* the event of the request at the front.
DoNext(q, running, r) ==
  LET starts == q # <<>> /\ running = None
  IN  /\ pending' = (q # <<>>)
      /\ queue' = IF starts THEN Tail(q) ELSE q
      /\ last' = IF starts THEN Head(q) ELSE running
      /\ retries' = IF q # <<>> /\ ~starts THEN r + 1 ELSE r

\* sendInterest, sendData, receiveInterest, receiveData and delay all are
\* addEvent with a request of their own type.
AddEvent(e) ==
  /\ Len(added) < MaxEvents
  /\ added' = Append(added, e)
  /\ UNCHANGED executed
  /\ \/ /\ pending
        /\ queue' = Append(queue, e)
        /\ UNCHANGED <<pending, last, retries>>
     \/ /\ ~pending
        /\ DoNext(Append(queue, e), last, retries)

\* Mutant: the event counts as running while its own handler calls doNext.
DoPacketStillRunning ==
  /\ last \in Packet
  /\ executed' = Append(executed, last)
  /\ UNCHANGED added
  /\ DoNext(queue, last, retries)

\* The simulator runs the event of an immediate request: doSendInterest,
\* doSendData, doReceiveInterest or doReceiveData.  An event that runs is
\* expired already, so m_last_event.IsRunning() is FALSE in doNext.
DoPacket ==
  /\ last \in Packet
  /\ executed' = Append(executed, last)
  /\ UNCHANGED added
  /\ DoNext(queue, None, retries)

\* Mutant: a delay that has elapsed is taken for a retry.
RunDoNextAsRetry ==
  /\ retries > 0 \/ last \in Delay
  /\ UNCHANGED <<added, executed>>
  /\ DoNext(queue, None, retries - 1)

\* The simulator runs an event whose handler is doNext itself: that of a
\* delay which has elapsed, or a retry.
RunDoNext ==
  \E retry \in {b \in BOOLEAN : IF b THEN retries > 0 ELSE last \in Delay} :
    /\ executed' = IF retry THEN executed ELSE Append(executed, last)
    /\ UNCHANGED added
    /\ IF retry THEN DoNext(queue, last, retries - 1)
                ELSE DoNext(queue, None, retries)

Next ==
  \/ \E e \in Event : AddEvent(e)
  \/ DoPacket
  \/ RunDoNext

\* The simulator runs every event scheduled in it: each kind of outstanding
\* event is weakly fair.  Clients need not make requests.
Fairness == WF_vars(DoPacket) /\ WF_vars(RunDoNext)

Spec == Init /\ [][Next]_vars /\ Fairness

-----------------------------------------------------------------------------
\* The request in service, if any, as a sequence of length at most one.
InService == IF last = None THEN <<>> ELSE <<last>>

TypeOK ==
  /\ queue \in Seq(Event)
  /\ pending \in BOOLEAN
  /\ last \in Event \cup {None}
  /\ retries \in Nat
  /\ added \in Seq(Event)
  /\ executed \in Seq(Event)

\* No request is stranded.  m_pending is set exactly while the simulator holds
\* an event whose execution calls doNext again: were it set with none
\* outstanding, addEvent would never start the queue again; were it clear
\* while a request waits, nothing would run that request.
NoLostWakeup ==
  /\ queue # <<>> => pending
  /\ pending <=> last # None \/ retries > 0

\* At most one simulator event is outstanding, the one m_last_event refers
\* to: the "already running" branch of doNext, whose retry nothing refers
\* to and nothing cancels, is never taken.
OneOutstandingEvent == retries = 0

\* Requests are executed in the order of the calls, none twice and none
\* skipped, whatever delays lie between them.
ExecutedInOrder == executed \o InService \o queue = added

\* Every request made is executed in the end.
EveryRequestRuns ==
  \A n \in 1..MaxEvents : Len(added) >= n ~> Len(executed) >= n

\* The queue implements the FIFO server, the request in service counted as
\* waiting until its event runs.
Server == INSTANCE FifoServer WITH todo <- InService \o queue, done <- executed
ImplementsServer == Server!Spec
=============================================================================
