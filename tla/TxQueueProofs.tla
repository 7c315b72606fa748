--------------------------- MODULE TxQueueProofs ---------------------------
(***************************************************************************)
(* Proofs about TxQueue, for any packets, any delays and any bound on the  *)
(* number of requests: its safety invariants, and that it implements the   *)
(* FIFO server up to liveness.  The four invariants of TxQueue are         *)
(* inductive only together: that the retry branch is dead needs            *)
(* NoLostWakeup, and that order is kept needs that the retry branch is.    *)
(***************************************************************************)
EXTENDS TxQueue, SequenceTheorems, TLAPS

IInv ==
  /\ TypeOK
  /\ NoLostWakeup
  /\ OneOutstandingEvent
  /\ ExecutedInOrder

-----------------------------------------------------------------------------
\* A non-empty sequence is its head followed by its tail.
LEMMA HeadThenTail ==
  ASSUME NEW S, NEW s \in Seq(S), s # <<>>
  PROVE  /\ Head(s) \in S
         /\ Tail(s) \in Seq(S)
         /\ <<Head(s)>> \o Tail(s) = s
<1>1. Head(s) \in S /\ Tail(s) \in Seq(S) /\ Len(Tail(s)) = Len(s) - 1
  BY HeadTailProperties
<1>2. \A i \in 1..Len(Tail(s)) : Tail(s)[i] = s[i+1]
  BY HeadTailProperties
<1>3. <<Head(s)>> \o Tail(s) \in Seq(S)
  BY <1>1
<1>4. Len(<<Head(s)>> \o Tail(s)) = Len(s)
  BY <1>1
<1>5. ASSUME NEW i \in 1..Len(s)
      PROVE  (<<Head(s)>> \o Tail(s))[i] = s[i]
  <2>1. CASE i = 1
    BY <2>1, <1>1
  <2>2. CASE i # 1
    BY <2>2, <1>1, <1>2
  <2>. QED  BY <2>1, <2>2
<1>. QED  BY <1>1, <1>3, <1>4, <1>5, SeqEqual

\* The sequence a value of m_last_event stands for, in every typed state.
LEMMA ServiceType ==
  /\ None \notin Event
  /\ \A x \in Event \cup {None} :
       (IF x = None THEN <<>> ELSE <<x>>) \in Seq(Event)
<1>1. None \notin Event
  BY NoneAssumption DEF Event
<1>2. ASSUME NEW x \in Event PROVE <<x>> \in Seq(Event)
  OBVIOUS
<1>. QED  BY <1>1, <1>2

\* Completing the request in service: what DoPacket and an elapsed delay do
\* to the queue, the wake-up and the order of execution.
LEMMA FinishPreserves ==
  ASSUME IInv, last # None, added' = added,
         executed' = Append(executed, last), DoNext(queue, None, retries)
  PROVE  IInv' /\ (InService \o queue)' = queue
<1>. USE DEF IInv
<1>0. /\ last \in Event /\ retries = 0 /\ None \notin Event
      /\ executed' \in Seq(Event) /\ executed' = executed \o <<last>>
  BY ServiceType DEF TypeOK, OneOutstandingEvent
<1>1. CASE queue = <<>>
  <2>1. queue' = <<>> /\ last' = None /\ retries' = 0 /\ pending' = FALSE
    BY <1>0, <1>1 DEF DoNext
  <2>2. TypeOK'
    <3>1. queue' \in Seq(Event) /\ last' \in Event \cup {None}
      BY <2>1
    <3>2. pending' \in BOOLEAN /\ retries' \in Nat
      BY <2>1
    <3>. QED  BY <3>1, <3>2, <1>0 DEF TypeOK
  <2>3. (InService \o queue)' = queue
    BY <2>1, <1>1 DEF InService
  <2>4. executed \o <<last>> \o queue = added
    BY <1>0 DEF ExecutedInOrder, InService
  <2>5. ExecutedInOrder'
    BY <2>1, <2>4, <1>0, <1>1 DEF ExecutedInOrder, InService, TypeOK
  <2>. QED  BY <2>1, <2>2, <2>3, <2>5 DEF NoLostWakeup, OneOutstandingEvent
<1>2. CASE queue # <<>>
  <2>1. /\ queue' = Tail(queue) /\ last' = Head(queue)
        /\ retries' = 0 /\ pending' = TRUE
    BY <1>0, <1>2 DEF DoNext
  <2>2. /\ Head(queue) \in Event /\ Tail(queue) \in Seq(Event)
        /\ <<Head(queue)>> \o Tail(queue) = queue
    BY <1>2, HeadThenTail DEF TypeOK
  <2>3. last' # None
    BY <2>1, <2>2, <1>0
  <2>4. TypeOK'
    BY <2>1, <2>2, <1>0 DEF TypeOK
  <2>5. (InService \o queue)' = queue
    BY <2>1, <2>2, <2>3 DEF InService
  <2>6. executed \o <<last>> \o queue = added
    BY <1>0 DEF ExecutedInOrder, InService
  <2>7. executed' \o InService' \o queue' = executed' \o (InService \o queue)'
    <3>1. InService' = <<last'>> /\ queue' \in Seq(Event) /\ last' \in Event
      BY <2>1, <2>2, <2>3 DEF InService
    <3>. QED  BY <3>1, <1>0
  <2>8. ExecutedInOrder'
    BY <1>0, <2>5, <2>6, <2>7 DEF ExecutedInOrder
  <2>. QED  BY <2>1, <2>3, <2>4, <2>5, <2>8 DEF NoLostWakeup, OneOutstandingEvent
<1>. QED  BY <1>1, <1>2

\* addEvent preserves the invariant, and appends to what waits.
LEMMA AddPreserves ==
  ASSUME IInv, NEW e \in Event, AddEvent(e)
  PROVE  IInv' /\ (InService \o queue)' = Append(InService \o queue, e)
<1>. USE DEF IInv
<1>0. /\ added' = Append(added, e) /\ executed' = executed
      /\ retries = 0 /\ None \notin Event
  BY ServiceType DEF AddEvent, OneOutstandingEvent
<1>1. InService \in Seq(Event) /\ queue \in Seq(Event) /\ executed \in Seq(Event)
  BY ServiceType DEF TypeOK, InService
<1>2. /\ last' \in Event /\ queue' \in Seq(Event) /\ retries' = 0 /\ pending' = TRUE
      /\ (InService \o queue)' = Append(InService \o queue, e)
  <2>1. CASE pending
    <3>0. last \in Event
      BY <2>1, <1>0 DEF NoLostWakeup, TypeOK
    <3>1. /\ queue' = Append(queue, e) /\ pending' = pending
          /\ last' = last /\ retries' = retries
      BY <2>1 DEF AddEvent
    <3>2. last # None
      BY <2>1, <1>0 DEF NoLostWakeup
    <3>3. InService \o Append(queue, e) = Append(InService \o queue, e)
      BY <1>1
    <3>. QED  BY <2>1, <3>0, <3>1, <3>2, <3>3, <1>0, <1>1 DEF InService
  <2>2. CASE ~pending
    <3>1. DoNext(Append(queue, e), last, retries) /\ queue = <<>> /\ last = None
      BY <2>2 DEF AddEvent, NoLostWakeup
    <3>2. /\ Append(queue, e) = <<e>> /\ <<e>> # <<>>
          /\ Head(<<e>>) = e /\ Tail(<<e>>) = <<>>
      BY <3>1
    <3>3. queue' = <<>> /\ last' = e /\ retries' = 0 /\ pending' = TRUE
      <4>1. DoNext(<<e>>, None, 0)
        BY <3>1, <3>2, <1>0
      <4>. QED  BY <4>1, <3>2 DEF DoNext
    <3>. QED  BY <3>1, <3>3, <1>0 DEF InService
  <2>. QED  BY <2>1, <2>2
<1>3. TypeOK'
  BY <1>0, <1>2 DEF TypeOK
<1>4. ExecutedInOrder'
  <2>1. executed' \o InService' \o queue' = executed' \o (InService \o queue)'
    <3>1. InService' = <<last'>> /\ queue' \in Seq(Event) /\ last' \in Event
      BY <1>2, <1>0 DEF InService
    <3>. QED  BY <3>1, <1>0, <1>1
  <2>2. executed \o InService \o queue = executed \o (InService \o queue)
    BY <1>1, ConcatAssociative
  <2>3. executed \o Append(InService \o queue, e)
          = Append(executed \o (InService \o queue), e)
    BY <1>1
  <2>. QED  BY <2>1, <2>2, <2>3, <1>0, <1>2 DEF ExecutedInOrder
<1>. QED  BY <1>0, <1>2, <1>3, <1>4 DEF NoLostWakeup, OneOutstandingEvent

\* A step of the queue that serves a request is one of the two that complete
\* the request in service: no retry is ever outstanding.
LEMMA ServeStep ==
  ASSUME IInv, DoPacket \/ RunDoNext
  PROVE  /\ last # None /\ added' = added /\ executed' = Append(executed, last)
         /\ DoNext(queue, None, retries)
<1>1. CASE DoPacket
  BY <1>1, NoneAssumption DEF DoPacket
<1>2. CASE RunDoNext
  <2>1. PICK retry \in BOOLEAN :
          /\ IF retry THEN retries > 0 ELSE last \in Delay
          /\ executed' = IF retry THEN executed ELSE Append(executed, last)
          /\ UNCHANGED added
          /\ IF retry THEN DoNext(queue, last, retries - 1)
                      ELSE DoNext(queue, None, retries)
    BY <1>2 DEF RunDoNext
  <2>2. retry = FALSE
    BY <2>1 DEF IInv, OneOutstandingEvent
  <2>. QED  BY <2>1, <2>2, NoneAssumption
<1>. QED  BY <1>1, <1>2

LEMMA InvInit == Init => IInv
<1>. SUFFICES ASSUME Init PROVE IInv
  OBVIOUS
<1>1. TypeOK
  <2>1. <<>> \in Seq(Event) /\ None \in Event \cup {None}
    OBVIOUS
  <2>2. FALSE \in BOOLEAN /\ 0 \in Nat
    OBVIOUS
  <2>. QED  BY <2>1, <2>2 DEF Init, TypeOK
<1>2. NoLostWakeup /\ OneOutstandingEvent /\ ExecutedInOrder
  BY DEF Init, NoLostWakeup, OneOutstandingEvent, ExecutedInOrder, InService
<1>. QED  BY <1>1, <1>2 DEF IInv

LEMMA InvNext == IInv /\ [Next]_vars => IInv'
<1>. SUFFICES ASSUME IInv, [Next]_vars PROVE IInv'
  OBVIOUS
<1>1. ASSUME NEW e \in Event, AddEvent(e) PROVE IInv'
  BY <1>1, AddPreserves
<1>2. CASE DoPacket \/ RunDoNext
  BY <1>2, ServeStep, FinishPreserves
<1>3. CASE UNCHANGED vars
  BY <1>3 DEF vars, IInv, TypeOK, NoLostWakeup, OneOutstandingEvent,
              ExecutedInOrder, InService
<1>. QED  BY <1>1, <1>2, <1>3 DEF Next

\* The inductive invariant holds in every state the queue reaches.
LEMMA Invariance == Spec => []IInv
BY InvInit, InvNext, PTL DEF Spec

-----------------------------------------------------------------------------
\* Every variable of the queue keeps its type.
THEOREM TypeCorrect == Spec => []TypeOK
<1>1. IInv => TypeOK
  BY DEF IInv
<1>. QED  BY <1>1, Invariance, PTL

\* m_pending is set exactly while an event that calls doNext again is
\* outstanding, so addEvent and doNext never strand a request.
THEOREM WakeupNeverLost == Spec => []NoLostWakeup
<1>1. IInv => NoLostWakeup
  BY DEF IInv
<1>. QED  BY <1>1, Invariance, PTL

\* doNext never meets a running event: its 1 ms retry is dead code.
THEOREM RetryNeverTaken == Spec => []OneOutstandingEvent
<1>1. IInv => OneOutstandingEvent
  BY DEF IInv
<1>. QED  BY <1>1, Invariance, PTL

\* Requests are executed in the order of the addEvent calls, none lost.
THEOREM ExecutionInOrder == Spec => []ExecutedInOrder
<1>1. IInv => ExecutedInOrder
  BY DEF IInv
<1>. QED  BY <1>1, Invariance, PTL

\* Every step of the queue is a step of the FIFO server or leaves it alone.
THEOREM RefinesServer == Spec => Server!Init /\ [][Server!Next]_(Server!vars)
<1>1. Init => Server!Init
  BY NoneAssumption DEF Init, Server!Init, InService
<1>2. IInv /\ [Next]_vars => [Server!Next]_(Server!vars)
  <2>. SUFFICES ASSUME IInv, [Next]_vars PROVE [Server!Next]_(Server!vars)
    OBVIOUS
  <2>1. ASSUME NEW e \in Event, AddEvent(e) PROVE Server!Request(e)
    <3>1. (InService \o queue)' = Append(InService \o queue, e)
      BY <2>1, AddPreserves
    <3>2. InService \in Seq(Event) /\ queue \in Seq(Event) /\ executed \in Seq(Event)
      BY ServiceType DEF IInv, TypeOK, InService
    <3>3. Len(added) = Len(InService \o queue) + Len(executed)
      <4>1. added = executed \o InService \o queue
        BY DEF IInv, ExecutedInOrder
      <4>. QED  BY <4>1, <3>2
    <3>. QED  BY <2>1, <3>1, <3>3 DEF AddEvent, Server!Request
  <2>2. CASE DoPacket \/ RunDoNext
    <3>1. last # None /\ executed' = Append(executed, last)
      BY <2>2, ServeStep
    <3>2. (InService \o queue)' = queue
      BY <2>2, ServeStep, FinishPreserves
    <3>3. last \in Event /\ queue \in Seq(Event)
      BY <3>1 DEF IInv, TypeOK
    <3>4. /\ InService \o queue # <<>>
          /\ Head(InService \o queue) = last /\ Tail(InService \o queue) = queue
      BY <3>1, <3>3 DEF InService
    <3>. QED  BY <3>1, <3>2, <3>4 DEF Server!Serve, Server!Next
  <2>3. CASE UNCHANGED vars
    BY <2>3 DEF vars, InService, Server!vars
  <2>. QED  BY <2>1, <2>2, <2>3 DEF Next, Server!Next
<1>. QED  BY <1>1, <1>2, Invariance, PTL DEF Spec
=============================================================================
