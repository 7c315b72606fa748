----------------------------- MODULE FifoServer -----------------------------
(***************************************************************************)
(* What ndntac::TxQueue promises to the forwarder, the consumer and the    *)
(* producer that own one: requests are served one at a time, each exactly  *)
(* once, in the order in which they were made, and none waits for ever.    *)
(***************************************************************************)
EXTENDS Naturals, Sequences

CONSTANTS Event,     \* the requests a client can make
          MaxEvents  \* bound on the number of requests of a behaviour

VARIABLES todo,  \* requests accepted and not yet served, oldest first
          done   \* requests served, in the order of service

vars == <<todo, done>>

Init == todo = <<>> /\ done = <<>>

Request(e) ==
  /\ Len(todo) + Len(done) < MaxEvents
  /\ todo' = Append(todo, e)
  /\ UNCHANGED done

Serve ==
  /\ todo # <<>>
  /\ done' = Append(done, Head(todo))
  /\ todo' = Tail(todo)

Next ==
  \/ Serve
  \/ \E e \in Event : Request(e)

Spec == Init /\ [][Next]_vars /\ WF_vars(Serve)
=============================================================================
