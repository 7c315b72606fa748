---------------------------- MODULE PendingTable ----------------------------
(***************************************************************************)
(* What the forwarder of a node promises to those who send it Interests:   *)
(* a request waits until it is answered, until the last request for its    *)
(* name has expired, or until the strategy has refused the name.  Data is  *)
(* given to those alone whose requests have not expired, and no request    *)
(* outlives the last one for its name.                                     *)
(***************************************************************************)
EXTENDS Integers

CONSTANTS Name, Nonce, Lifetime

VARIABLES
  waiting,   \* requests, with the time they have left, 0 when it is up now
  refused,   \* names that the strategy refuses to ask for
  answered   \* whom the last step gave Data

vars == <<waiting, refused, answered>>

Request == [name : Name, nonce : Nonce, left : Int]

Of(x) == {r \in waiting : r.name = x}

Init ==
  /\ waiting = {}
  /\ refused = {}
  /\ answered = {}

\* The Interest starts to wait, and the strategy decides on its name anew.
Wait(x, n, life) ==
  /\ \A r \in Of(x) : r.nonce # n
  /\ waiting' = waiting \cup {[name |-> x, nonce |-> n, left |-> life]}
  /\ refused' \in {refused \ {x}, refused \cup {x}}
  /\ answered' = {}

\* The Interest is answered at once, or denied.
AnswerNow(x, n) ==
  /\ Of(x) = {}
  /\ answered' \in SUBSET {[name |-> x, nonce |-> n]}
  /\ UNCHANGED <<waiting, refused>>

\* One Data ends all requests for a name.
Answer(x) ==
  /\ answered' \in SUBSET {[name |-> x, nonce |-> r.nonce] : r \in {r \in Of(x) : r.left > 0}}
  /\ waiting' = waiting \ Of(x)
  /\ refused' = refused \ {x}

GiveUp(x) ==
  /\ x \in refused \/ \A r \in Of(x) : r.left <= 0
  /\ waiting' = waiting \ Of(x)
  /\ refused' = refused \ {x}
  /\ answered' = {}

Tick ==
  /\ \A x \in Name \ refused : Of(x) # {} => \E r \in Of(x) : r.left > 0
  /\ waiting' = {[r EXCEPT !.left = IF @ < 0 THEN @ ELSE @ - 1] : r \in waiting}
  /\ answered' = {}
  /\ UNCHANGED refused

Ignore == answered' = {} /\ UNCHANGED <<waiting, refused>>

Next ==
  \/ \E x \in Name, n \in Nonce :
       AnswerNow(x, n) \/ \E life \in Lifetime : Wait(x, n, life)
  \/ \E x \in Name : Answer(x) \/ GiveUp(x)
  \/ Tick
  \/ Ignore

Spec == Init /\ [][Next]_vars
=============================================================================
