----------------------------- MODULE TagMemory -----------------------------
(***************************************************************************)
(* What an authentication cache promises to the strategy that asks it: a   *)
(* tag it was given is reported until everything is forgotten at once,     *)
(* which happens only when a question is asked.  A tag it was never given  *)
(* may be reported too.                                                    *)
(***************************************************************************)
CONSTANT Tag

VARIABLES
  kept,   \* the tags given since everything was last forgotten
  answer  \* the last question and the answer given

vars == <<kept, answer>>

Init == kept = {} /\ answer = [tag |-> {}, hit |-> FALSE]

Remember(t) == kept' = kept \cup {t} /\ UNCHANGED answer

Ask(t) ==
  /\ kept' \in {kept, {}}
  /\ \E hit \in BOOLEAN :
       /\ t \in kept' => hit
       /\ answer' = [tag |-> {t}, hit |-> hit]

Next == \E t \in Tag : Remember(t) \/ Ask(t)

Spec == Init /\ [][Next]_vars
=============================================================================
