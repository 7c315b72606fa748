------------------------------ MODULE TagCache ------------------------------
(***************************************************************************)
(* One authentication cache of an edge router, with the two operations a   *)
(* strategy has: insert and contains.                                      *)
(***************************************************************************)
EXTENDS AuthCache

CONSTANT Tag

ASSUME HashAssumption == \A t \in Tag : Hash(t) \subseteq Bit

VARIABLES
  filter,  \* m_bloom
  kept,    \* history: the tags inserted since the last clear
  answer   \* history: the last tag looked up, if any, and the answer

vars == <<filter, kept, answer>>

Init ==
  /\ filter = EmptyFilter
  /\ kept = {}
  /\ answer = [tag |-> {}, hit |-> FALSE]

\* Mutant: insert, too, clears a filter past the tolerated probability.
InsertClears(t) ==
  /\ filter' = Inserted(Refreshed(filter), {t}, 1)
  /\ kept' = kept \cup {t}
  /\ UNCHANGED answer

Insert(t) ==
  /\ filter' = Inserted(filter, {t}, 1)
  /\ kept' = kept \cup {t}
  /\ UNCHANGED answer

\* Mutant: contains clears the filter after it has looked.
ContainsThenClears(t) ==
  /\ filter' = Refreshed(filter)
  /\ kept' = IF Saturated(filter) THEN {} ELSE kept
  /\ answer' = [tag |-> {t}, hit |-> Hash(t) \subseteq filter.bits]

Contains(t) ==
  /\ filter' = Refreshed(filter)
  /\ kept' = IF Saturated(filter) THEN {} ELSE kept
  /\ answer' = [tag |-> {t}, hit |-> Holds(filter, t)]

Next == \E t \in Tag : Insert(t) \/ Contains(t)

Spec == Init /\ [][Next]_vars

-----------------------------------------------------------------------------
TypeOK ==
  /\ filter \in Filter
  /\ kept \subseteq Tag
  /\ answer \in [tag : {{}} \cup {{t} : t \in Tag}, hit : BOOLEAN]

\* The table holds the bits of the tags inserted since the last clear and no
\* others: a clear that left a bit, or a count that outlived its bits, would
\* vouch for a tag that the strategies never accepted.
BitsAreOfKeptTags == filter.bits = UNION {Hash(t) : t \in kept}

\* contains never answers from a filter whose false positive probability has
\* passed the tolerated one: it clears before it looks, not after.
AnswersWithinTolerance ==
  [][answer' # answer =>
       /\ ~Saturated(filter')
       /\ \A t \in answer'.tag : answer'.hit = (Hash(t) \subseteq filter'.bits)]_vars

\* The cache does what the strategies rely on: no tag it holds is missed, and
\* all of its tags are forgotten together, by a lookup only.
Memory == INSTANCE TagMemory
ImplementsMemory == Memory!Spec
=============================================================================
