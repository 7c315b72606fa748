--------------------------- MODULE TagCacheProofs ---------------------------
(***************************************************************************)
(* Proofs about TagCache, for any tags, any hash functions and any number  *)
(* of tolerated insertions.  That the bits of the table are those of the   *)
(* tags kept is what makes a miss conclusive.                              *)
(***************************************************************************)
EXTENDS TagCache, TLAPS

IInv == TypeOK /\ BitsAreOfKeptTags

-----------------------------------------------------------------------------
LEMMA InvInit == Init => IInv
BY LimitAssumption DEF Init, IInv, TypeOK, BitsAreOfKeptTags, EmptyFilter, Filter

\* insert sets the bits of the tag and keeps the count within its range.
LEMMA InsertPreserves ==
  ASSUME IInv, NEW t \in Tag, Insert(t)
  PROVE  IInv'
<1>1. /\ filter' = [bits |-> filter.bits \cup UNION {Hash(s) : s \in {t}},
                    count |-> IF filter.count + 1 > Limit THEN Limit + 1
                              ELSE filter.count + 1]
      /\ kept' = kept \cup {t} /\ answer' = answer
  BY DEF Insert, Inserted
<1>2. filter.bits \subseteq Bit /\ filter.count \in 0..(Limit + 1)
  BY DEF IInv, TypeOK, Filter
<1>3. UNION {Hash(s) : s \in {t}} = Hash(t) /\ Hash(t) \subseteq Bit
  BY HashAssumption
<1>4. filter'.bits \subseteq Bit /\ filter'.count \in 0..(Limit + 1)
  BY <1>1, <1>2, <1>3, LimitAssumption
<1>5. filter' \in Filter
  BY <1>1, <1>4 DEF Filter
<1>6. BitsAreOfKeptTags'
  BY <1>1, <1>3 DEF IInv, BitsAreOfKeptTags
<1>. QED  BY <1>1, <1>5, <1>6 DEF IInv, TypeOK

\* contains leaves the filter alone or empties it, and what it keeps with it.
LEMMA ContainsPreserves ==
  ASSUME IInv, NEW t \in Tag, Contains(t)
  PROVE  IInv' /\ ~Saturated(filter')
<1>1. /\ filter' = Refreshed(filter)
      /\ kept' = IF Saturated(filter) THEN {} ELSE kept
      /\ answer' = [tag |-> {t}, hit |-> Holds(filter, t)]
  BY DEF Contains
<1>2. Holds(filter, t) \in BOOLEAN
  BY DEF Holds
<1>3. answer' \in [tag : {{}} \cup {{s} : s \in Tag}, hit : BOOLEAN]
  BY <1>1, <1>2
<1>4. CASE Saturated(filter)
  <2>1. filter' = EmptyFilter /\ kept' = {}
    BY <1>1, <1>4 DEF Refreshed
  <2>2. filter' \in Filter /\ BitsAreOfKeptTags' /\ ~Saturated(filter')
    BY <2>1, LimitAssumption DEF EmptyFilter, Filter, BitsAreOfKeptTags, Saturated
  <2>. QED  BY <2>1, <2>2, <1>3 DEF IInv, TypeOK
<1>5. CASE ~Saturated(filter)
  <2>1. filter' = filter /\ kept' = kept
    BY <1>1, <1>5 DEF Refreshed
  <2>. QED  BY <2>1, <1>3, <1>5 DEF IInv, TypeOK, BitsAreOfKeptTags, Saturated
<1>. QED  BY <1>4, <1>5

LEMMA InvNext == IInv /\ [Next]_vars => IInv'
<1>. SUFFICES ASSUME IInv, [Next]_vars PROVE IInv'
  OBVIOUS
<1>1. ASSUME NEW t \in Tag, Insert(t) PROVE IInv'
  BY <1>1, InsertPreserves
<1>2. ASSUME NEW t \in Tag, Contains(t) PROVE IInv'
  BY <1>2, ContainsPreserves
<1>3. CASE UNCHANGED vars
  BY <1>3 DEF vars, IInv, TypeOK, BitsAreOfKeptTags
<1>. QED  BY <1>1, <1>2, <1>3 DEF Next

LEMMA Invariance == Spec => []IInv
BY InvInit, InvNext, PTL DEF Spec

-----------------------------------------------------------------------------
\* The variables of a cache keep their types.
THEOREM TypeCorrect == Spec => []TypeOK
<1>1. IInv => TypeOK
  BY DEF IInv
<1>. QED  BY <1>1, Invariance, PTL

\* The table holds the bits of the tags inserted since the last clear only.
THEOREM BitsExplained == Spec => []BitsAreOfKeptTags
<1>1. IInv => BitsAreOfKeptTags
  BY DEF IInv
<1>. QED  BY <1>1, Invariance, PTL

\* No lookup is answered by a filter past its tolerated probability, and the
\* filter a lookup leaves is the one it was answered from.
THEOREM ToleranceKept == Spec => AnswersWithinTolerance
<1>. DEFINE Answered ==
       /\ ~Saturated(filter')
       /\ \A t \in answer'.tag : answer'.hit = (Hash(t) \subseteq filter'.bits)
<1>1. IInv /\ [Next]_vars => [answer' # answer => Answered]_vars
  <2>. SUFFICES ASSUME IInv, [Next]_vars, answer' # answer
                PROVE  Answered
    OBVIOUS
  <2>1. PICK t \in Tag : Insert(t) \/ Contains(t)
    BY DEF Next, vars
  <2>2. ~Insert(t)
    BY DEF Insert
  <2>3. ~Saturated(filter') /\ filter' = Refreshed(filter)
    BY <2>1, <2>2, ContainsPreserves DEF Contains
  <2>4. answer'.tag = {t} /\ answer'.hit = Holds(filter, t)
    BY <2>1, <2>2 DEF Contains
  <2>5. Holds(filter, t) = (Hash(t) \subseteq filter'.bits)
    BY <2>3 DEF Holds
  <2>. QED  BY <2>3, <2>4, <2>5
<1>. QED  BY <1>1, Invariance, PTL DEF Spec, AnswersWithinTolerance

\* The cache implements the memory of tags: a tag it holds is never missed,
\* and it forgets all tags at once and during a lookup only.
THEOREM RefinesMemory == Spec => ImplementsMemory
<1>1. Init => Memory!Init
  BY DEF Init, Memory!Init
<1>2. IInv /\ [Next]_vars => [Memory!Next]_(Memory!vars)
  <2>. SUFFICES ASSUME IInv, [Next]_vars PROVE [Memory!Next]_(Memory!vars)
    OBVIOUS
  <2>1. ASSUME NEW t \in Tag, Insert(t) PROVE Memory!Remember(t)
    BY <2>1 DEF Insert, Memory!Remember
  <2>2. ASSUME NEW t \in Tag, Contains(t) PROVE Memory!Ask(t)
    <3>1. /\ kept' \in {kept, {}} /\ Holds(filter, t) \in BOOLEAN
          /\ answer' = [tag |-> {t}, hit |-> Holds(filter, t)]
      BY <2>2 DEF Contains, Holds
    <3>2. BitsAreOfKeptTags' /\ filter' = Refreshed(filter)
      BY <2>2, ContainsPreserves DEF IInv, Contains
    <3>3. t \in kept' => Hash(t) \subseteq filter'.bits
      BY <3>2 DEF BitsAreOfKeptTags
    <3>4. t \in kept' => Holds(filter, t)
      BY <3>2, <3>3 DEF Holds
    <3>. QED  BY <3>1, <3>4 DEF Memory!Ask
  <2>3. CASE UNCHANGED vars
    BY <2>3 DEF vars, Memory!vars
  <2>. QED  BY <2>1, <2>2, <2>3 DEF Next, Memory!Next
<1>. QED  BY <1>1, <1>2, Invariance, PTL DEF Spec, ImplementsMemory, Memory!Spec
=============================================================================
