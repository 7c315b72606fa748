----------------------------- MODULE AuthCache -----------------------------
(***************************************************************************)
(* ndntac::AuthCache (auth-cache.hpp) over bloom_filter.hpp: a Bloom filter *)
(* of authentication tags that is emptied by the first lookup made after   *)
(* its false positive probability has passed the tolerated one.  A filter  *)
(* is a value: the bits that are set and the number of insertions since    *)
(* the last clear.  The effective probability grows with that number       *)
(* alone, so that it passes the tolerated one after some number of         *)
(* insertions, Limit; further insertions are not counted.                  *)
(***************************************************************************)
EXTENDS Naturals

CONSTANTS
  Bit,      \* the bits of the table
  Hash(_),  \* the bits a tag's digest selects
  Limit     \* the insertions that keep effective_fpp within m_max_fpp

ASSUME LimitAssumption == Limit \in Nat

Filter == [bits : SUBSET Bit, count : 0..(Limit + 1)]

EmptyFilter == [bits |-> {}, count |-> 0]

\* Mutant: insertions are counted beyond the tolerated ones.
InsertedForEver(f, T, n) ==
  [bits |-> f.bits \cup UNION {Hash(t) : t \in T}, count |-> f.count + n]

\* n insertions, of the tags of a set T.
Inserted(f, T, n) ==
  [bits  |-> f.bits \cup UNION {Hash(t) : t \in T},
   count |-> IF f.count + n > Limit THEN Limit + 1 ELSE f.count + n]

Saturated(f) == f.count > Limit

\* Mutant: clear resets the count of insertions and not the table.
RefreshedCountOnly(f) == IF Saturated(f) THEN [f EXCEPT !.count = 0] ELSE f

\* What the first statement of contains leaves of the filter.
Refreshed(f) == IF Saturated(f) THEN EmptyFilter ELSE f

\* The answer of contains.
Holds(f, t) == Hash(t) \subseteq Refreshed(f).bits
=============================================================================
