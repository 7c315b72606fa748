----------------------------- MODULE MCConsumer -----------------------------
(***************************************************************************)
(* Consumer with contents x1 and x2 of one producer and x3 of another, and *)
(* x4, which has no segments.                                              *)
(***************************************************************************)
EXTENDS Consumer

CONSTANTS x1, x2, x3, x4, p1, p2

ThirdApart == [c \in Content |-> IF c = x3 THEN p2 ELSE p1]
TwoOneNone == [c \in Content |-> CASE c = x1 -> 2 [] c \in {x2, x3} -> 1 [] c = x4 -> 0]

\* A consumer as it is, and one whose Interests the network answers and RetX
\* does not alter.
AsCoded(contents, options, days) ==
  [contents |-> contents, options |-> options, days |-> days,
   periodLost |-> TRUE, reused |-> TRUE, answered |-> FALSE]
Answered(contents, options, days) ==
  [AsCoded(contents, options, days) EXCEPT !.reused = FALSE, !.answered = TRUE]

\* A sound consumer of one producer, over two days.
AsItIs == {AsCoded({x1, x2}, {}, 2)}

\* In addition one of two producers, those that never get to ask for content,
\* one that stops at a content without segments; and over a network that
\* answers a sound one of two producers, one that forges its tags, and a
\* consumer whose tags do expire.
AllConfigs == AsItIs \cup
  {AsCoded({x1, x3}, {}, 1), AsCoded({x1, x3}, {"expired_auth"}, 1),
   AsCoded({x1, x2}, {"no_auth"}, 1), AsCoded({x2, x4}, {}, 1),
   Answered({x1, x3}, {}, 1), Answered({x1, x2}, {"bad_auth_sig"}, 2),
   [Answered({x1}, {}, 2) EXCEPT !.periodLost = FALSE]}
=============================================================================
