----------------------------- MODULE MCTagCache -----------------------------
(***************************************************************************)
(* TagCache with four tags over five bits, two bits a tag: t4 is a false   *)
(* positive once t1 and t2, or t2 and t3, have been inserted.              *)
(***************************************************************************)
EXTENDS TagCache

CONSTANTS t1, t2, t3, t4

MCHash(t) ==
  CASE t = t1 -> {1, 2}
    [] t = t2 -> {3, 4}
    [] t = t3 -> {2, 5}
    [] t = t4 -> {2, 3}
=============================================================================
