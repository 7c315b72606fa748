-------------------------- MODULE MCAccessNetwork --------------------------
(***************************************************************************)
(* AccessNetwork on a small topology: the edge e1 of two consumers, a core *)
(* router r, and the edge e2 of the producer p.  Consumer c1 is behind e1, *)
(* consumer c2 is behind it too or behind an edge of its own, e3.          *)
(***************************************************************************)
EXTENDS AccessNetwork, TLC

CONSTANTS c1, c2, e1, e2, e3, r, p

Line(e) == [n \in {c1, c2, e1, e2, e3, r} |->
              CASE n = c1 -> e1
                [] n = c2 -> e
                [] n \in {e1, e3} -> r
                [] n = r  -> e2
                [] n = e2 -> p]
Shared == Line(e1)
Apart  == Line(e3)

Only(c, flaw) == [d \in Consumer |-> IF d = c THEN flaw ELSE "none"]
BadSignature == Only(c2, "bad_auth_sig")
BadLocator   == Only(c2, "bad_keyloc")
Sound        == Only(c2, "none")

\* Bounds on the Interests that c1 and c2 send.
Sends(k1, k2) == [c \in Consumer |-> IF c = c1 THEN k1 ELSE k2]
Twice  == Sends(2, 1)
Thrice == Sends(3, 2)
Four   == Sends(4, 2)

\* The code as it is, without its defects, and with those only that leave a
\* consumer's pending Interest alone.
AllDefects     == Defect
NoDefects      == {}
FreshInterests == Defect \ {"reused-interest"}

\* Nothing tells the contents apart.
Contents == Permutations(Content)

\* A bit for each consumer's tags, or both bits for those of c2, so that a
\* filter that has one of those takes the tags of c1 for known, but no filter
\* that has those of c1 only takes the tags of c2 for known.
Distinct(t) == {t.owner}
Overlap(t)  == {c1, t.owner}
=============================================================================
