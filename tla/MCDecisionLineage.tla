------------------------- MODULE MCDecisionLineage -------------------------
(***************************************************************************)
(* DecisionLineage on two containers of one connection, two reviews of one *)
(* of them and none of the other.                                          *)
(***************************************************************************)
EXTENDS DecisionLineage, TLC

CONSTANTS c1, c2, n1, r1, r2

MCContainers == {c1, c2}
MCConnections == {n1}
MCReviews == {r1, r2}
MCAffected == n1 :> {c1, c2}
MCReviewOf == r1 :> c1 @@ r2 :> c1

Symmetry == Permutations(Requests) \cup Permutations({r1, r2})
=============================================================================
