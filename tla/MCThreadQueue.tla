--------------------------- MODULE MCThreadQueue ----------------------------
(* A small instance of ThreadQueue for TLC. *)
EXTENDS ThreadQueue

CONSTANTS p1, p2, p3, d1, d2

ThreePoppers == {p1, p2, p3}
TwoData == {d1, d2}

=============================================================================
