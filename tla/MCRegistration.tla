--------------------------- MODULE MCRegistration ---------------------------
(* Instances of Registration for model checking. *)
EXTENDS Registration, TLC

CONSTANTS c1, c2, n1, n2, n3

\* The nicks that are not blocked are interchangeable.
Symmetry == Permutations({n1, n2})
=============================================================================
