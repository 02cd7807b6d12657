------------------------------ MODULE MCPortfolio ------------------------------
(* A small instance of Portfolio for TLC. *)
EXTENDS Portfolio, TLC

CONSTANTS i1, t1, t2, a1, p1, g1, g2

Symmetry == Permutations({t1, t2}) \cup Permutations({g1, g2})

=============================================================================
