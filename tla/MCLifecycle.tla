---------------------------- MODULE MCLifecycle ----------------------------
(* Small instances of Lifecycle for TLC. *)
EXTENDS Lifecycle, TLC

CONSTANTS i1, t1, t2, t3, t4, t5, a1, a2, p1, p2, b1

\* Identifiers are interchangeable, and so are the sessions of one kind.
Symmetry ==
    Permutations(Transitions) \cup Permutations(Assessments) \cup Permutations(Evaluations)
=============================================================================
