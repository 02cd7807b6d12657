------------------------------ MODULE MCScout ------------------------------
(* Small instances of Scout for TLC. *)
EXTENDS Scout, TLC

CONSTANTS c1, c2, c3, n1, n2, d1, d2, v1, v2, refA, refB, old, new

\* Two records, whose findings come in either order; a record that has been edited; and
\* a batch that is refused, because it has both versions of the record.
Batches ==
    LET a == [reference |-> refA, content |-> old]
        b == [reference |-> refB, content |-> old]
        edited == [reference |-> refA, content |-> new]
    IN  {<<a, b>>, <<edited>>, <<a, edited>>}

\* Row identifiers and sessions are interchangeable.
Symmetry ==
    Permutations(Candidates) \cup Permutations(Initiatives)
        \cup Permutations(Discoveries) \cup Permutations(Reviews)
=============================================================================
