\* Overlapping discoveries of the same records against overlapping reviews.
CONSTANTS
    c1 = c1
    c2 = c2
    c3 = c3
    n1 = n1
    n2 = n2
    d1 = d1
    d2 = d2
    v1 = v1
    v2 = v2
    refA = refA
    refB = refB
    old = old
    new = new
    References = {refA, refB}
    Contents = {old, new}
    Candidates = {c1, c2, c3}
    Initiatives = {n1, n2}
    NoInitiative = NoInitiative
    Discoveries = {d1, d2}
    Reviews = {v1, v2}
    Requests <- Batches
SPECIFICATION Spec
SYMMETRY Symmetry
INVARIANTS
    PromotedOnce
PROPERTIES
    ImplementsReviewQueue
