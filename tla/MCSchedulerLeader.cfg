SPECIFICATION Spec
CONSTANTS
    Node = {n1, n2, n3}
    Nobody = Nobody
    Ttl = 1
    MaxTime = 5
CHECK_DEADLOCK FALSE
SYMMETRY Identical
INVARIANTS
    TypeOK
    OneLiveLeader
PROPERTIES
    FreshTerm
    ImplementsTerms
