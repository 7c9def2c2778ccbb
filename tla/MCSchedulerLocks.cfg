SPECIFICATION Spec
CONSTANTS
    Node = {n1, n2}
    Nobody = Nobody
    Ttl = {1, 2}
    MaxTime = 4
    MaxToken = 2
CHECK_DEADLOCK FALSE
SYMMETRY Identical
INVARIANTS
    TypeOK
    HolderHasRow
PROPERTIES
    NoTheft
