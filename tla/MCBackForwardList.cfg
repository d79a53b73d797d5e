\* The back/forward list: safety and refinement.
SPECIFICATION Spec
CONSTANTS
    ItemID <- MCItemID
    m_capacity = 3
INVARIANTS
    TypeOK
    ListConsistent
    Chronological
    ItemConservation
PROPERTIES
    CurrentKept
    ImplementsHistory
CHECK_DEADLOCK FALSE
