SPECIFICATION FairPageSpec
CONSTANTS
    ItemID <- MCItemID
    m_capacity = 2
    MaxQueue = 1
    MaxCrashes = 1
INVARIANTS
    PageTypeOK
    KnownItem
    NewItemIsNew
    MapsAgree
    CursorExplained
PROPERTIES
    Answered
    Forgotten
CHECK_DEADLOCK FALSE
