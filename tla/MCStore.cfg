\* History and bookmarks: all properties that hold.
SPECIFICATION Spec
CONSTANTS
    MAXHISTORY = 3
    MAXBOOKMARKS = 3
    Visits <- MCVisits
    Pages <- MCPages
    w1 = w1
    Windows = {w1}
    MAXEDITS = 1
INVARIANTS
    TypeOK
    NoAdjacentTwins
    SortCorrect
PROPERTIES
    InSyncKept
