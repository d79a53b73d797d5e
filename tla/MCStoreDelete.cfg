\* Deleting from a full list leaves the last entry.
SPECIFICATION Spec
CONSTANTS
    MAXHISTORY = 2
    MAXBOOKMARKS = 2
    Visits <- MCVisits
    Pages <- MCPages
    w1 = w1
    Windows = {w1}
    MAXEDITS = 1
PROPERTY LastEntryCleared
