\* Exit, crash and restart: all properties that hold.
SPECIFICATION PrefsSpec
CONSTANTS
    MAXHISTORY = 2
    MAXBOOKMARKS = 2
    Visits <- MCVisits
    Pages <- MCPages
    Windows = {}
    MAXEDITS = 0
INVARIANTS
    PrefsTypeOK
PROPERTIES
    RestoreFaithful
    RestartStable
