\* A bookmark without an address hides the ones behind it.
SPECIFICATION PrefsSpec
CONSTANTS
    MAXHISTORY = 2
    MAXBOOKMARKS = 2
    Visits <- MCVisits
    Pages <- MCPages
    Windows = {}
    MAXEDITS = 0
PROPERTY BookmarksRetrieved
