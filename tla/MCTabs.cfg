\* Spec of the tab bar, all safety properties.
SPECIFICATION Spec
CONSTANTS
    MAXVIEWS = 4
    a1 = a1
    a2 = a2
    a3 = a3
    a4 = a4
    a5 = a5
    Addr = {a1, a2, a3, a4, a5}
    Titles = {"Home", "+"}
    NULL = NULL
SYMMETRY AddrSymmetry
INVARIANTS
    TypeOK
    PlusTab
    FirstTabKept
    CurrentTabAlive
    CloseTargetValid
    TabsFound
PROPERTIES
    SlotsWrittenOnce
