\* Refutes OwnWindow.
SPECIFICATION Spec
CONSTANTS
    MAXVIEWS = 4
    a1 = a1
    a2 = a2
    a3 = a3
    a4 = a4
    a5 = a5
    Addr = {a1, a2, a3, a4, a5}
    Titles = {"Home", "+"}
    NULL = NULL
SYMMETRY AddrSymmetry
INVARIANT
    OwnWindow
