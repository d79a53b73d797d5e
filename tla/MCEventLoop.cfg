SPECIFICATION Spec
CONSTANTS
    Chains <- MCChains
    Printing = 0
    Function <- MCFunction
    Asking <- MCAsking
    Choosing <- MCChoosing
    NoDialog = "none"
    UserDialog = "close?"
    MaxQueue = 2
    MaxSources = 3
INVARIANTS
    TypeOK
    ChainsDistinct
    NoLostWakeup
PROPERTIES
    ChainsReturn
    ImplementsMessageLoop
