SPECIFICATION Spec
CONSTANTS
    Shape <- MCShape
    MaxEntries = 5
    MaxReach = 2
INVARIANTS
    RecoveryFits
    ResponseIsWhole
    AnsweredCallsStayAnswered
    ForkIsFaithful
CHECK_DEADLOCK FALSE
