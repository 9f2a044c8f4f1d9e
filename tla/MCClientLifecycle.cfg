SPECIFICATION Spec
CONSTANTS
    MaxSessions = 2
    Retries = 1
    Servers = {"srv"}
    Wanted = {"srv"}
INVARIANTS
    TreeIsKept
PROPERTIES
    NoForeignClose
    CloseFinishes
CHECK_DEADLOCK FALSE
