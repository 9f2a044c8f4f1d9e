SPECIFICATION Spec
CONSTANTS
    Ids = {"5", "6"}
    Tools = {"slow"}
    Message <- MCMessage
    Outcome <- MCOutcome
    MaxMessages = 4
INVARIANT InFlightExact
PROPERTY CancelSettles
CHECK_DEADLOCK FALSE
