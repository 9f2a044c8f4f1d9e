SPECIFICATION Spec
CONSTANTS
    Bodies <- MCBodies
    Sources <- MCSources
    MaxGiveUps = 1
    Given <- MCGiven
    Drafts <- MCDrafts
    MaxSetters = 2
    Replies <- MCReplies
    ResultLines <- MCResultLines
    Clients <- MCClients
    Overridden = {"create_message", "create_message_stream", "retrieve_batch", "batch_results"}
    Day = 4
    Intervals = {0, 1, 2, 3, 5}
    MaxCalls = 2
PROPERTIES
    RequestArrives
    DeliversEvents
    PollEnds
CHECK_DEADLOCK FALSE
