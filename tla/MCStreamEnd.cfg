CONSTANTS
    Agent = {}
    Ceiling = 1
    Buffer = 2
    MaxFrames = 2
    MaxQueries = 1
    Schedulers = {"current_thread"}
SPECIFICATION Spec
PROPERTY EndReachesConsumer
