SPECIFICATION Spec
CONSTANTS
    Window = 4
    Project = "p"
    MirrorBatches <- MCBatches
    Titles = {"name"}
    Tags = {""}
    Disk <- MCDisk
    BatchSize = 2
    Limits = {0, 1}
    Adapters <- MCAdapters
    MaxWrites = 3
    MaxReads = 1
    MaxFailures = 1
INVARIANTS
    SummariesCurrent
    SummariesMatch
    ListedSinceEnumeration
    ResumesNewestConversation
    ImportedSessionResumes
    Conforms
CHECK_DEADLOCK FALSE
