SPECIFICATION Spec
CONSTANTS
    Frames <- MCFrames
    HookEvents <- MCHookEvents
    Hooks <- MCHooks
    Permissions <- MCPermissions
    HookInputs <- MCHookInputs
    HookSays <- MCHookSays
    SdkServers = {"s"}
    McpMessages <- MCMcpMessages
    Id = {1, 2}
    MaxFrames = 3
    MaxTraffic = 4
    None = None
INVARIANTS
    FramesSurface
    ExitExplained
    AnswersMatch
CHECK_DEADLOCK FALSE
