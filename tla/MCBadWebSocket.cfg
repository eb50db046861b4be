SPECIFICATION MCSpec
CONSTANTS
    Thread = {t1, t2}
    Null = Null
    NotSet = NotSet
    FileName = {"log", "other.log"}
    DefaultFile = "log"
    GlobalEnv <- Env
    ContextEnv <- DeviceEnv
    GlobalArgs <- GlobalLists
    ContextArgs <- ContextLists
    MayFail <- Failures
    MaxCalls = 3
    Width = 3
    MaxTime = 7
    Period = {0, 1, 2, 5, 7}
INVARIANT SyncHasWebSocket
CHECK_DEADLOCK FALSE
