SPECIFICATION Spec
CONSTANTS
    Name <- StoreNames
    Field <- Fields
    Self = "self"
    Decl <- StoreDecls
    Handle <- StoreHandles
    Watched <- WatchedNone
    Content <- StoreContent
    Datum <- Halves
    Cast <- CToType
    NoDecl = NoDecl
    NoLeaf = NoLeaf
    NoValue = NoValue
    Inbound <- StoreInbound
    MaxInbound = 1
    EnvOpts <- WsSend
    Settings <- NoSettings
    Faults <- NoFaults
    MaxInFlight = 2
    PromptService = FALSE
INVARIANT DirtyNamesDeclared
INVARIANT SddlOwedIsQueued
INVARIANT UnreportedChangeIsQueued
PROPERTY InboundLeafOnlyByCloud
PROPERTY StoreImplementsMirror
