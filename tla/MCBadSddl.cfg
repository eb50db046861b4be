SPECIFICATION Spec
CONSTANTS
    Name <- OneName
    Field <- Fields
    Self = "self"
    Decl <- OneDecl
    Handle <- OneHandle
    Watched <- WatchedNone
    Content <- FloatContent1
    Datum <- Halves
    Cast <- CToType
    NoDecl = NoDecl
    NoLeaf = NoLeaf
    NoValue = NoValue
    Inbound <- NoInbound
    MaxInbound = 0
    EnvOpts <- WsSend
    Settings <- NoSettings
    Faults <- NoFaults
    MaxInFlight = 2
    PromptService = FALSE
INVARIANT UnsentSddlIsDirty
