SPECIFICATION FairSpec
CONSTANTS
    Name <- OneName
    Field <- Fields
    Self = "self"
    Decl <- OneDecl
    Handle <- TwoHandles
    Watched <- WatchedNone
    Content <- FloatContent
    Datum <- Halves
    Cast <- CToType
    NoDecl = NoDecl
    NoLeaf = NoLeaf
    NoValue = NoValue
    Inbound <- FloatInbound
    MaxInbound = 1
    EnvOpts <- WsSend
    Settings <- NoSettings
    Faults <- NoFaults
    MaxInFlight = 2
    PromptService = FALSE
PROPERTY SyncReturns
