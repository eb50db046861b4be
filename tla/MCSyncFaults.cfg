SPECIFICATION Spec
CONSTANTS
    Name <- OneName
    Field <- Fields
    Self = "self"
    Decl <- OneDecl
    Handle <- TwoHandles
    Watched <- WatchedOne
    Content <- FloatContent
    Datum <- Halves
    Cast <- CToType
    NoDecl = NoDecl
    NoLeaf = NoLeaf
    NoValue = NoValue
    Inbound <- FloatOrJunkInbound
    MaxInbound = 2
    EnvOpts <- NoEnv
    Settings <- AllSettings
    Faults <- AllFaults
    MaxInFlight = 2
    PromptService = FALSE
INVARIANT TypeOK
INVARIANT ServiceHasContext
INVARIANT HandshakeFirst
INVARIANT FlowControl
INVARIANT CopiesAgree
PROPERTY SuccessMeansReported
PROPERTY DequeuedOnlyWhenSent
PROPERTY SddlClearedOnlyWhenSent
