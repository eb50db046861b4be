SPECIFICATION SyncingSpec
CONSTANTS
    Name <- OwnedNames
    Field <- Fields
    Self = "self"
    Decl <- OwnedDecls
    Handle <- TwoHandles
    Watched <- WatchedNone
    Content <- OwnedContent
    Datum <- Halves
    Cast <- CToType
    NoDecl = NoDecl
    NoLeaf = NoLeaf
    NoValue = NoValue
    Inbound <- InboundC
    MaxInbound = 1
    EnvOpts <- WsSend
    Settings <- NoSettings
    Faults <- NoFaults
    MaxInFlight = 8
    PromptService = TRUE
PROPERTY ReportArrives
