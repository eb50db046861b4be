SPECIFICATION Spec
CONSTANTS
    Name <- OwnedNames
    Field <- Fields
    Self = "self"
    Decl <- OwnedDecls
    Handle <- TwoHandles
    Watched <- WatchedNone
    Content <- OwnedContent
    Datum <- Halves
    Cast <- CToType
    NoDecl = NoDecl
    NoLeaf = NoLeaf
    NoValue = NoValue
    Inbound <- InboundWhole
    MaxInbound = 2
    EnvOpts <- WsSend
    Settings <- NoSettings
    Faults <- NoFaults
    MaxInFlight = 2
    PromptService = FALSE
PROPERTY CloudOwnsInbound
