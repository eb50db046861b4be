SPECIFICATION FairSpec
CONSTANTS
    Place <- Places
    Root = "v"
    Above <- Containers
    Index <- Indices
    Datum <- Quarters
    Unit = 4
    Step32 = 2
    Bits <- Widths
    NoPlace = NoPlace
    NoNode = NoNode
    NoValue = NoValue
    Request <- Requests
    Written <- Values
    Reader <- Readers
    Item <- Items
INVARIANT TypeOK
INVARIANT CleanMeansTold
PROPERTY CallsImplementAccess
PROPERTY InboundTreeNotSet
PROPERTY ReadFillsAll
PROPERTY EchoIsHarmless
PROPERTY CallReturns
