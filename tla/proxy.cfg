SPECIFICATION FairSpec
CONSTANTS
    Requests = {r1, r2}
    Key = k
    Flights = {f1, f2}
    a = a
    b = b
    v1 = v1
    Contents = {a, b}
    Versions = {v1}
    Inputs <- OneOfEach
    ForceCache = FALSE
    NoContent = NoContent
    NoInput = NoInput
    NoMeta = NoMeta
    NoEntry = NoEntry
    NoAnswer = NoAnswer
    Nothing = Nothing
    NoFlight = NoFlight
    NoOutcome = NoOutcome
    Pending = Pending
INVARIANT Coherent
PROPERTY OneResponse
PROPERTY EveryRequestEnds
