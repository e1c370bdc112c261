SPECIFICATION FairSpec
CONSTANTS
    Callers = {c1, c2, c3}
    Keys = {k1}
    Calls = {f1, f2, f3}
    Values = {v}
    Errors = {e}
    NoCall = NoCall
    NoOutcome = NoOutcome
    Pending = Pending
PROPERTY Coalesces
PROPERTY QueuedReturn
