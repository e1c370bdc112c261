SPECIFICATION Spec
CONSTANTS
    Keys = {k1}
    Contents = {1, 2}
    Size <- MCSize
    Times = {1}
    Limits = {0, 1}
    Threads = {t1, t2}
    Jobs <- AllJobs
    HintBound = 1
    NoEntry = NoEntry
    NoBody = NoBody
    NoThread = NoThread
PROPERTY KeepsPromise
PROPERTY ExpiryStands
