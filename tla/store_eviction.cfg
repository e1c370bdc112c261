SPECIFICATION Spec
CONSTANTS
    Keys = {k1, k2}
    Contents = {1}
    Size <- MCSize
    Times = {1, 2}
    Limits = {0, 1}
    Threads = {t1, t2}
    Jobs <- EvictionJobs
    HintBound = 1
    NoEntry = NoEntry
    NoBody = NoBody
    NoThread = NoThread
SYMMETRY Symmetric
INVARIANT HintCoversUntilRaced
PROPERTY NewestSurvives
