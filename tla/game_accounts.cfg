SPECIFICATION Spec
CONSTANTS
    c1 = c1
    c2 = c2
    alice = alice
    bob = bob
    Conns = {c1, c2}
    NoId = NoId
    Accounts = {alice, bob}
    Stored = {alice}
    MaxJobs = 2
    MaxUpdates = 2
    MayFail = TRUE
    NoActor = NoActor
    NoRecord = NoRecord
    NoRemoval = NoRemoval
    NoNumber = NoNumber
    NoAccount = NoAccount
INVARIANT OneSession
INVARIANT NewestKept
INVARIANT Attended
SYMMETRY Connections
