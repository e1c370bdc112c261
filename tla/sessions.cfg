SPECIFICATION FairSpec
CONSTANTS
    b1 = b1
    b2 = b2
    p1 = p1
    p2 = p2
    l1 = l1
    own = own
    Browsers = {b1, b2}
    Requests = {p1, p2, l1, own}
    Fetches = {p1, p2, l1}
    Lone = {l1}
    Turns <- MCTurns
    Conns = {c1, c2, c3}
    MaxIdle = 1
    None = None
INVARIANT AnswersInOrder
PROPERTY AnsweredOrClosed
CHECK_DEADLOCK FALSE
