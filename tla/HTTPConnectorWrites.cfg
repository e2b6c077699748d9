SPECIFICATION FairSpec
CONSTANTS
    p1 = p1
    p2 = p2
    h1 = h1
    h2 = h2
    item = item
    Item = {item}
    Approval = {p1, p2}
    ItemOf <- MCItemOf
    Requester <- MCRequester
    Token = {h1, h2}
    Human = {h1, h2}
    Moves = {"done"}
    Start = "planned"
    Writes = {p1, p2}
    Enqueuer = {e1, e2}
    Dispatcher = {d1, d2}
    Response = {"ok"}
    MaxFaults = 1
    MaxExpiries = 1
CHECK_DEADLOCK FALSE
INVARIANTS
    NoWriteUnapproved
    OneCallPerLease
    SentIsRecorded
PROPERTIES
    FirstDecisionWins
    ImplementsPromise
    EnqueuedIsSent
