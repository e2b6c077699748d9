SPECIFICATION FairSpec
CONSTANTS
    Req = {r1, r2}
    Key = {k1, k2}
    Creates = {k2}
    Body = {captured, running, done}
    Terminal = {done}
    Start = captured
    Nested = TRUE
    PoolSize = 5
    MaxExpiries = 1
    MaxLosses = 1
INVARIANTS
    OneAnswerPerKey
    NoRunBehindRecord
    AnswersAreDurable
PROPERTY
    EveryRequestEnds
