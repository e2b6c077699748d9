SPECIFICATION FeedFairSpec
CONSTANTS
    MaxSeq = 4
    Streams = {w}
    Pollers = {p}
    Kinds = {1, 2, 3, 4}
    Matching = {1, 3, 4}
    Readable = {1, 2, 4}
    Limit = 1
    MaxDrops = 1
INVARIANTS
    SkipsOnlyInFlight
    NeverSentTwice
PROPERTY
    EventuallyHandled
