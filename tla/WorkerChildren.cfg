\* One worker over an item for an agent, its scribe and its review child, and
\* two launchers of their jobs.
SPECIFICATION Spec
CONSTANTS
    Workers = {w1}
    Launchers = {l1, l2}
    AgentOwned = TRUE
    Seeded = {"scribe", "review"}
    Moves <- MCMoves
    Readings <- MCReadings
    Reported = {}
    MaxAttempts = 1
    MaxSignals = 0
    MaxMoves = 1
    MaxEpoch = 4
    MaxFaults = 1
PROPERTIES JobOutcomeIsFinal
