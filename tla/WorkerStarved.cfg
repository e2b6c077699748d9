\* The worker over one item that an owner defined the checks of and that no
\* agent is launched for.
SPECIFICATION Spec
CONSTANTS
    Workers = {w1}
    Launchers = {}
    AgentOwned = FALSE
    Seeded = {}
    Moves <- MCMoves
    Readings <- MCReadings
    Reported = {"item"}
    MaxAttempts = 1
    MaxSignals = 1
    MaxMoves = 3
    MaxEpoch = 7
    MaxFaults = 0
PROPERTIES EveryBreachIsRouted
