\* The worker over one item that an owner defined the checks of and that no
\* agent is launched for.
SPECIFICATION Spec
CONSTANTS
    Workers = {w1}
    Launchers = {}
    AgentOwned = FALSE
    Seeded = {}
    Moves <- MCMoves
    Readings <- MCReadings
    Reported = {"item"}
    MaxAttempts = 2
    MaxSignals = 2
    MaxMoves = 2
    MaxEpoch = 6
    MaxFaults = 1
INVARIANTS TypeOK ClosedIsBacked ReducersAsPromised
PROPERTIES TerminalLeftByLateBreachOnly PassingItemCloses BreachIsRouted
