\* Two commands, one of which always times out at the home node; a fetch
\* returns at most two rows.
SPECIFICATION FleetSpec
CONSTANTS
    home = home
    hub = hub
    relay = relay
    good = good
    stuck = stuck
    Command = {good, stuck}
    Node <- MCNode
    Target = home
    Hub = hub
    Stuck = {stuck}
    RouteChoices <- MCRoutes
    DrainLimit = 2
    MaxWalks = 2
    MaxUpdates = 1
    MaxFaults = 3
INVARIANTS DoneMeansExecuted
PROPERTIES OutcomeIsFinal ParkedIsAcknowledged
CHECK_DEADLOCK FALSE
