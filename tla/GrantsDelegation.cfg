\* Two grant keys, each executed at most twice.
SPECIFICATION Spec
CONSTANTS
    i1 = i1
    i2 = i2
    i3 = i3
    agent = agent
    g1 = g1
    g2 = g2
    root = root
    Items = {i1, i2, i3}
    Top = i1
    Roots = {root}
    Minted = {agent}
    MintedAs <- MCMintedAs
    Grants = {g1, g2}
    Asks <- MCAsks
    MaxDepth <- MCMaxDepth
    Nobody = Nobody
    SpawnReviews = {"waved_through"}
    SetReviews = {"approved"}
    MaxCrashes = 1
    MaxRevokes = 1
    MaxReviews = 1
INVARIANTS NoWiderThanParent ShownSecretsWork GrantSettledOnce
PROPERTIES ImplementsDelegation
SYMMETRY Symmetry
CHECK_DEADLOCK FALSE
