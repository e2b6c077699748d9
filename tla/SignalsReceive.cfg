\* Two receivers on a pool of two connections.
SPECIFICATION Spec
CONSTANTS
    r1 = r1
    r2 = r2
    Receivers = {r1, r2}
    s1 = s1
    s2 = s2
    s3 = s3
    s4 = s4
    key = key
    none = none
    token = token
    Signals = {s1, s2, s3, s4}
    Keys = {key}
    NoKey = none
    KeyOf <- MCKeyOf
    Tokens = {token}
    TokenOf <- MCTokenOf
    Profiles = {"steady", "bring-up"}
    Budget <- MCBudget
    PoolSize = 2
    NoItem = NoItem
    Nobody = Nobody
    MaxRetries = 1
    MaxHours = 1
    MaxReopened = 1
INVARIANTS OneLiveItemPerKey  
SYMMETRY Symmetry
CHECK_DEADLOCK FALSE
