SPECIFICATION Spec
CONSTANTS
    Tx = {w1, w2, esc1}
    Locking = {w1, w2}
    Item = {a}
    Column = {"meta", "state"}
    Value <- MCValue
    Domain <- MCDomain
    InitValue <- MCInitValue
    Escalated <- MCEscalated
    Tag <- MCTag
    NoTag = ""
    Keys = {"", "k"}
    ReasonOf <- MCReasonOf
    MaxSeq = 4
INVARIANTS
    RebuildMatchesLive
    

    
