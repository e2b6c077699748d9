SPECIFICATION Spec
CONSTANTS
    a = a
    b = b
    c = c
    x = x
    y = y
    Conn = {t1, t2}
    Item = {a, b, c}
    Actor = {x, y}
    Requests <- MCRequests
    Tag = {"", "k"}
    NoTag = ""
    None = None
    MaxChildren = 1
    MaxRunning = 1
    MaxRate <- MCMaxRate
    MaxEvents = 7
SYMMETRY Symmetry
INVARIANTS
    RunningWithinBudget
    ChildrenWithinBudget
    RateWithinBudget
PROPERTY
    TerminalLeftByEscalation
