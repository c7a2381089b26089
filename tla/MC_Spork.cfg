CONSTANTS
    s1 = s1
    n1 = n1
    n2 = n2
    on = on
    off = off
    None = None
    Nodes <- MCNodes
    Signer = s1
    Values = {on, off}
    MaxTime = 1
    MaxRestarts = 1
    StrictSignTimes = TRUE
SPECIFICATION Spec
INVARIANT TypeOK
PROPERTY Converges
CHECK_DEADLOCK FALSE
