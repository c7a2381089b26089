CONSTANTS
    Vins = {v1}
    MinMnb = 1
    PingSlack = 1
    MinMnp = 3
    PingBlockAge = 4
    SigWindow = 5
    Expiration = 6
    Removal = 7
    MaxTime = 15
    MaxMsgs = 2
    LastSend = 7
    Cold = {v1}
    Hot = {v1}
    PingSeconds = 2
    MaxManage = 2
    MaxRestarts = 0
SPECIFICATION Spec
INVARIANT SeenCoversRecord
PROPERTY AnnounceMonotonic
