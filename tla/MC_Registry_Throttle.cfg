CONSTANTS
    Vins = {v1}
    MinMnb = 2
    PingSlack = 1
    MinMnp = 4
    PingBlockAge = 5
    SigWindow = 6
    Expiration = 7
    Removal = 8
    MaxTime = 9
    MaxMsgs = 3
    LastSend = 3
    Cold = {}
    Hot = {}
    PingSeconds = 2
    MaxManage = 3
    MaxRestarts = 1
SPECIFICATION Spec
PROPERTY PingThrottled
