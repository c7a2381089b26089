CONSTANTS
    NumPeers = 2
    Spork8Active = TRUE
    ClearMayFail = FALSE
    MaxDisruptions = 0
SPECIFICATION Spec
PROPERTY SyncTerminates
