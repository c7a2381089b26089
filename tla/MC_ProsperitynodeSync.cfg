CONSTANTS
    NumPeers <- MinPeersForSporks
    Spork8Active = TRUE
    ClearMayFail = FALSE
    MaxDisruptions = 1
SPECIFICATION Spec
INVARIANT TypeOK FinishedOnlyWithData PenaltyOnlyAfterReset
PROPERTY FollowsStageOrder
