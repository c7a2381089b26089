------------------------ MODULE MC_ProsperitynodeSync ------------------------
(* Model-checking instance of ProsperitynodeSync; the configurations give   *)
(* the number of connected peers, SPORK_8 and the bound on disruptions.     *)
EXTENDS ProsperitynodeSync

\* Three peers are the fewest with which the SPORKS stage can end.
MinPeersForSporks == SyncThreshold + 1
=============================================================================
