---------------------------- MODULE MC_Registry ----------------------------
EXTENDS Registry
=============================================================================
