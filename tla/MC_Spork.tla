------------------------------ MODULE MC_Spork ------------------------------
EXTENDS Spork

CONSTANTS s1, n1, n2, on, off

MCNodes == {s1, n1, n2}
=============================================================================
