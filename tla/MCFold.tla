-------------------------------- MODULE MCFold --------------------------------
\* RecursiveFold with model values for TLC.
EXTENDS RecursiveFold

CONSTANTS f1, f2, why

MCRef == {f1, f2}
MCText == {why}
=============================================================================
