------------------------------ MODULE MCHostEdit ------------------------------
\* HostEdit with model values for TLC.
EXTENDS HostEdit, TLC

CONSTANTS u1, u2, t1, t2

MCUnit == {u1, u2}
MCText == {t1, t2}
MCSymmetry == Permutations(MCUnit) \cup Permutations(MCText)
=============================================================================
