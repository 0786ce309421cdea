------------------------------ MODULE MCSession ------------------------------
\* PresentationSession with model values for TLC.
EXTENDS PresentationSession, TLC

CONSTANTS n1, n2, n3, psi, famvim

MCNode == {n1, n2, n3}
MCSymmetry == Permutations(MCNode)
MCCapability == {psi, famvim}
MCManyInput == {famvim}
=============================================================================
