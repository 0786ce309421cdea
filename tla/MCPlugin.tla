------------------------------- MODULE MCPlugin -------------------------------
\* PluginPresentation with model values for TLC.
EXTENDS PluginPresentation

CONSTANTS n1, n2, core, other, psi, famvim

MCNode == {n1, n2}
MCPlugins == {core, other}
MCCapability == {psi, famvim}
MCNative == {<<core, psi>>, <<core, famvim>>}
=============================================================================
