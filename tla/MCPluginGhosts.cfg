SPECIFICATION Spec
CONSTANTS
  n1 = n1
  n2 = n2
  psi = psi
  famvim = famvim
  core = core
  other = other
  None = None
  Node <- MCNode
  Capability <- MCCapability
  Plugin <- MCPlugins
  Native <- MCNative
  AsyncPort = FALSE
INVARIANT UnregisteredAreGhosts
