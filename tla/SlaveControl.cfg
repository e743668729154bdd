SPECIFICATION Spec
CONSTANTS
  h1 = h1
  h2 = h2
  p1 = p1
  p2 = p2
  p3 = p3
  Hosts <- MCHosts
  Procs <- ThreeProcs
  MaxCommands = 3
  MaxTimeouts = 1
  MaxUpdates = 1
  NetworkFails = TRUE
SYMMETRY ProcSymmetry
INVARIANTS
  OneReceiver
PROPERTY SourceIsMaster
CHECK_DEADLOCK FALSE
