CONSTANTS
  p1 = p1
  p2 = p2
  Procs <- MCProcs
  Invocations <- MCInvocations
  Tokens <- MCTokens
  PortOf <- MCPortOf
  Target <- MCTarget
  Contents <- MCContents
SPECIFICATION Spec
INVARIANT SuccessMeansDone
PROPERTY CommandEnds
CHECK_DEADLOCK FALSE
