CONSTANTS
  p1 = p1
  p2 = p2
  Procs <- MCProcs
  Invocations <- MCInvocations
  Tokens <- MCTokens
  PortOf <- MCPortOf
  Target <- MCTarget
  Contents <- MCContents
SPECIFICATION Spec
INVARIANT GetSavesWhatWasSent
CHECK_DEADLOCK FALSE
