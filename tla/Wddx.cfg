SPECIFICATION Spec
CONSTANTS
  Paths <- MCPaths
  Values <- MCValues
  Documents <- MCDocuments
  MaxArray = 3
  MaxDepth = 3
  MaxPuts = 3
  AllocMayFail = TRUE
INVARIANTS
  RegularTree
  ReadsAsDictionary
  CleanUseIsSafe
  ReadsWhatWasSent
PROPERTIES
  ArrivesAsBuilt
