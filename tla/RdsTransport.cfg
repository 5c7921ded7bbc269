SPECIFICATION FairSpec
CONSTANTS
  Fds = {f1, f2}
  NoFd = NoFd
  NoReply = NoReply
  NoResponse = NoResponse
  NoError = NoError
  MaxCalls = 2
  MaxAddrs = 2
  RequestSize = 2
  RecvSize = 2
  MaxResponseSize = 4
  Deadline = 2
  IoTimeout = 1
  Patience = 3
  Replies <- MCReplies
  AllocMayFail = TRUE
  SigPipeIgnored = FALSE
INVARIANTS
  TypeOK
  RequestInOrder
  ResourcesReturned
  ErrorExplainsStatus
  ExecutedAsReported
  ReadingTimeBounded
  ResponseBounded
PROPERTIES
  KeepsPromise
  CallReturns
