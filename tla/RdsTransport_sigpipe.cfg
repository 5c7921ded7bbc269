SPECIFICATION Spec
CONSTANTS
  Fds = {f1, f2}
  NoFd = NoFd
  NoReply = NoReply
  NoResponse = NoResponse
  NoError = NoError
  MaxCalls = 1
  MaxAddrs = 1
  RequestSize = 2
  RecvSize = 2
  MaxResponseSize = 4
  Deadline = 2
  IoTimeout = 1
  Patience = 3
  Replies <- MCReplies
  AllocMayFail = FALSE
  SigPipeIgnored = FALSE
INVARIANT WriteErrorReturned
