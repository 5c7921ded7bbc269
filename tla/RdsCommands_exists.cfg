SPECIFICATION CmdSpec
CONSTANTS
  Fds = {f1}
  NoFd = NoFd
  NoReply = NoReply
  NoResponse = NoResponse
  NoError = NoError
  MaxCalls = 2
  MaxAddrs = 1
  RequestSize = 1
  RecvSize = 2
  MaxResponseSize = 4
  Deadline = 1
  IoTimeout = 1
  Patience = 2
  Replies <- CmdReplies
  AllocMayFail = TRUE
  SigPipeIgnored = TRUE
INVARIANT AbsenceIsAnAnswer
