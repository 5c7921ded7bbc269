SPECIFICATION Spec
CONSTANTS
  r1 = r1
  r2 = r2
  Requests <- MCRequests
  MaxResponseSize = 2
  ChunkSize = 2
  NoError = NoError
INVARIANTS
  TypeOK
  BufferBounded
  ErrorIsOfRejected
  SettledRequestsAreQuiet
  CredentialsStayHome
PROPERTIES
  RejectionIsRecorded
  PromiseSettles
