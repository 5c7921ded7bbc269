------------------------- MODULE RdsTransportProofs -------------------------
(***************************************************************************)
(* The inductive invariant of RdsTransport, its safety properties, and the *)
(* refinement of RdsCall, for every number of calls, addresses, request    *)
(* units, descriptors, every size and time limit, and every set of replies.*)
(* Each part of IInv has a lemma: every step of Next preserves it.         *)
(***************************************************************************)
EXTENDS RdsTransport, TLAPS

(* What the wire holds after k units, and how a send extends it.           *)

\* The n units after the k-th are a sequence of numbers.
LEMMA SubrangeInSeq ==
  ASSUME NEW k \in Nat, NEW n \in Nat
  PROVE  [i \in 1 .. n |-> k + i] \in Seq(Nat)
OBVIOUS

\* Appending the n units after the k-th to the first k gives the first k + n.
LEMMA WireStep ==
  ASSUME NEW k \in Nat, NEW n \in Nat
  PROVE  [i \in 1 .. k |-> i] \o [i \in 1 .. n |-> k + i] = [i \in 1 .. k + n |-> i]
OBVIOUS

\* The first k units are k units.
LEMMA WireLen ==
  ASSUME NEW k \in Nat
  PROVE  Len([i \in 1 .. k |-> i]) = k
OBVIOUS

-----------------------------------------------------------------------------
(* The error state: cfrds_server_set_error and the failing allocations.    *)

\* The text of a status is one of the error texts.
LEMMA ErrorTextType ==
  ASSUME call \in Calls, NEW s \in Statuses PROVE <<call, s>> \in ErrorTexts
BY DEF ErrorTexts

\* Keeping, clearing or replacing the code without a new text is well typed.
LEMMA ErrorKept ==
  ASSUME ErrorType, error_code' \in {error_code, "cleared", "count"},
         error' \in {error, NoError}, oom' \in {oom, TRUE, FALSE}
  PROVE  ErrorType'
BY DEF ErrorType

\* So is cfrds_server_set_error with any status.
LEMMA SetErrorType ==
  ASSUME ErrorType, call \in Calls, NEW s \in Statuses, SetError(s)
  PROVE  ErrorType'
<1>1. error_code' \in Statuses \cup {"cleared", "count"}
  BY DEF SetError
<1>2. error' \in ErrorTexts \cup {NoError}
  BY ErrorTextType DEF SetError
<1>3. oom' \in BOOLEAN
  BY DEF SetError, ErrorType
<1> QED BY <1>1, <1>2, <1>3 DEF ErrorType

\* And a recorded allocation failure.
LEMMA OutOfMemoryType ==
  ASSUME ErrorType, call \in Calls, FailOutOfMemory
  PROVE  ErrorType'
<1>0. "MEMORY_ERROR" \in Statuses
  BY DEF Statuses
<1>1. error_code' \in Statuses \cup {"cleared", "count"}
  BY <1>0 DEF FailOutOfMemory
<1>2. error' \in ErrorTexts \cup {NoError}
  BY <1>0, ErrorTextType DEF FailOutOfMemory
<1>3. oom' \in BOOLEAN
  BY DEF FailOutOfMemory, OutOfMemory
<1> QED BY <1>1, <1>2, <1>3 DEF ErrorType

\* A failing return records the status and text of its own call.
LEMMA FailErrorInv ==
  ASSUME ControlType, pc # "idle", NEW s \in Statuses, s # "OK", Fail(s)
  PROVE  ErrorInv'
<1>1. call \in Calls /\ call' = call /\ pc' = "idle" /\ result'[call] = s
  BY DEF ControlType, Fail, Leave
<1>2. error_code' = s /\ error' \in {NoError, <<call, s>>}
  BY DEF Fail, SetError
<1>3. error' # NoError \/ oom'
  <2>1. <<call, s>> # NoError
    BY <1>1, MarksAssumption DEF ErrorTexts
  <2> QED BY <2>1 DEF Fail, SetError
<1> QED
  BY <1>1, <1>2, <1>3 DEF ErrorInv, ErrorExplainsStatus

\* A return keeps the record of executions, if its status tells the truth.
LEMMA LeaveExecutionInv ==
  ASSUME ControlType, PeerType, ExecutionInv, pc # "idle", NEW s, NEW own, Leave(s, own),
         s \in NotSent => call \notin delivered,
         s = "OK" => executed[call] > 0
  PROVE  ExecutionInv'
<1>1. call \in Calls /\ call' = call /\ pc' = "idle" /\ result' = [result EXCEPT ![call] = s]
      /\ UNCHANGED <<delivered, executed, runs>>
  BY DEF ControlType, Leave
<1>2. \A c \in Calls : c # call => result'[c] = result[c]
  BY <1>1 DEF ControlType
<1>3. result'[call] = s
  BY <1>1 DEF ControlType
<1>4. \A d \in Calls : d > call => ~(executed[d] > 0)
  BY <1>1 DEF ExecutionInv, Calls, PeerType
<1>5. ExecutedAsReported'
  <2> SUFFICES ASSUME NEW c \in Calls
               PROVE  /\ result'[c] \in NotSent => executed[c] = 0
                      /\ result'[c] = "OK" =>
                           /\ executed[c] > 0
                           /\ \A d \in Calls : d > c /\ executed[d] > 0 => executed[c] < executed[d]
    BY <1>1 DEF ExecutedAsReported
  <2>1. CASE c = call
    <3>1. s \in NotSent => executed[call] = 0
      BY <1>1 DEF ExecutionInv, PeerType
    <3> QED BY <2>1, <3>1, <1>3, <1>4
  <2>2. CASE c # call
    BY <2>2, <1>2 DEF ExecutionInv, ExecutedAsReported
  <2> QED BY <2>1, <2>2
<1>6. \A c \in Calls :
        /\ executed[c] <= runs
        /\ executed[c] > 0 => c \in delivered
        /\ c \in delivered => c <= call /\ result'[c] \notin NotSent
  BY <1>1, <1>2, <1>3 DEF ExecutionInv
<1>7. \A c \in Calls : c > call => result'[c] = "none"
  BY <1>1, <1>2 DEF ExecutionInv, Calls
<1> QED
  BY <1>1, <1>5, <1>6, <1>7 DEF ExecutionInv

-----------------------------------------------------------------------------
(* Types.                                                                  *)

\* Every step keeps the control variables in their types.
LEMMA ControlStep ==
  ASSUME ControlType, [Next]_vars
  PROVE  ControlType'
<1> USE SizesAssumption DEF ControlType, Phases, Calls, Statuses, NotSent,
     clientVars, errorVars, sockVars, sendVars, recvVars, peerVars
<1>1. ASSUME NEW w \in BOOLEAN, SendCommand(w) PROVE ControlType'
  BY <1>1 DEF SendCommand, ClearError
<1>2. CASE BuildPayload
  BY <1>2 DEF BuildPayload, OutOfMemory, FailSilently, Leave
<1>3. CASE BuildRequest
  BY <1>3 DEF BuildRequest, OutOfMemory, FailOutOfMemory, Leave
<1>4. CASE Resolve
  BY <1>4 DEF Resolve, Fail, SetError, Leave
<1>5. CASE OpenSocket \/ ConnectSocket
  BY <1>5 DEF OpenSocket, ConnectSocket
<1>6. CASE NoAddressLeft \/ RecvDeadline \/ RecvFails \/ CheckStatusLine \/
          ParseNumber
  BY <1>6 DEF NoAddressLeft, Fail, SetError, Leave, RecvDeadline, RecvFails, BlockingTime,
      CheckStatusLine, ParseNumber
<1>7. CASE SetTimeouts
  BY <1>7 DEF SetTimeouts, Fail, SetError, Leave
<1>8. CASE Send
  BY <1>8 DEF Send
<1>9. CASE SendFails
  BY <1>9 DEF SendFails, Fail, SetError, Leave
<1>10. CASE StartReceiving
  BY <1>10 DEF StartReceiving, OutOfMemory, FailOutOfMemory, Leave
<1>11. CASE RecvChunk
  BY <1>11 DEF RecvChunk, BlockingTime, Arrived, OutOfMemory, FailSilently, Fail, SetError,
      Leave
<1>12. CASE RecvEof
  BY <1>12 DEF RecvEof, BlockingTime, Arrived
<1>13. CASE SkipHeader
  BY <1>13 DEF SkipHeader, FailSilently, Leave
<1>14. CASE Deliver
  BY <1>14 DEF Deliver, Leave, Handed
<1>15. CASE ReleaseResponse \/ PeerRefuses \/ ConnectionBreaks
  BY <1>15 DEF ReleaseResponse, PeerRefuses, ConnectionBreaks
<1>16. ASSUME NEW c \in Calls, PeerExecutes(c) PROVE ControlType'
  BY <1>16 DEF PeerExecutes
<1>17. CASE UNCHANGED vars
  BY <1>17 DEF vars
<1> QED
  BY <1>1, <1>2, <1>3, <1>4, <1>5, <1>6, <1>7, <1>8, <1>9, <1>10, <1>11,
     <1>12, <1>13, <1>14, <1>15, <1>16, <1>17
  DEF Next, ClientStep, CallStep, PeerStep, SendInterrupted, Finished, vars

\* Every step keeps the error state in its type.
LEMMA ErrorStep ==
  ASSUME ControlType, ErrorType, [Next]_vars
  PROVE  ErrorType'
<1> USE SetErrorType, OutOfMemoryType, ErrorKept DEF ControlType, Statuses,
     NotSent, clientVars, errorVars, sockVars, sendVars, recvVars, peerVars
<1>1. ASSUME NEW w \in BOOLEAN, SendCommand(w) PROVE ErrorType'
  BY <1>1 DEF SendCommand, ClearError
<1>2. CASE BuildPayload
  BY <1>2 DEF BuildPayload, OutOfMemory, FailSilently, Leave
<1>3. CASE BuildRequest
  BY <1>3 DEF BuildRequest
<1>4. CASE Resolve
  BY <1>4 DEF Resolve, Fail, Leave
<1>5. CASE OpenSocket \/ ConnectSocket
  BY <1>5 DEF OpenSocket, ConnectSocket
<1>6. CASE NoAddressLeft \/ RecvDeadline \/ RecvFails \/ CheckStatusLine \/
          ParseNumber
  BY <1>6 DEF NoAddressLeft, Fail, Leave, RecvDeadline, RecvFails, BlockingTime,
      CheckStatusLine, ParseNumber
<1>7. CASE SetTimeouts
  BY <1>7 DEF SetTimeouts, Fail, Leave
<1>8. CASE Send
  BY <1>8 DEF Send
<1>9. CASE SendFails
  BY <1>9 DEF SendFails, Fail, Leave
<1>10. CASE StartReceiving
  BY <1>10 DEF StartReceiving
<1>11. CASE RecvChunk
  BY <1>11 DEF RecvChunk, BlockingTime, Arrived, OutOfMemory, FailSilently, Fail, Leave
<1>12. CASE RecvEof
  BY <1>12 DEF RecvEof, BlockingTime, Arrived
<1>13. CASE SkipHeader
  BY <1>13 DEF SkipHeader, FailSilently, Leave
<1>14. CASE Deliver
  BY <1>14 DEF Deliver, Leave, Handed
<1>15. CASE ReleaseResponse \/ PeerRefuses \/ ConnectionBreaks
  BY <1>15 DEF ReleaseResponse, PeerRefuses, ConnectionBreaks
<1>16. ASSUME NEW c \in Calls, PeerExecutes(c) PROVE ErrorType'
  BY <1>16 DEF PeerExecutes
<1>17. CASE UNCHANGED vars
  BY <1>17 DEF vars
<1> QED
  BY <1>1, <1>2, <1>3, <1>4, <1>5, <1>6, <1>7, <1>8, <1>9, <1>10, <1>11,
     <1>12, <1>13, <1>14, <1>15, <1>16, <1>17
  DEF Next, ClientStep, CallStep, PeerStep, SendInterrupted, Finished, vars

\* Every step keeps descriptors and buffers in their types.
LEMMA SocketStep ==
  ASSUME SocketType, [Next]_vars
  PROVE  SocketType'
<1> USE SizesAssumption DEF SocketType, Locals, clientVars, errorVars,
     sockVars, sendVars, recvVars, peerVars
<1>1. ASSUME NEW w \in BOOLEAN, SendCommand(w) PROVE SocketType'
  BY <1>1 DEF SendCommand, ClearError
<1>2. CASE BuildPayload
  BY <1>2 DEF BuildPayload, OutOfMemory, FailSilently, Leave
<1>3. CASE BuildRequest
  BY <1>3 DEF BuildRequest, OutOfMemory, FailOutOfMemory, Leave
<1>4. CASE Resolve
  <2>1. addrs' \in Nat
    BY <1>4 DEF Resolve, Fail, Leave
  <2>2. timed' \in BOOLEAN /\ open' \subseteq Fds /\ sock' \in Fds \cup {NoFd} /\ live' \subseteq Locals
    BY <1>4 DEF Resolve, Fail, Leave
  <2> QED BY <2>1, <2>2
<1>5. CASE OpenSocket
  BY <1>5 DEF OpenSocket
<1>6. CASE ConnectSocket
  BY <1>6 DEF ConnectSocket
<1>7. CASE NoAddressLeft \/ RecvDeadline \/ RecvFails \/ CheckStatusLine \/
          ParseNumber
  BY <1>7 DEF NoAddressLeft, Fail, SetError, Leave, RecvDeadline, RecvFails, BlockingTime,
      CheckStatusLine, ParseNumber
<1>8. CASE SetTimeouts
  BY <1>8 DEF SetTimeouts, Fail, SetError, Leave
<1>9. CASE Send
  BY <1>9 DEF Send
<1>10. CASE SendFails
  BY <1>10 DEF SendFails, Fail, SetError, Leave
<1>11. CASE StartReceiving
  BY <1>11 DEF StartReceiving, OutOfMemory, FailOutOfMemory, Leave
<1>12. CASE RecvChunk
  BY <1>12 DEF RecvChunk, BlockingTime, Arrived, OutOfMemory, FailSilently, Fail, SetError,
      Leave
<1>13. CASE RecvEof
  BY <1>13 DEF RecvEof, BlockingTime, Arrived
<1>14. CASE SkipHeader
  BY <1>14 DEF SkipHeader, FailSilently, Leave
<1>15. CASE Deliver
  BY <1>15 DEF Deliver, Leave, Handed
<1>16. CASE ReleaseResponse \/ PeerRefuses \/ ConnectionBreaks
  BY <1>16 DEF ReleaseResponse, PeerRefuses, ConnectionBreaks
<1>17. ASSUME NEW c \in Calls, PeerExecutes(c) PROVE SocketType'
  BY <1>17 DEF PeerExecutes
<1>18. CASE UNCHANGED vars
  BY <1>18 DEF vars
<1> QED
  BY <1>1, <1>2, <1>3, <1>4, <1>5, <1>6, <1>7, <1>8, <1>9, <1>10, <1>11,
     <1>12, <1>13, <1>14, <1>15, <1>16, <1>17, <1>18
  DEF Next, ClientStep, CallStep, PeerStep, SendInterrupted, Finished, vars

\* Every step keeps the send loop in its types.
LEMMA SendTypeStep ==
  ASSUME SendType, [Next]_vars
  PROVE  SendType'
<1> USE SizesAssumption, SubrangeInSeq DEF SendType, clientVars, errorVars,
     sockVars, sendVars, recvVars, peerVars
<1>1. ASSUME NEW w \in BOOLEAN, SendCommand(w) PROVE SendType'
  BY <1>1 DEF SendCommand, ClearError
<1>2. CASE BuildPayload
  BY <1>2 DEF BuildPayload, OutOfMemory, FailSilently, Leave
<1>3. CASE BuildRequest
  BY <1>3 DEF BuildRequest, OutOfMemory, FailOutOfMemory, Leave
<1>4. CASE Resolve
  BY <1>4 DEF Resolve, Fail, SetError, Leave
<1>5. CASE OpenSocket \/ ConnectSocket
  BY <1>5 DEF OpenSocket, ConnectSocket
<1>6. CASE NoAddressLeft \/ RecvDeadline \/ RecvFails \/ CheckStatusLine \/
          ParseNumber
  BY <1>6 DEF NoAddressLeft, Fail, SetError, Leave, RecvDeadline, RecvFails, BlockingTime,
      CheckStatusLine, ParseNumber
<1>7. CASE SetTimeouts
  BY <1>7 DEF SetTimeouts, Fail, SetError, Leave
<1>8. CASE Send
  BY <1>8 DEF Send
<1>9. CASE SendFails
  BY <1>9 DEF SendFails, Fail, SetError, Leave
<1>10. CASE StartReceiving
  BY <1>10 DEF StartReceiving, OutOfMemory, FailOutOfMemory, Leave
<1>11. CASE RecvChunk
  BY <1>11 DEF RecvChunk, BlockingTime, Arrived, OutOfMemory, FailSilently, Fail, SetError,
      Leave
<1>12. CASE RecvEof
  BY <1>12 DEF RecvEof, BlockingTime, Arrived
<1>13. CASE SkipHeader
  BY <1>13 DEF SkipHeader, FailSilently, Leave
<1>14. CASE Deliver
  BY <1>14 DEF Deliver, Leave, Handed
<1>15. CASE ReleaseResponse \/ PeerRefuses \/ ConnectionBreaks
  BY <1>15 DEF ReleaseResponse, PeerRefuses, ConnectionBreaks
<1>16. ASSUME NEW c \in Calls, PeerExecutes(c) PROVE SendType'
  BY <1>16 DEF PeerExecutes
<1>17. CASE UNCHANGED vars
  BY <1>17 DEF vars
<1> QED
  BY <1>1, <1>2, <1>3, <1>4, <1>5, <1>6, <1>7, <1>8, <1>9, <1>10, <1>11,
     <1>12, <1>13, <1>14, <1>15, <1>16, <1>17
  DEF Next, ClientStep, CallStep, PeerStep, SendInterrupted, Finished, vars

\* Every step keeps what was received in its type.
LEMMA RecvStep ==
  ASSUME RecvType, [Next]_vars
  PROVE  RecvType'
<1> USE SizesAssumption, TimesAssumption DEF RecvType, clientVars, errorVars,
     sockVars, sendVars, recvVars, peerVars
<1>1. ASSUME NEW w \in BOOLEAN, SendCommand(w) PROVE RecvType'
  BY <1>1 DEF SendCommand, ClearError
<1>2. CASE BuildPayload
  BY <1>2 DEF BuildPayload, OutOfMemory, FailSilently, Leave
<1>3. CASE BuildRequest
  BY <1>3 DEF BuildRequest, OutOfMemory, FailOutOfMemory, Leave
<1>4. CASE Resolve
  BY <1>4 DEF Resolve, Fail, SetError, Leave
<1>5. CASE OpenSocket \/ ConnectSocket
  BY <1>5 DEF OpenSocket, ConnectSocket
<1>6. CASE NoAddressLeft \/ RecvDeadline \/ RecvFails \/ CheckStatusLine \/
          ParseNumber
  BY <1>6 DEF NoAddressLeft, Fail, SetError, Leave, RecvDeadline, RecvFails, BlockingTime,
      CheckStatusLine, ParseNumber
<1>7. CASE SetTimeouts
  BY <1>7 DEF SetTimeouts, Fail, SetError, Leave
<1>8. CASE Send
  BY <1>8 DEF Send
<1>9. CASE SendFails
  BY <1>9 DEF SendFails, Fail, SetError, Leave
<1>10. CASE StartReceiving
  BY <1>10 DEF StartReceiving, OutOfMemory, FailOutOfMemory, Leave
<1>11. CASE RecvChunk
  BY <1>11 DEF RecvChunk, BlockingTime, Arrived, OutOfMemory, FailSilently, Fail, SetError,
      Leave
<1>12. CASE RecvEof
  BY <1>12 DEF RecvEof, BlockingTime, Arrived
<1>13. CASE SkipHeader
  BY <1>13 DEF SkipHeader, FailSilently, Leave
<1>14. CASE Deliver
  BY <1>14 DEF Deliver, Leave, Handed
<1>15. CASE ReleaseResponse \/ PeerRefuses \/ ConnectionBreaks
  BY <1>15 DEF ReleaseResponse, PeerRefuses, ConnectionBreaks
<1>16. ASSUME NEW c \in Calls, PeerExecutes(c) PROVE RecvType'
  BY <1>16 DEF PeerExecutes
<1>17. CASE UNCHANGED vars
  BY <1>17 DEF vars
<1> QED
  BY <1>1, <1>2, <1>3, <1>4, <1>5, <1>6, <1>7, <1>8, <1>9, <1>10, <1>11,
     <1>12, <1>13, <1>14, <1>15, <1>16, <1>17
  DEF Next, ClientStep, CallStep, PeerStep, SendInterrupted, Finished, vars

\* Every step keeps the peer in its type.
LEMMA PeerTypeStep ==
  ASSUME ControlType, PeerType, [Next]_vars
  PROVE  PeerType'
<1> USE SizesAssumption DEF ControlType, PeerType, Calls, clientVars,
     errorVars, sockVars, sendVars, recvVars, peerVars
<1>1. ASSUME NEW w \in BOOLEAN, SendCommand(w) PROVE PeerType'
  BY <1>1 DEF SendCommand, ClearError
<1>2. CASE BuildPayload
  BY <1>2 DEF BuildPayload, OutOfMemory, FailSilently, Leave
<1>3. CASE BuildRequest
  BY <1>3 DEF BuildRequest, OutOfMemory, FailOutOfMemory, Leave
<1>4. CASE Resolve
  BY <1>4 DEF Resolve, Fail, SetError, Leave
<1>5. CASE OpenSocket \/ ConnectSocket
  BY <1>5 DEF OpenSocket, ConnectSocket
<1>6. CASE NoAddressLeft \/ RecvDeadline \/ RecvFails \/ CheckStatusLine \/
          ParseNumber
  BY <1>6 DEF NoAddressLeft, Fail, SetError, Leave, RecvDeadline, RecvFails, BlockingTime,
      CheckStatusLine, ParseNumber
<1>7. CASE SetTimeouts
  BY <1>7 DEF SetTimeouts, Fail, SetError, Leave
<1>8. CASE Send
  BY <1>8 DEF Send
<1>9. CASE SendFails
  BY <1>9 DEF SendFails, Fail, SetError, Leave
<1>10. CASE StartReceiving
  BY <1>10 DEF StartReceiving, OutOfMemory, FailOutOfMemory, Leave
<1>11. CASE RecvChunk
  BY <1>11 DEF RecvChunk, BlockingTime, Arrived, OutOfMemory, FailSilently, Fail, SetError,
      Leave
<1>12. CASE RecvEof
  BY <1>12 DEF RecvEof, BlockingTime, Arrived
<1>13. CASE SkipHeader
  BY <1>13 DEF SkipHeader, FailSilently, Leave
<1>14. CASE Deliver
  BY <1>14 DEF Deliver, Leave, Handed
<1>15. CASE ReleaseResponse \/ PeerRefuses \/ ConnectionBreaks
  BY <1>15 DEF ReleaseResponse, PeerRefuses, ConnectionBreaks
<1>16. ASSUME NEW c \in Calls, PeerExecutes(c) PROVE PeerType'
  BY <1>16 DEF PeerExecutes
<1>17. CASE UNCHANGED vars
  BY <1>17 DEF vars
<1> QED
  BY <1>1, <1>2, <1>3, <1>4, <1>5, <1>6, <1>7, <1>8, <1>9, <1>10, <1>11,
     <1>12, <1>13, <1>14, <1>15, <1>16, <1>17
  DEF Next, ClientStep, CallStep, PeerStep, SendInterrupted, Finished, vars

-----------------------------------------------------------------------------
(* The parts of the inductive invariant.                                   *)

\* http_send_all: partial writes keep the wire a prefix of the request.
LEMMA SendStep ==
  ASSUME ControlType, SendType, SendInv, [Next]_vars
  PROVE  SendInv'
<1> USE SizesAssumption, WireStep DEF SendType, SendInv, BeforeSend,
     clientVars, errorVars, sockVars, sendVars, recvVars, peerVars
<1>1. ASSUME NEW w \in BOOLEAN, SendCommand(w) PROVE SendInv'
  BY <1>1 DEF SendCommand, ClearError
<1>2. CASE BuildPayload
  BY <1>2 DEF BuildPayload, OutOfMemory, FailSilently, Leave
<1>3. CASE BuildRequest
  BY <1>3 DEF BuildRequest, OutOfMemory, FailOutOfMemory, Leave
<1>4. CASE Resolve
  BY <1>4 DEF Resolve, Fail, SetError, Leave
<1>5. CASE OpenSocket \/ ConnectSocket
  BY <1>5 DEF OpenSocket, ConnectSocket
<1>6. CASE NoAddressLeft \/ RecvDeadline \/ RecvFails \/ CheckStatusLine \/
          ParseNumber
  BY <1>6 DEF NoAddressLeft, Fail, SetError, Leave, RecvDeadline, RecvFails, BlockingTime,
      CheckStatusLine, ParseNumber
<1>7. CASE SetTimeouts
  BY <1>7 DEF SetTimeouts, Fail, SetError, Leave
<1>8. CASE Send
  BY <1>8 DEF Send
<1>9. CASE SendFails
  BY <1>9 DEF SendFails, Fail, SetError, Leave
<1>10. CASE StartReceiving
  BY <1>10 DEF StartReceiving, OutOfMemory, FailOutOfMemory, Leave
<1>11. CASE RecvChunk
  BY <1>11 DEF RecvChunk, BlockingTime, Arrived, OutOfMemory, FailSilently, Fail, SetError,
      Leave
<1>12. CASE RecvEof
  BY <1>12 DEF RecvEof, BlockingTime, Arrived
<1>13. CASE SkipHeader
  BY <1>13 DEF SkipHeader, FailSilently, Leave
<1>14. CASE Deliver
  BY <1>14 DEF Deliver, Leave, Handed
<1>15. CASE ReleaseResponse \/ PeerRefuses \/ ConnectionBreaks
  BY <1>15 DEF ReleaseResponse, PeerRefuses, ConnectionBreaks
<1>16. ASSUME NEW c \in Calls, PeerExecutes(c) PROVE SendInv'
  BY <1>16 DEF PeerExecutes
<1>17. CASE UNCHANGED vars
  BY <1>17 DEF vars
<1> QED
  BY <1>1, <1>2, <1>3, <1>4, <1>5, <1>6, <1>7, <1>8, <1>9, <1>10, <1>11,
     <1>12, <1>13, <1>14, <1>15, <1>16, <1>17
  DEF Next, ClientStep, CallStep, PeerStep, SendInterrupted, Finished, vars

\* Every return closes the descriptor and frees what the call still owns.
LEMMA ResourceStep ==
  ASSUME ControlType, SocketType, RecvType, ResourceInv, [Next]_vars
  PROVE  ResourceInv'
<1> USE ValuesAssumption, MarksAssumption DEF SocketType, ResourceInv,
     ResourcesReturned, Locals, clientVars, errorVars, sockVars, sendVars,
     recvVars, peerVars
<1>1. ASSUME NEW w \in BOOLEAN, SendCommand(w) PROVE ResourceInv'
  BY <1>1 DEF SendCommand, ClearError
<1>2. CASE BuildPayload
  BY <1>2 DEF BuildPayload, OutOfMemory, FailSilently, Leave
<1>3. CASE BuildRequest
  BY <1>3 DEF BuildRequest, OutOfMemory, FailOutOfMemory, Leave
<1>4. CASE Resolve
  BY <1>4 DEF Resolve, Fail, SetError, Leave
<1>5. CASE OpenSocket \/ ConnectSocket
  BY <1>5 DEF OpenSocket, ConnectSocket
<1>6. CASE NoAddressLeft \/ RecvDeadline \/ RecvFails \/ CheckStatusLine \/
          ParseNumber
  BY <1>6 DEF NoAddressLeft, Fail, SetError, Leave, RecvDeadline, RecvFails, BlockingTime,
      CheckStatusLine, ParseNumber
<1>7. CASE SetTimeouts
  BY <1>7 DEF SetTimeouts, Fail, SetError, Leave
<1>8. CASE Send
  BY <1>8 DEF Send
<1>9. CASE SendFails
  BY <1>9 DEF SendFails, Fail, SetError, Leave
<1>10. CASE StartReceiving
  BY <1>10 DEF StartReceiving, OutOfMemory, FailOutOfMemory, Leave
<1>11. CASE RecvChunk
  BY <1>11 DEF RecvChunk, BlockingTime, Arrived, OutOfMemory, FailSilently, Fail, SetError,
      Leave
<1>12. CASE RecvEof
  BY <1>12 DEF RecvEof, BlockingTime, Arrived
<1>13. CASE SkipHeader
  BY <1>13 DEF SkipHeader, FailSilently, Leave
<1>14. CASE Deliver
  <2>1. CASE want
    <3>1. response' = <<1, got>> /\ live' = live \ (Locals \ {"tmp_response"})
      BY <1>14, <2>1 DEF Deliver, Leave, Handed
    <3>2. <<1, got>> \in Nat \X Nat
      BY DEF RecvType
    <3>3. response' # NoResponse
      BY <3>1, <3>2
    <3>4. live' = {"tmp_response"}
      BY <3>1, <1>14 DEF Deliver
    <3> QED
      BY <3>3, <3>4, <1>14 DEF Deliver, Leave
  <2>2. CASE ~want
    BY <1>14, <2>2 DEF Deliver, Leave
  <2> QED BY <2>1, <2>2 DEF ControlType
<1>15. CASE ReleaseResponse \/ PeerRefuses \/ ConnectionBreaks
  BY <1>15 DEF ReleaseResponse, PeerRefuses, ConnectionBreaks
<1>16. ASSUME NEW c \in Calls, PeerExecutes(c) PROVE ResourceInv'
  BY <1>16 DEF PeerExecutes
<1>17. CASE UNCHANGED vars
  BY <1>17 DEF vars
<1> QED
  BY <1>1, <1>2, <1>3, <1>4, <1>5, <1>6, <1>7, <1>8, <1>9, <1>10, <1>11,
     <1>12, <1>13, <1>14, <1>15, <1>16, <1>17
  DEF Next, ClientStep, CallStep, PeerStep, SendInterrupted, Finished, vars

\* Reading starts with timeouts set, and the deadline is checked first.
LEMMA TimeStep ==
  ASSUME RecvType, TimeInv, [Next]_vars
  PROVE  TimeInv'
<1> USE TimesAssumption DEF RecvType, TimeInv, ReadingTimeBounded,
     clientVars, errorVars, sockVars, sendVars, recvVars, peerVars
<1>1. ASSUME NEW w \in BOOLEAN, SendCommand(w) PROVE TimeInv'
  BY <1>1 DEF SendCommand, ClearError
<1>2. CASE BuildPayload
  BY <1>2 DEF BuildPayload, OutOfMemory, FailSilently, Leave
<1>3. CASE BuildRequest
  BY <1>3 DEF BuildRequest, OutOfMemory, FailOutOfMemory, Leave
<1>4. CASE Resolve
  BY <1>4 DEF Resolve, Fail, SetError, Leave
<1>5. CASE OpenSocket \/ ConnectSocket
  BY <1>5 DEF OpenSocket, ConnectSocket
<1>6. CASE NoAddressLeft \/ RecvDeadline \/ RecvFails \/ CheckStatusLine \/
          ParseNumber
  BY <1>6 DEF NoAddressLeft, Fail, SetError, Leave, RecvDeadline, RecvFails, BlockingTime,
      CheckStatusLine, ParseNumber
<1>7. CASE SetTimeouts
  BY <1>7 DEF SetTimeouts, Fail, SetError, Leave
<1>8. CASE Send
  BY <1>8 DEF Send
<1>9. CASE SendFails
  BY <1>9 DEF SendFails, Fail, SetError, Leave
<1>10. CASE StartReceiving
  <2>1. elapsed' \in {0, elapsed}
    BY <1>10 DEF StartReceiving
  <2>2. pc' \in {"recv", "idle"} /\ timed' = timed
    BY <1>10 DEF StartReceiving, FailOutOfMemory, Leave
  <2> QED BY <2>1, <2>2, <1>10 DEF StartReceiving
<1>11. CASE RecvChunk
  <2>1. elapsed' <= Deadline + IoTimeout
    BY <1>11 DEF RecvChunk, BlockingTime
  <2>2. pc' \in {"recv", "idle"} /\ timed' = timed
    BY <1>11 DEF RecvChunk, FailSilently, Fail, Leave
  <2> QED BY <2>1, <2>2, <1>11 DEF RecvChunk
<1>12. CASE RecvEof
  BY <1>12 DEF RecvEof, BlockingTime, Arrived
<1>13. CASE SkipHeader
  BY <1>13 DEF SkipHeader, FailSilently, Leave
<1>14. CASE Deliver
  BY <1>14 DEF Deliver, Leave, Handed
<1>15. CASE ReleaseResponse \/ PeerRefuses \/ ConnectionBreaks
  BY <1>15 DEF ReleaseResponse, PeerRefuses, ConnectionBreaks
<1>16. ASSUME NEW c \in Calls, PeerExecutes(c) PROVE TimeInv'
  BY <1>16 DEF PeerExecutes
<1>17. CASE UNCHANGED vars
  BY <1>17 DEF vars
<1> QED
  BY <1>1, <1>2, <1>3, <1>4, <1>5, <1>6, <1>7, <1>8, <1>9, <1>10, <1>11,
     <1>12, <1>13, <1>14, <1>15, <1>16, <1>17
  DEF Next, ClientStep, CallStep, PeerStep, SendInterrupted, Finished, vars

\* A chunk beyond the limit ends the call, and is never delivered.
LEMMA SizeStep ==
  ASSUME RecvType, SizeInv, [Next]_vars
  PROVE  SizeInv'
<1> USE SizesAssumption, MarksAssumption DEF RecvType, SizeInv,
     ResponseBounded, BeforeSend, clientVars, errorVars, sockVars, sendVars,
     recvVars, peerVars
<1>1. ASSUME NEW w \in BOOLEAN, SendCommand(w) PROVE SizeInv'
  BY <1>1 DEF SendCommand, ClearError
<1>2. CASE BuildPayload
  BY <1>2 DEF BuildPayload, OutOfMemory, FailSilently, Leave
<1>3. CASE BuildRequest
  BY <1>3 DEF BuildRequest, OutOfMemory, FailOutOfMemory, Leave
<1>4. CASE Resolve
  BY <1>4 DEF Resolve, Fail, SetError, Leave
<1>5. CASE OpenSocket \/ ConnectSocket
  BY <1>5 DEF OpenSocket, ConnectSocket
<1>6. CASE NoAddressLeft \/ RecvDeadline \/ RecvFails \/ CheckStatusLine \/
          ParseNumber
  BY <1>6 DEF NoAddressLeft, Fail, SetError, Leave, RecvDeadline, RecvFails, BlockingTime,
      CheckStatusLine, ParseNumber
<1>7. CASE SetTimeouts
  BY <1>7 DEF SetTimeouts, Fail, SetError, Leave
<1>8. CASE Send
  BY <1>8 DEF Send
<1>9. CASE SendFails
  BY <1>9 DEF SendFails, Fail, SetError, Leave
<1>10. CASE StartReceiving
  BY <1>10 DEF StartReceiving, OutOfMemory, FailOutOfMemory, Leave
<1>11. CASE RecvChunk
  BY <1>11 DEF RecvChunk, BlockingTime, Arrived, OutOfMemory, FailSilently, Fail, SetError,
      Leave
<1>12. CASE RecvEof
  BY <1>12 DEF RecvEof, BlockingTime, Arrived
<1>13. CASE SkipHeader
  BY <1>13 DEF SkipHeader, FailSilently, Leave
<1>14. CASE Deliver
  BY <1>14 DEF Deliver, Leave, Handed
<1>15. CASE ReleaseResponse \/ PeerRefuses \/ ConnectionBreaks
  BY <1>15 DEF ReleaseResponse, PeerRefuses, ConnectionBreaks
<1>16. ASSUME NEW c \in Calls, PeerExecutes(c) PROVE SizeInv'
  BY <1>16 DEF PeerExecutes
<1>17. CASE UNCHANGED vars
  BY <1>17 DEF vars
<1> QED
  BY <1>1, <1>2, <1>3, <1>4, <1>5, <1>6, <1>7, <1>8, <1>9, <1>10, <1>11,
     <1>12, <1>13, <1>14, <1>15, <1>16, <1>17
  DEF Next, ClientStep, CallStep, PeerStep, SendInterrupted, Finished, vars

\* What the error state says after a return is about that return.
LEMMA ErrorInvStep ==
  ASSUME ControlType, ErrorInv, [Next]_vars
  PROVE  ErrorInv'
<1> USE SizesAssumption, MarksAssumption DEF ControlType, ErrorInv,
     ErrorExplainsStatus, Calls, Statuses, NotSent, clientVars, errorVars,
     sockVars, sendVars, recvVars, peerVars
<1>1. ASSUME NEW w \in BOOLEAN, SendCommand(w) PROVE ErrorInv'
  BY <1>1 DEF SendCommand, ClearError
<1>2. CASE BuildPayload
  BY <1>2 DEF BuildPayload, OutOfMemory, FailSilently, Leave
<1>3. CASE BuildRequest
  BY <1>3 DEF BuildRequest, OutOfMemory, FailOutOfMemory, Leave
<1>4. CASE Resolve
  <2>1. CASE Fail("HOST_NOT_FOUND")
    BY <1>4, <2>1, FailErrorInv DEF Resolve
  <2>2. CASE ~Fail("HOST_NOT_FOUND")
    BY <1>4, <2>2 DEF Resolve
  <2> QED BY <2>1, <2>2
<1>5. CASE OpenSocket \/ ConnectSocket
  BY <1>5 DEF OpenSocket, ConnectSocket
<1>6. CASE NoAddressLeft \/ RecvDeadline \/ RecvFails \/ CheckStatusLine \/
          ParseNumber
  BY <1>6, FailErrorInv DEF NoAddressLeft, RecvDeadline, RecvFails, CheckStatusLine, ParseNumber
<1>7. CASE SetTimeouts
  <2>1. CASE Fail("CONNECTION_FAILED")
    BY <1>7, <2>1, FailErrorInv DEF SetTimeouts
  <2>2. CASE ~Fail("CONNECTION_FAILED")
    BY <1>7, <2>2 DEF SetTimeouts
  <2> QED BY <2>1, <2>2
<1>8. CASE Send
  BY <1>8 DEF Send
<1>9. CASE SendFails
  <2>1. CASE Fail("WRITING_FAILED")
    BY <1>9, <2>1, FailErrorInv DEF SendFails
  <2>2. CASE ~Fail("WRITING_FAILED")
    BY <1>9, <2>2 DEF SendFails
  <2> QED BY <2>1, <2>2
<1>10. CASE StartReceiving
  BY <1>10 DEF StartReceiving, OutOfMemory, FailOutOfMemory, Leave
<1>11. CASE RecvChunk
  <2>1. CASE Fail("RESPONSE_TOO_LARGE")
    BY <1>11, <2>1, FailErrorInv DEF RecvChunk
  <2>2. CASE ~Fail("RESPONSE_TOO_LARGE")
    BY <1>11, <2>2 DEF RecvChunk, FailSilently, OutOfMemory, Leave
  <2> QED BY <2>1, <2>2
<1>12. CASE RecvEof
  BY <1>12 DEF RecvEof, BlockingTime, Arrived
<1>13. CASE SkipHeader
  BY <1>13 DEF SkipHeader, FailSilently, Leave
<1>14. CASE Deliver
  BY <1>14 DEF Deliver, Leave, Handed
<1>15. CASE ReleaseResponse \/ PeerRefuses \/ ConnectionBreaks
  BY <1>15 DEF ReleaseResponse, PeerRefuses, ConnectionBreaks
<1>16. ASSUME NEW c \in Calls, PeerExecutes(c) PROVE ErrorInv'
  BY <1>16 DEF PeerExecutes
<1>17. CASE UNCHANGED vars
  BY <1>17 DEF vars
<1> QED
  BY <1>1, <1>2, <1>3, <1>4, <1>5, <1>6, <1>7, <1>8, <1>9, <1>10, <1>11,
     <1>12, <1>13, <1>14, <1>15, <1>16, <1>17
  DEF Next, ClientStep, CallStep, PeerStep, SendInterrupted, Finished, vars

\* What a return says about the execution of its call is true and stays true.
LEMMA ExecutionStep ==
  ASSUME ControlType, SendType, PeerType, SendInv, ExecutionInv, [Next]_vars
  PROVE  ExecutionInv'
<1> USE SizesAssumption, ValuesAssumption DEF ControlType, PeerType, Calls,
     Statuses, NotSent, BeforeSend, SendType, SendInv, clientVars, errorVars,
     sockVars, sendVars, recvVars, peerVars
<1>1. ASSUME NEW w \in BOOLEAN, SendCommand(w) PROVE ExecutionInv'
  BY <1>1 DEF SendCommand, ClearError, ExecutionInv, ExecutedAsReported
<1>2. CASE BuildPayload
  <2>1. CASE FailSilently("MEMORY_ERROR")
    BY <1>2, <2>1, LeaveExecutionInv DEF BuildPayload, FailSilently
  <2>2. CASE ~(FailSilently("MEMORY_ERROR"))
    BY <1>2, <2>2 DEF BuildPayload, ExecutionInv, ExecutedAsReported
  <2> QED BY <2>1, <2>2
<1>3. CASE BuildRequest
  <2>1. CASE FailOutOfMemory
    BY <1>3, <2>1, LeaveExecutionInv DEF BuildRequest, FailOutOfMemory
  <2>2. CASE ~(FailOutOfMemory)
    BY <1>3, <2>2 DEF BuildRequest, ExecutionInv, ExecutedAsReported
  <2> QED BY <2>1, <2>2
<1>4. CASE Resolve
  <2>1. call \notin delivered
    BY <1>4 DEF Resolve, ExecutionInv
  <2>2. CASE Fail("HOST_NOT_FOUND")
    BY <1>4, <2>1, <2>2, LeaveExecutionInv DEF Resolve, Fail
  <2>3. CASE ~Fail("HOST_NOT_FOUND")
    BY <1>4, <2>3, SMTT(30) DEF Resolve, ExecutionInv, ExecutedAsReported
  <2> QED BY <2>2, <2>3
<1>5. CASE OpenSocket \/ ConnectSocket
  BY <1>5, ZenonT(30) DEF OpenSocket, ConnectSocket, ExecutionInv, ExecutedAsReported
<1>6. CASE NoAddressLeft
  <2>1. call \notin delivered
    BY <1>6 DEF NoAddressLeft, ExecutionInv
  <2> QED BY <1>6, <2>1, LeaveExecutionInv DEF NoAddressLeft, Fail
<1>7. CASE SetTimeouts
  <2>1. call \notin delivered
    BY <1>7 DEF SetTimeouts, ExecutionInv
  <2>2. CASE Fail("CONNECTION_FAILED")
    BY <1>7, <2>1, <2>2, LeaveExecutionInv DEF SetTimeouts, Fail
  <2>3. CASE ~Fail("CONNECTION_FAILED")
    BY <1>7, <2>3 DEF SetTimeouts, ExecutionInv, ExecutedAsReported
  <2> QED BY <2>2, <2>3
<1>8. CASE Send
  <2>1. PICK n \in 1 .. send_remaining :
             /\ wire' = wire \o [i \in 1 .. n |-> send_ptr + i]
             /\ send_ptr' = send_ptr + n
    BY <1>8 DEF Send
  <2>2. Len(wire') = send_ptr'
    BY <2>1, WireStep, WireLen DEF SendInv, SendType
  <2>3. pc = "send" /\ UNCHANGED <<pc, call, result, executed, runs, reply>>
    BY <1>8 DEF Send
  <2>4. call \in Calls /\ result[call] = "none"
    BY <2>3 DEF ExecutionInv
  <2>5. delivered' = delivered \/ (delivered' = delivered \cup {call} /\ send_ptr' = RequestSize)
    BY <1>8, <2>2 DEF Send
  <2>6. ~(send_remaining = 0)
    BY <2>1 DEF SendType
  <2>7. call \notin delivered
    BY <2>3, <2>6 DEF ExecutionInv, SendInv, SendType
  <2>8. \A c \in Calls :
          /\ executed[c] <= runs
          /\ executed[c] > 0 => c \in delivered'
          /\ c \in delivered' => c <= call /\ result[c] \notin NotSent
    BY <2>4, <2>5 DEF ExecutionInv
  <2> QED BY <2>3, <2>5, <2>7, <2>8 DEF ExecutionInv, ExecutedAsReported
<1>9. CASE SendFails
  <2>1. call \notin delivered
    BY <1>9 DEF SendFails, ExecutionInv
  <2>2. CASE Fail("WRITING_FAILED")
    BY <1>9, <2>1, <2>2, LeaveExecutionInv DEF SendFails, Fail
  <2>3. CASE ~Fail("WRITING_FAILED")
    BY <1>9, <2>3 DEF SendFails, ExecutionInv, ExecutedAsReported
  <2> QED BY <2>2, <2>3
<1>10. CASE StartReceiving
  <2>1. CASE FailOutOfMemory
    BY <1>10, <2>1, LeaveExecutionInv DEF StartReceiving, FailOutOfMemory
  <2>2. CASE ~(FailOutOfMemory)
    BY <1>10, <2>2 DEF StartReceiving, ExecutionInv, ExecutedAsReported
  <2> QED BY <2>1, <2>2
<1>11. CASE RecvDeadline \/ RecvFails \/ CheckStatusLine \/ ParseNumber \/
          SkipHeader
  BY <1>11, LeaveExecutionInv
    DEF Fail, FailSilently, RecvDeadline, RecvFails, CheckStatusLine, ParseNumber, SkipHeader
<1>12. CASE RecvChunk
  <2>1. CASE Fail("RESPONSE_TOO_LARGE") \/ FailSilently("MEMORY_ERROR")
    BY <1>12, <2>1, LeaveExecutionInv DEF RecvChunk, Fail, FailSilently
  <2>2. CASE ~(Fail("RESPONSE_TOO_LARGE") \/ FailSilently("MEMORY_ERROR"))
    BY <1>12, <2>2 DEF RecvChunk, ExecutionInv, ExecutedAsReported
  <2> QED BY <2>1, <2>2
<1>13. CASE RecvEof
  BY <1>13 DEF RecvEof, BlockingTime, Arrived, ExecutionInv, ExecutedAsReported
<1>14. CASE Deliver
  <2>1. executed[call] > 0
    BY <1>14 DEF Deliver, Number, ExecutionInv
  <2> QED BY <1>14, <2>1, LeaveExecutionInv DEF Deliver
<1>15. CASE ReleaseResponse \/ PeerRefuses \/ ConnectionBreaks
  BY <1>15 DEF ReleaseResponse, PeerRefuses, ConnectionBreaks, ExecutionInv, ExecutedAsReported
<1>16. ASSUME NEW c \in Calls, PeerExecutes(c) PROVE ExecutionInv'
  BY <1>16 DEF PeerExecutes, ExecutionInv, ExecutedAsReported
<1>17. CASE UNCHANGED vars
  BY <1>17 DEF vars, ExecutionInv, ExecutedAsReported
<1> QED
  BY <1>1, <1>2, <1>3, <1>4, <1>5, <1>6, <1>7, <1>8, <1>9, <1>10, <1>11,
     <1>12, <1>13, <1>14, <1>15, <1>16, <1>17
  DEF Next, ClientStep, CallStep, PeerStep, SendInterrupted, Finished, vars

-----------------------------------------------------------------------------
(* The theorems.                                                           *)

\* The initial state satisfies the inductive invariant.
LEMMA InitInv == Init => IInv
<1> SUFFICES ASSUME Init PROVE IInv
  OBVIOUS
<1> USE SizesAssumption, TimesAssumption DEF Init, Calls, BeforeSend
<1>1. ControlType
  <2>1. result \in [Calls -> Statuses \cup {"none"}]
    OBVIOUS
  <2>2. pc \in Phases /\ pc = "idle" /\ want \in BOOLEAN
    BY DEF Phases
  <2>3. call \in 0 .. MaxCalls
    OBVIOUS
  <2> QED BY <2>1, <2>2, <2>3 DEF ControlType
<1>2. SocketType
  BY DEF SocketType
<1>3. ErrorType /\ RecvType
  BY DEF ErrorType, RecvType
<1>4. SendType
  BY DEF SendType
<1>5. PeerType
  BY DEF PeerType
<1>6. SendInv /\ TimeInv /\ SizeInv
  BY DEF SendInv, TimeInv, ReadingTimeBounded, SizeInv, ResponseBounded
<1>7. ResourceInv /\ ErrorInv
  BY DEF ResourceInv, ResourcesReturned, ErrorInv, ErrorExplainsStatus
<1>8. ExecutionInv
  BY DEF ExecutionInv, ExecutedAsReported, NotSent
<1> QED
  BY <1>1, <1>2, <1>3, <1>4, <1>5, <1>6, <1>7, <1>8 DEF IInv, TypeOK

\* Every step preserves the inductive invariant.
LEMMA NextInv == IInv /\ [Next]_vars => IInv'
BY ControlStep, ErrorStep, SocketStep, SendTypeStep, RecvStep, PeerTypeStep,
   SendStep, ResourceStep, TimeStep, SizeStep, ErrorInvStep, ExecutionStep
DEF IInv, TypeOK

\* The inductive invariant holds in every reachable state.
THEOREM Invariance == Spec => []IInv
BY InitInv, NextInv, PTL DEF Spec


\* Every variable keeps its type in every behaviour.
THEOREM TypeCorrect == Spec => []TypeOK
<1>1. IInv => TypeOK
  BY DEF IInv
<1> QED
  BY <1>1, Invariance, PTL

\* The peer sees the request in order, without gap or repetition, and the
\* client reads only after all of it is sent.
THEOREM OrderedRequest == Spec => []RequestInOrder
<1>1. IInv => RequestInOrder
  BY WireLen DEF IInv, TypeOK, SendType, SendInv, RequestInOrder
<1> QED
  BY <1>1, Invariance, PTL

\* Between two calls no descriptor is open and no buffer is lost.
THEOREM NoLeak == Spec => []ResourcesReturned
<1>1. IInv => ResourcesReturned
  BY DEF IInv, ResourceInv
<1> QED
  BY <1>1, Invariance, PTL

\* cfrds_server_get_error speaks of the last call.
THEOREM ErrorIsOfTheLastCall == Spec => []ErrorExplainsStatus
<1>1. IInv => ErrorExplainsStatus
  BY DEF IInv, ErrorInv
<1> QED
  BY <1>1, Invariance, PTL

\* OK means executed, a failure before the last send means never executed.
THEOREM StatusTellsExecution == Spec => []ExecutedAsReported
<1>1. IInv => ExecutedAsReported
  BY DEF IInv, ExecutionInv
<1> QED
  BY <1>1, Invariance, PTL

\* The receive loop ends within its deadline and one recv timeout.
THEOREM BoundedReading == Spec => []ReadingTimeBounded
<1>1. IInv => ReadingTimeBounded
  BY DEF IInv, TimeInv
<1> QED
  BY <1>1, Invariance, PTL

\* The response buffer outgrows its limit by at most one chunk.
THEOREM BoundedResponse == Spec => []ResponseBounded
<1>1. IInv => ResponseBounded
  BY DEF IInv, SizeInv
<1> QED
  BY <1>1, Invariance, PTL

-----------------------------------------------------------------------------
(* RdsTransport implements RdsCall.                                        *)

\* Nothing the caller sees changes.
LEMMA Invisible ==
  ASSUME (pc = "idle") = (pc' = "idle"), UNCHANGED <<call, result, executed, runs, response>>
  PROVE  UNCHANGED Promise!vars
BY DEF Promise!vars

\* A return of the code is a return of the promise.
LEMMA LeaveIsReturn ==
  ASSUME ControlType, PeerType, ExecutionInv, ResourceInv, pc # "idle",
         NEW s \in Statuses, NEW own, Leave(s, own),
         s \in NotSent => call \notin delivered,
         s = "OK" => executed[call] > 0,
         response' # NoResponse => s = "OK"
  PROVE  Promise!Next
<1>1. call \in Calls
  BY DEF ControlType
<1>2. s \in NotSent => executed[call] = 0
  BY <1>1 DEF ExecutionInv, PeerType
<1>3. Promise!Return(s)
  BY <1>2 DEF Promise!Return, Leave
<1> QED
  BY <1>3 DEF Promise!Next

\* So is a failing one, which leaves no response; only NotSent needs a check.
LEMMA FailIsReturn ==
  ASSUME ControlType, PeerType, ExecutionInv, ResourceInv, pc # "idle",
         NEW s \in Statuses \ {"OK"}, Fail(s) \/ FailSilently(s),
         s \in NotSent => call \notin delivered,
         UNCHANGED response
  PROVE  Promise!Next
<1>1. response' = NoResponse
  BY DEF ResourceInv
<1> QED
  BY <1>1, LeaveIsReturn DEF Fail, FailSilently

\* Every step is a step of the promise, or changes nothing the caller sees.
LEMMA PromiseStep ==
  ASSUME ControlType, SendType, PeerType, SendInv, ResourceInv, ExecutionInv,
         [Next]_vars
  PROVE  [Promise!Next]_(Promise!vars)
<1> USE DEF Statuses, NotSent, clientVars, errorVars, sockVars, sendVars,
     recvVars, peerVars
<1>1. ASSUME NEW w \in BOOLEAN, SendCommand(w) PROVE [Promise!Next]_(Promise!vars)
  <2>1. Promise!Issue
    BY <1>1 DEF SendCommand, Promise!Issue
  <2> QED BY <2>1 DEF Promise!Next
<1>2. CASE BuildPayload
  <2>1. CASE FailSilently("MEMORY_ERROR")
    BY <1>2, <2>1, FailIsReturn DEF BuildPayload
  <2>2. CASE ~FailSilently("MEMORY_ERROR")
    BY <1>2, <2>2, Invisible DEF BuildPayload
  <2> QED BY <2>1, <2>2
<1>3. CASE BuildRequest
  <2>1. CASE FailOutOfMemory
    <3>1. response' = NoResponse
      BY <1>3, <2>1 DEF BuildRequest, ResourceInv
    <3> QED BY <1>3, <2>1, <3>1, LeaveIsReturn DEF BuildRequest, FailOutOfMemory
  <2>2. CASE ~FailOutOfMemory
    BY <1>3, <2>2, Invisible DEF BuildRequest
  <2> QED BY <2>1, <2>2
<1>4. CASE Resolve
  <2>1. call \notin delivered
    BY <1>4 DEF Resolve, BeforeSend, ExecutionInv, SendInv, SendType
  <2>2. CASE Fail("HOST_NOT_FOUND")
    BY <1>4, <2>1, <2>2, FailIsReturn DEF Resolve
  <2>3. CASE ~Fail("HOST_NOT_FOUND")
    BY <1>4, <2>3, Invisible DEF Resolve
  <2> QED BY <2>2, <2>3
<1>5. CASE OpenSocket \/ ConnectSocket
  BY <1>5, Invisible DEF OpenSocket, ConnectSocket
<1>6. CASE NoAddressLeft
  <2>1. call \notin delivered
    BY <1>6 DEF NoAddressLeft, BeforeSend, ExecutionInv, SendInv, SendType
  <2> QED BY <1>6, <2>1, FailIsReturn DEF NoAddressLeft
<1>7. CASE SetTimeouts
  <2>1. call \notin delivered
    BY <1>7 DEF SetTimeouts, BeforeSend, ExecutionInv, SendInv, SendType
  <2>2. CASE Fail("CONNECTION_FAILED")
    BY <1>7, <2>1, <2>2, FailIsReturn DEF SetTimeouts
  <2>3. CASE ~Fail("CONNECTION_FAILED")
    BY <1>7, <2>3, Invisible DEF SetTimeouts
  <2> QED BY <2>2, <2>3
<1>8. CASE Send
  BY <1>8, Invisible DEF Send
<1>9. CASE SendFails
  <2>1. call \notin delivered
    BY <1>9 DEF SendFails, BeforeSend, ExecutionInv, SendInv, SendType
  <2>2. CASE Fail("WRITING_FAILED")
    BY <1>9, <2>1, <2>2, FailIsReturn DEF SendFails
  <2>3. CASE ~Fail("WRITING_FAILED")
    BY <1>9, <2>3, Invisible DEF SendFails
  <2> QED BY <2>2, <2>3
<1>10. CASE StartReceiving
  <2>1. CASE FailOutOfMemory
    <3>1. response' = NoResponse
      BY <1>10, <2>1 DEF StartReceiving, ResourceInv
    <3> QED BY <1>10, <2>1, <3>1, LeaveIsReturn DEF StartReceiving, FailOutOfMemory
  <2>2. CASE ~FailOutOfMemory
    BY <1>10, <2>2, Invisible DEF StartReceiving
  <2> QED BY <2>1, <2>2
<1>11. CASE RecvDeadline \/ RecvFails \/ CheckStatusLine \/ ParseNumber \/
          SkipHeader
  BY <1>11, FailIsReturn DEF RecvDeadline, RecvFails, CheckStatusLine, ParseNumber, SkipHeader
<1>12. CASE RecvChunk
  <2>1. CASE Fail("RESPONSE_TOO_LARGE") \/ FailSilently("MEMORY_ERROR")
    BY <1>12, <2>1, FailIsReturn DEF RecvChunk
  <2>2. CASE ~(Fail("RESPONSE_TOO_LARGE") \/ FailSilently("MEMORY_ERROR"))
    BY <1>12, <2>2, Invisible DEF RecvChunk
  <2> QED BY <2>1, <2>2
<1>13. CASE RecvEof
  BY <1>13, Invisible DEF RecvEof
<1>14. CASE Deliver
  <2>1. executed[call] > 0
    BY <1>14 DEF Deliver, Number, ExecutionInv
  <2> QED BY <1>14, <2>1, LeaveIsReturn DEF Deliver
<1>15. CASE ReleaseResponse
  <2>1. Promise!Release
    BY <1>15 DEF ReleaseResponse, Promise!Release
  <2> QED BY <2>1 DEF Promise!Next
<1>16. CASE PeerRefuses \/ ConnectionBreaks
  BY <1>16, Invisible DEF PeerRefuses, ConnectionBreaks
<1>17. ASSUME NEW c \in Calls, PeerExecutes(c) PROVE [Promise!Next]_(Promise!vars)
  <2>1. c <= call /\ result[c] \notin NotSent \cup {"OK"}
    BY <1>17 DEF PeerExecutes, ExecutionInv, ExecutedAsReported
  <2>2. Promise!Execute(c)
    BY <1>17, <2>1 DEF PeerExecutes, Promise!Execute
  <2> QED BY <2>2 DEF Promise!Next, Calls
<1>18. CASE UNCHANGED vars
  BY <1>18, Invisible DEF vars
<1> QED
  BY <1>1, <1>2, <1>3, <1>4, <1>5, <1>6, <1>7, <1>8, <1>9, <1>10, <1>11,
     <1>12, <1>13, <1>14, <1>15, <1>16, <1>17, <1>18
  DEF Next, ClientStep, CallStep, PeerStep, SendInterrupted, Finished, vars

\* Spec implements the promise to the callers.
THEOREM TransportKeepsPromise == Spec => KeepsPromise
<1>1. Init => Promise!Init
  BY DEF Init, Promise!Init, Calls
<1>2. IInv /\ [Next]_vars => [Promise!Next]_(Promise!vars)
  BY PromiseStep DEF IInv, TypeOK
<1> QED
  BY <1>1, <1>2, Invariance, PTL DEF Spec, KeepsPromise, Promise!Spec
=============================================================================
