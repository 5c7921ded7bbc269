-------------------------- MODULE RdsCommandsProofs --------------------------
(***************************************************************************)
(* Theorems about RdsCommands: the properties of the 49 commands, and that *)
(* the commands together keep the promise of RdsCall, for every number of  *)
(* calls and all other constants of RdsTransport.                          *)
(***************************************************************************)
EXTENDS RdsCommands, RdsTransportProofs

(* The parts of the transport's invariant that are not about the server    *)
(* object's error state, into which the commands also write.               *)
CoreInv ==
  /\ ControlType /\ SocketType /\ SendType /\ RecvType /\ PeerType
  /\ SendInv /\ ResourceInv /\ ExecutionInv /\ TimeInv /\ SizeInv

(* A command has returned only when its call has and its response is gone; *)
(* one that runs has made a call, and not yet touched its output.          *)
CommandInv ==
  /\ told # "running" => pc = "idle" /\ response = NoResponse
  /\ told = "running" => call \in Calls /\ kind \in Kinds /\ out = Untouched

(* The rest of the transport's invariant holds as long as a command runs:  *)
(* what the last command did to code and text, the next call clears.       *)
TextInv ==
  /\ error \in ErrorTexts \cup {NoError} /\ oom \in BOOLEAN
  /\ told = "running" => ErrorType /\ ErrorInv

CmdIInv ==
  /\ CoreInv /\ CmdTypeOK /\ CommandInv /\ TextInv
  /\ OutputIsOwnAnswer /\ TextIsOfLastCall

-----------------------------------------------------------------------------
(* Steps of the transport keep its part of the invariant.                  *)

LEMMA CoreStep ==
  ASSUME CoreInv, [Next]_vars
  PROVE  CoreInv'
BY ControlStep, SocketStep, SendTypeStep, RecvStep, PeerTypeStep, SendStep,
   ResourceStep, ExecutionStep, TimeStep, SizeStep DEF CoreInv

\* Nor do they depend on the error state.
LEMMA CoreKept ==
  ASSUME CoreInv,
         UNCHANGED <<pc, call, want, result, addrs, open, sock, timed, live, send_ptr,
                     send_remaining, wire, elapsed, got, response, conn, reply,
                     delivered, executed, runs>>
  PROVE  CoreInv'
<1>1. ControlType' /\ SocketType' /\ SendType' /\ RecvType' /\ PeerType'
  BY DEF CoreInv, ControlType, SocketType, SendType, RecvType, PeerType
<1>2. SendInv' /\ TimeInv' /\ SizeInv'
  BY DEF CoreInv, SendInv, TimeInv, ReadingTimeBounded, SizeInv, ResponseBounded
<1>3. ResourceInv' /\ ExecutionInv'
  BY DEF CoreInv, ResourceInv, ResourcesReturned, ExecutionInv, ExecutedAsReported
<1> QED
  BY <1>1, <1>2, <1>3 DEF CoreInv

\* The return of a command changes nothing of the transport but its response
\* and, between calls, code and text.
LEMMA ReleaseKeepsCore ==
  ASSUME CoreInv, pc = "idle", Release
  PROVE  /\ CoreInv' /\ pc' = "idle" /\ call' = call /\ response' = NoResponse
         /\ executed' = executed
<1>1. /\ UNCHANGED <<pc, call, want, result, sockVars, sendVars, elapsed, got, peerVars>>
      /\ response' = NoResponse /\ live' = live \ {"tmp_response"}
  BY DEF Release
<1>2. UNCHANGED <<pc, call, want, result, addrs, open, sock, timed, send_ptr, send_remaining,
                  wire, elapsed, got, conn, reply, delivered, executed, runs>>
  BY <1>1 DEF sockVars, sendVars, peerVars
<1>3. ControlType' /\ SocketType' /\ SendType' /\ RecvType' /\ PeerType'
  <2>1. ControlType' /\ PeerType'
    BY <1>2 DEF CoreInv, ControlType, PeerType
  <2>2. SocketType' /\ SendType' /\ RecvType'
    BY <1>1, <1>2 DEF CoreInv, SocketType, SendType, RecvType
  <2> QED BY <2>1, <2>2
<1>4. SendInv' /\ TimeInv'
  BY <1>2 DEF CoreInv, SendInv, TimeInv, ReadingTimeBounded
<1>5. ResourceInv'
  BY <1>1, <1>2 DEF CoreInv, ResourceInv, ResourcesReturned
<1>6. ExecutionInv'
  BY <1>2 DEF CoreInv, ExecutionInv, ExecutedAsReported
<1>7. SizeInv'
  BY <1>1, <1>2 DEF CoreInv, SizeInv, ResponseBounded
<1> QED
  BY <1>1, <1>2, <1>3, <1>4, <1>5, <1>6, <1>7 DEF CoreInv

\* A call that returned OK was executed and left no text, and one that
\* failed left its own or none.
LEMMA RunningReturn ==
  ASSUME CmdIInv, told = "running", pc = "idle"
  PROVE  /\ call \in Calls /\ call # 0 /\ out = Untouched /\ error_code # "minus_one"
         /\ result[call] \in Statuses \cup {"none"}
         /\ result[call] = "OK" => error = NoError /\ executed[call] > 0
         /\ error # NoError => error = <<call, result[call]>>
<1>1. call \in Calls /\ call # 0 /\ out = Untouched
  BY DEF CmdIInv, CommandInv, Calls
<1>2. result[call] \in Statuses \cup {"none"}
  BY <1>1 DEF CmdIInv, CoreInv, ControlType
<1>3. error_code # "minus_one"
  BY DEF CmdIInv, TextInv, ErrorType, Statuses, NotSent
<1>4. /\ result[call] = "OK" => error = NoError
      /\ error # NoError => error = <<call, result[call]>>
  BY <1>1 DEF CmdIInv, TextInv, ErrorInv, ErrorExplainsStatus
<1>5. result[call] = "OK" => executed[call] > 0
  BY <1>1 DEF CmdIInv, CoreInv, ExecutionInv, ExecutedAsReported
<1> QED
  BY <1>1, <1>2, <1>3, <1>4, <1>5

-----------------------------------------------------------------------------
(* The steps of the commands.                                              *)

\* A call that begins has cleared the error state.
LEMMA BeginKeeps ==
  ASSUME CmdIInv, NEW k \in Kinds, BeginCommand(k)
  PROVE  CmdIInv'
<1>1. SendCommand(k \notin NoResponseKinds) /\ (k \notin NoResponseKinds) \in BOOLEAN
  BY DEF BeginCommand
<1>2. [Next]_vars
  BY <1>1 DEF Next
<1>3. CoreInv'
  BY <1>2, CoreStep DEF CmdIInv
<1>4. /\ kind' = k /\ told' = "running" /\ out' = Untouched /\ pc' = "payload"
      /\ error_code' = "cleared" /\ error' = NoError /\ oom' = FALSE
  BY DEF BeginCommand, SendCommand, ClearError
<1>5. call' \in Calls
  BY <1>3, <1>4 DEF CoreInv, ControlType
<1>6. CommandInv' /\ CmdTypeOK' /\ OutputIsOwnAnswer' /\ TextIsOfLastCall'
  BY <1>4, <1>5 DEF CommandInv, CmdTypeOK, OutputIsOwnAnswer, TextIsOfLastCall,
                    NotSent, Refusals
<1>7. TextInv'
  BY <1>4 DEF TextInv, ErrorType, ErrorInv, ErrorExplainsStatus
<1> QED
  BY <1>3, <1>6, <1>7 DEF CmdIInv

\* Neither the running call nor the peer begins a call.
LEMMA SameCall ==
  ASSUME CallStep \/ PeerStep
  PROVE  call' = call
BY DEF CallStep, BuildPayload, BuildRequest, Resolve, OpenSocket, ConnectSocket,
       NoAddressLeft, SetTimeouts, Send, SendFails, StartReceiving, RecvDeadline,
       RecvChunk, RecvEof, RecvFails, CheckStatusLine, SkipHeader, ParseNumber,
       Deliver, PeerStep, PeerExecutes, PeerRefuses, ConnectionBreaks, Fail,
       FailSilently, FailOutOfMemory, Leave, clientVars

\* While a command runs, the transport's own steps keep its invariant.
LEMMA RunningKeeps ==
  ASSUME CmdIInv, told = "running", CallStep \/ PeerStep, UNCHANGED cmdVars
  PROVE  CmdIInv'
<1>1. [Next]_vars
  BY DEF Next, ClientStep
<1>2. CoreInv'
  BY <1>1, CoreStep DEF CmdIInv
<1>3. ErrorType' /\ ErrorInv'
  BY <1>1, ErrorStep, ErrorInvStep DEF CmdIInv, CoreInv, TextInv
<1>4. /\ told' = "running" /\ kind' = kind /\ out' = Untouched /\ call' = call
      /\ call \in Calls /\ kind \in Kinds
  BY SameCall DEF cmdVars, CmdIInv, CommandInv
<1>5. TextInv' /\ CommandInv'
  BY <1>3, <1>4 DEF TextInv, CommandInv, ErrorType
<1>6. CmdTypeOK'
  BY <1>3, <1>4 DEF CmdTypeOK, ErrorType
<1>7. OutputIsOwnAnswer'
  BY <1>4 DEF OutputIsOwnAnswer, NotSent, Refusals
<1>8. TextIsOfLastCall'
  <2>1. CASE pc' = "idle"
    <3>1. call' # 0
      BY <1>4, SizesAssumption DEF Calls
    <3>2. error' # NoError => error' = <<call', result'[call']>>
      BY <2>1, <3>1, <1>3 DEF ErrorInv, ErrorExplainsStatus
    <3> QED BY <3>2, <1>4 DEF TextIsOfLastCall
  <2>2. CASE pc' # "idle"
    BY <2>2, <1>3 DEF ErrorInv, TextIsOfLastCall
  <2> QED BY <2>1, <2>2
<1> QED
  BY <1>2, <1>5, <1>6, <1>7, <1>8 DEF CmdIInv

\* Between two commands the server may still execute an earlier request, and
\* nothing else moves.
LEMMA LateExecution ==
  ASSUME CmdIInv, told # "running", PeerStep, UNCHANGED cmdVars
  PROVE  CmdIInv'
<1>1. [Next]_vars
  BY DEF Next
<1>2. CoreInv'
  BY <1>1, CoreStep DEF CmdIInv
<1>3. PICK c \in Calls : PeerExecutes(c)
  BY DEF PeerStep, PeerRefuses, ConnectionBreaks, CmdIInv, CommandInv
<1>4. /\ UNCHANGED <<pc, call, error_code, error, oom, response, kind, told, out>>
      /\ executed' = [executed EXCEPT ![c] = runs + 1]
  BY <1>3 DEF PeerExecutes, clientVars, errorVars, recvVars, cmdVars
<1>5. CmdTypeOK' /\ CommandInv' /\ TextInv' /\ TextIsOfLastCall'
  BY <1>4 DEF CmdIInv, CmdTypeOK, CommandInv, TextInv, TextIsOfLastCall
<1>6. OutputIsOwnAnswer'
  <2>1. call \in Calls => (executed[call] > 0 => executed'[call] > 0)
    BY <1>4 DEF CmdIInv, CoreInv, PeerType
  <2>2. out # Untouched => out[1] \in Calls
    BY DEF CmdIInv, CmdTypeOK
  <2> QED BY <1>4, <2>1, <2>2 DEF CmdIInv, OutputIsOwnAnswer
<1> QED
  BY <1>2, <1>5, <1>6 DEF CmdIInv

\* A command that makes no call.
LEMMA RefusalKeeps ==
  ASSUME CmdIInv, RefuseCommand \/ GraphingOutOfMemory
  PROVE  CmdIInv'
<1>1. /\ UNCHANGED <<pc, call, want, result, oom, error, sockVars, live, sendVars, recvVars, peerVars>>
      /\ error_code' \in {error_code, "minus_one"}
      /\ told' \in Refusals \cup {"MEMORY_ERROR", "RESPONSE_ERROR"}
      /\ kind' = "none" /\ out' = Untouched /\ told # "running"
  BY DEF RefuseCommand, GraphingOutOfMemory, vars, clientVars, errorVars
<1>2. CoreInv'
  BY <1>1, CoreKept DEF CmdIInv, sockVars, sendVars, recvVars, peerVars
<1>3. CommandInv' /\ TextInv' /\ CmdTypeOK'
  BY <1>1 DEF CmdIInv, CommandInv, TextInv, CmdTypeOK, Refusals, Statuses, recvVars
<1>4. OutputIsOwnAnswer' /\ TextIsOfLastCall'
  BY <1>1 DEF CmdIInv, OutputIsOwnAnswer, TextIsOfLastCall
<1> QED
  BY <1>2, <1>3, <1>4 DEF CmdIInv

\* What every return of a command has to show: its status, its output and
\* the error state it leaves.
LEMMA ReturnKeeps ==
  ASSUME CmdIInv, told = "running", pc = "idle", Release,
         told' \in Statuses \cup {"none"}, kind' = kind,
         out' \in {Untouched} \cup ({call} \X {"value", "null", "buffer", "true", "false"}),
         out' # Untouched => executed[call] > 0 /\ told' \notin NotSent,
         error_code' \in Statuses \cup {"cleared", "count", "minus_one"},
         error' # NoError => error' = <<call, told'>> /\ error' \in ErrorTexts,
         oom' \in BOOLEAN
  PROVE  CmdIInv'
<1>1. /\ CoreInv' /\ pc' = "idle" /\ call' = call /\ response' = NoResponse
      /\ executed' = executed
  BY ReleaseKeepsCore DEF CmdIInv
<1>2. call \in Calls /\ kind \in Kinds
  BY DEF CmdIInv, CommandInv
<1>3. told' # "running" /\ told' \notin Refusals
  BY DEF Statuses, NotSent, Refusals
<1>4. CommandInv' /\ TextInv'
  BY <1>1, <1>3 DEF CommandInv, TextInv
<1>5. CmdTypeOK'
  BY <1>2 DEF CmdTypeOK
<1>6. OutputIsOwnAnswer' /\ TextIsOfLastCall'
  BY <1>1, <1>3 DEF OutputIsOwnAnswer, TextIsOfLastCall
<1> QED
  BY <1>1, <1>4, <1>5, <1>6 DEF CmdIInv

\* The six ways a command returns.
LEMMA CommandReturns ==
  ASSUME CmdIInv,
         PassFailure \/ ReturnUnparsed \/ ReturnLenient \/ ReturnStrict
           \/ ReturnTexted \/ ReturnExists
  PROVE  CmdIInv'
<1>1. told = "running" /\ pc = "idle" /\ Release /\ kind' = kind
  BY DEF PassFailure, ReturnUnparsed, ReturnLenient, ReturnStrict, ReturnTexted,
         ReturnExists, Returned
<1>2. /\ call \in Calls /\ out = Untouched /\ error_code # "minus_one"
      /\ result[call] \in Statuses \cup {"none"}
      /\ result[call] = "OK" => error = NoError /\ executed[call] > 0
      /\ error # NoError => error = <<call, result[call]>>
  BY <1>1, RunningReturn
<1>3. /\ error_code \in Statuses \cup {"cleared", "count", "minus_one"}
      /\ error # NoError => error \in ErrorTexts
      /\ oom \in BOOLEAN
  BY DEF CmdIInv, CmdTypeOK, TextInv
<1>4. "OK" \in Statuses \ NotSent /\ "RESPONSE_ERROR" \in Statuses \ NotSent
  BY DEF Statuses, NotSent
<1>5. CASE PassFailure
  BY <1>5, <1>1, <1>2, <1>3, ReturnKeeps DEF PassFailure, errorVars
<1>6. CASE ReturnUnparsed
  BY <1>6, <1>1, <1>2, <1>3, <1>4, ReturnKeeps DEF ReturnUnparsed, errorVars
<1>7. CASE ReturnLenient
  BY <1>7, <1>1, <1>2, <1>3, <1>4, ReturnKeeps DEF ReturnLenient, errorVars
<1>8. CASE ReturnStrict
  BY <1>8, <1>1, <1>2, <1>3, <1>4, ReturnKeeps DEF ReturnStrict
<1>9. CASE ReturnTexted /\ Parsed
  BY <1>9, <1>1, <1>2, <1>3, <1>4, ReturnKeeps DEF ReturnTexted, errorVars
<1>10. CASE ReturnTexted /\ ~Parsed
  <2>1. <<call, "RESPONSE_ERROR">> \in ErrorTexts
    BY <1>2, <1>4, ErrorTextType
  <2> QED
    BY <2>1, <1>10, <1>1, <1>2, <1>3, <1>4, ReturnKeeps DEF ReturnTexted, SetError
<1>11. CASE ReturnExists
  BY <1>11, <1>1, <1>2, <1>3, <1>4, ReturnKeeps DEF ReturnExists, NotFoundSeen, errorVars
<1> QED
  BY <1>5, <1>6, <1>7, <1>8, <1>9, <1>10, <1>11

LEMMA CmdInitInv == CmdInit => CmdIInv
<1> SUFFICES ASSUME CmdInit PROVE CmdIInv
  OBVIOUS
<1>1. CoreInv
  BY InitInv DEF CmdInit, IInv, TypeOK, CoreInv
<1>2. CommandInv /\ TextInv /\ CmdTypeOK
  BY DEF CmdInit, Init, CommandInv, TextInv, CmdTypeOK
<1>3. OutputIsOwnAnswer /\ TextIsOfLastCall
  BY DEF CmdInit, Init, OutputIsOwnAnswer, TextIsOfLastCall
<1> QED
  BY <1>1, <1>2, <1>3 DEF CmdIInv

LEMMA CmdNextInv == CmdIInv /\ [CmdNext]_allVars => CmdIInv'
<1> SUFFICES ASSUME CmdIInv, [CmdNext]_allVars PROVE CmdIInv'
  OBVIOUS
<1>1. ASSUME NEW k \in Kinds, BeginCommand(k) PROVE CmdIInv'
  BY <1>1, BeginKeeps
<1>2. CASE CallStep /\ UNCHANGED cmdVars
  <2>1. pc # "idle"
    BY <1>2 DEF CallStep, BuildPayload, BuildRequest, Resolve, OpenSocket,
       ConnectSocket, NoAddressLeft, SetTimeouts, Send, SendFails, StartReceiving,
       RecvDeadline, RecvChunk, RecvEof, RecvFails, CheckStatusLine, SkipHeader,
       ParseNumber, Deliver
  <2>2. told = "running"
    BY <2>1 DEF CmdIInv, CommandInv
  <2> QED BY <1>2, <2>2, RunningKeeps
<1>3. CASE PeerStep /\ UNCHANGED cmdVars
  BY <1>3, RunningKeeps, LateExecution
<1>4. CASE RefuseCommand \/ GraphingOutOfMemory
  BY <1>4, RefusalKeeps
<1>5. CASE PassFailure \/ ReturnUnparsed \/ ReturnLenient \/ ReturnStrict
             \/ ReturnTexted \/ ReturnExists
  BY <1>5, CommandReturns
<1>6. CASE UNCHANGED allVars
  <2>1. UNCHANGED <<vars, kind, told, out>>
    BY <1>6 DEF allVars, cmdVars
  <2>2. CoreInv'
    BY <2>1, CoreStep DEF CmdIInv
  <2>3. /\ UNCHANGED <<pc, call, result, error_code, error, oom, executed, response>>
        /\ UNCHANGED <<kind, told, out>>
    BY <2>1 DEF vars, clientVars, errorVars, recvVars, peerVars
  <2>4. CmdTypeOK' /\ CommandInv' /\ OutputIsOwnAnswer' /\ TextIsOfLastCall'
    BY <2>3 DEF CmdIInv, CmdTypeOK, CommandInv, OutputIsOwnAnswer, TextIsOfLastCall
  <2>5. TextInv'
    BY <2>3 DEF CmdIInv, TextInv, ErrorType, ErrorInv, ErrorExplainsStatus
  <2> QED BY <2>2, <2>4, <2>5 DEF CmdIInv
<1> QED
  BY <1>1, <1>2, <1>3, <1>4, <1>5, <1>6 DEF CmdNext, CmdStep, AllCallsMade

-----------------------------------------------------------------------------
(* The properties of the commands.                                         *)

\* The inductive invariant holds in every reachable state.
THEOREM CommandInvariance == CmdSpec => []CmdIInv
BY CmdInitInv, CmdNextInv, PTL DEF CmdSpec

\* Every variable of the command layer keeps its type.
THEOREM CommandTypeCorrect == CmdSpec => []CmdTypeOK
<1>1. CmdIInv => CmdTypeOK
  BY DEF CmdIInv
<1> QED
  BY <1>1, CommandInvariance, PTL

\* Whichever of its ways a command returns, its descriptor, its buffers and
\* its response are gone.
THEOREM CommandReturnsAll == CmdSpec => []CommandOwnsNothing
<1>1. CmdIInv => CommandOwnsNothing
  BY DEF CmdIInv, CommandInv, CommandOwnsNothing, CoreInv, ResourceInv, ResourcesReturned
<1> QED
  BY <1>1, CommandInvariance, PTL

\* The output of a command is the answer to its own, executed call.
THEOREM OwnAnswers == CmdSpec => []OutputIsOwnAnswer
<1>1. CmdIInv => OutputIsOwnAnswer
  BY DEF CmdIInv
<1> QED
  BY <1>1, CommandInvariance, PTL

\* The error text is of the last call, and of the status the command told.
THEOREM OwnErrorText == CmdSpec => []TextIsOfLastCall
<1>1. CmdIInv => TextIsOfLastCall
  BY DEF CmdIInv
<1> QED
  BY <1>1, CommandInvariance, PTL

\* The status of every call made by a command tells the truth about its
\* execution, whatever the commands do in between.
THEOREM CommandStatusTellsExecution == CmdSpec => []ExecutedAsReported
<1>1. CmdIInv => ExecutedAsReported
  BY DEF CmdIInv, CoreInv, ExecutionInv
<1> QED
  BY <1>1, CommandInvariance, PTL

-----------------------------------------------------------------------------
(* The commands keep the promise of RdsCall.                               *)

\* A command that returns releases the response of its call, if there is one.
LEMMA ReturnReleases ==
  ASSUME pc = "idle", Release
  PROVE  [Promise!Next]_(Promise!vars)
<1>1. UNCHANGED <<pc, call, result, executed, runs>> /\ response' = NoResponse
  BY DEF Release, peerVars
<1>2. CASE response = NoResponse
  BY <1>1, <1>2, Invisible
<1>3. CASE response # NoResponse
  <2>1. Promise!Release
    BY <1>1, <1>3 DEF Promise!Release
  <2> QED BY <2>1 DEF Promise!Next
<1> QED
  BY <1>2, <1>3

\* Every step of a command is a step of the promise, or invisible to it.
LEMMA CommandPromiseStep ==
  ASSUME CmdIInv, [CmdNext]_allVars
  PROVE  [Promise!Next]_(Promise!vars)
<1>1. CASE [Next]_vars
  BY <1>1, PromiseStep DEF CmdIInv, CoreInv
<1>2. ASSUME NEW k \in Kinds, BeginCommand(k) PROVE [Next]_vars
  <2>1. SendCommand(k \notin NoResponseKinds) /\ (k \notin NoResponseKinds) \in BOOLEAN
    BY <1>2 DEF BeginCommand
  <2> QED BY <2>1 DEF Next
<1>3. CASE CallStep \/ PeerStep
  BY <1>1, <1>3 DEF Next, ClientStep
<1>4. CASE RefuseCommand \/ GraphingOutOfMemory
  BY <1>4, Invisible DEF RefuseCommand, GraphingOutOfMemory, vars, clientVars,
                         recvVars, peerVars
<1>5. CASE PassFailure \/ ReturnUnparsed \/ ReturnLenient \/ ReturnStrict
             \/ ReturnTexted \/ ReturnExists
  BY <1>5, ReturnReleases DEF PassFailure, ReturnUnparsed, ReturnLenient,
     ReturnStrict, ReturnTexted, ReturnExists, Returned
<1>6. CASE UNCHANGED allVars
  BY <1>1, <1>6 DEF allVars
<1> QED
  BY <1>1, <1>2, <1>3, <1>4, <1>5, <1>6 DEF CmdNext, CmdStep, AllCallsMade

\* An application that uses the commands sees the promise of RdsCall kept.
THEOREM CommandsKeepPromise == CmdSpec => KeepsPromise
<1>1. CmdInit => Promise!Init
  BY DEF CmdInit, Init, Promise!Init, Calls
<1>2. CmdIInv /\ [CmdNext]_allVars => [Promise!Next]_(Promise!vars)
  BY CommandPromiseStep
<1> QED
  BY <1>1, <1>2, CommandInvariance, PTL DEF CmdSpec, KeepsPromise, Promise!Spec
=============================================================================
