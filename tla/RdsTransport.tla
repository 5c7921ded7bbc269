---------------------------- MODULE RdsTransport ----------------------------
(***************************************************************************)
(* One RDS call of libcfrds: cfrds_send_command (src/cfrds_server.c) and   *)
(* the cfrds_http_post (src/cfrds_http.c) below it, against a ColdFusion   *)
(* server reached over a network that may fail at any point.               *)
(*                                                                         *)
(* The library is a sequence of blocking system calls; every system call   *)
(* whose outcome the environment decides is a step, and so are the peer's  *)
(* own moves: executing the request, answering, closing the connection.    *)
(* Requests and replies are counted in abstract units:                     *)
(*   - a request is the units 1 .. RequestSize of send_buf;                *)
(*   - unit 1 of a reply is its status line, unit 2 the rest of the header *)
(*     with the blank line, unit 3 the RDS count or error number, and the  *)
(*     units from 4 on are the items.                                      *)
(* server->_errno is left out: it is written and never read.               *)
(***************************************************************************)
EXTENDS Integers, Sequences

CONSTANTS
  Fds,              \* descriptors the process can still open
  NoFd,             \* CFRDS_INVALID_SOCKET
  NoReply,          \* the peer has not answered
  NoResponse,       \* the caller's *response is NULL
  NoError,          \* server->error is NULL
  MaxCalls,         \* calls made on the server object (bounds the runs)
  MaxAddrs,         \* addresses getaddrinfo may return
  RequestSize,      \* units of a request
  RecvSize,         \* sizeof(recv_buf)
  MaxResponseSize,  \* CFRDS_MAX_RESPONSE_SIZE
  Deadline,         \* CFRDS_MAX_RESPONSE_TIMEOUT_SEC
  IoTimeout,        \* SO_RCVTIMEO and SO_SNDTIMEO
  Patience,         \* how long a recv without SO_RCVTIMEO may block
  Replies,          \* what a peer may answer
  AllocMayFail,     \* TRUE: any malloc may return NULL
  SigPipeIgnored    \* TRUE: the application ignores SIGPIPE

\* A reply: is its status line a 200, does a blank line end its header, what
\* stands where the RDS number is expected, and how many units arrive in all.
Reply == [ok : BOOLEAN, sep : BOOLEAN, code : {"nat", "neg", "bad"}, len : Nat]

ASSUME SizesAssumption ==
  /\ MaxCalls \in Nat /\ MaxAddrs \in Nat
  /\ RequestSize \in Nat \ {0} /\ RecvSize \in Nat \ {0}
  /\ MaxResponseSize \in Nat
ASSUME TimesAssumption ==
  /\ Deadline \in Nat /\ IoTimeout \in Nat /\ Patience \in Nat
ASSUME ValuesAssumption ==
  /\ NoFd \notin Fds
  /\ Replies \subseteq Reply
  /\ NoReply \notin Reply
  /\ AllocMayFail \in BOOLEAN /\ SigPipeIgnored \in BOOLEAN

Calls == 1 .. MaxCalls

\* The statuses a call returns before its request can have reached the peer
\* in full, and all of them.
NotSent == {"HOST_NOT_FOUND", "CONNECTION_FAILED", "WRITING_FAILED"}
Statuses == NotSent \cup {"OK", "MEMORY_ERROR", "READING_FAILED",
             "RESPONSE_TOO_LARGE", "RESPONSE_ERROR", "HTTP_RESPONSE_NOT_FOUND"}

ErrorTexts == Calls \X Statuses
ASSUME MarksAssumption ==
  /\ NoError \notin ErrorTexts
  /\ NoResponse \notin Nat \X Nat

VARIABLES
  pc,          \* where the client is; "idle" between two calls
  call,        \* number of the current (or last) call, 0 before the first
  want,        \* the caller passed a response pointer
  result,      \* what each call returned
  error_code,  \* server->error_code
  error,       \* server->error: which call wrote it, and for which status
  oom,         \* an allocation failed during this call
  addrs,       \* addresses not tried yet
  open,        \* descriptors open
  sock,        \* sockfd
  live,        \* buffers allocated
  timed,       \* SO_RCVTIMEO and SO_SNDTIMEO are set
  send_ptr,    \* units of the request already handed to send()
  send_remaining,
  wire,        \* the units the connection has accepted, in order
  elapsed,     \* time(NULL) - start_time
  got,         \* units in tmp_response
  response,    \* *response: first and last unit of the reply it holds
  conn,        \* the connection, as the peer and the network left it
  reply,       \* what the peer answers on this connection
  delivered,   \* calls whose whole request reached the peer
  executed,    \* executed[c] = n: c was the peer's n-th execution; 0: not yet
  runs         \* executions so far

clientVars == <<pc, call, want, result, oom>>
errorVars  == <<error_code, error>>
sockVars   == <<addrs, open, sock, timed>>
sendVars   == <<send_ptr, send_remaining, wire>>
recvVars   == <<elapsed, got, response>>
peerVars   == <<conn, reply, delivered, executed, runs>>
vars == <<clientVars, errorVars, sockVars, live, sendVars, recvVars, peerVars>>

-----------------------------------------------------------------------------
(* The server object's error state and the way out of a call.              *)

\* Mutant of ClearError: the old text is kept.
ClearCodeOnly ==
  /\ error_code' = "cleared"
  /\ UNCHANGED error

\* cfrds_server_clear_error: error_code is set to 1 and the text freed.
ClearError ==
  /\ error_code' = "cleared"
  /\ error' = NoError

\* cfrds_server_set_error: the code is the status; strdup may fail.
SetError(s) ==
  /\ error_code' = s
  /\ \/ /\ error' = <<call, s>>
        /\ UNCHANGED oom
     \/ /\ AllocMayFail
        /\ error' = NoError
        /\ oom' = TRUE

\* A return from cfrds_http_post and cfrds_send_command: the deferred
\* cleanups close sockfd and free the buffers that are still the call's own.
Leave(s, own) ==
  /\ pc' = "idle"
  /\ result' = [result EXCEPT ![call] = s]
  /\ open' = open \ {sock}
  /\ sock' = NoFd
  /\ live' = live \ own
  /\ conn' = "none"
  /\ UNCHANGED <<call, want, addrs, timed, sendVars>>
  /\ UNCHANGED <<reply, delivered, executed, runs>>

Locals == {"post", "send_buf", "tmp_response"}

\* A failing return that records the error, and one that does not.
Fail(s) == SetError(s) /\ Leave(s, Locals)
FailSilently(s) == UNCHANGED errorVars /\ Leave(s, Locals)

\* Failing allocations: before cfrds_http_post, and when appending a chunk,
\* nothing is recorded; elsewhere the code and, if strdup succeeds, the text.
OutOfMemory == AllocMayFail /\ oom' = TRUE
FailOutOfMemory ==
  /\ OutOfMemory
  /\ error_code' = "MEMORY_ERROR"
  /\ error' \in {NoError, <<call, "MEMORY_ERROR">>}
  /\ Leave("MEMORY_ERROR", Locals)

-----------------------------------------------------------------------------
(* Client steps, in the order of the code.                                 *)

\* A command calls cfrds_send_command with or without a response pointer.
SendCommand(w) ==
  /\ pc = "idle" /\ response = NoResponse /\ call < MaxCalls
  /\ ClearError
  /\ call' = call + 1
  /\ want' = w
  /\ pc' = "payload"
  /\ oom' = FALSE /\ timed' = FALSE
  /\ send_ptr' = 0 /\ send_remaining' = 0 /\ wire' = <<>>
  /\ elapsed' = 0 /\ got' = 0
  /\ conn' = "none" /\ reply' = NoReply
  /\ UNCHANGED <<result, addrs, open, sock, live, response>>
  /\ UNCHANGED <<delivered, executed, runs>>

\* The payload: count, parameters, user name and encoded password.
BuildPayload ==
  /\ pc = "payload"
  /\ \/ /\ pc' = "request"
        /\ live' = live \cup {"post"}
        /\ UNCHANGED <<call, want, result, oom, errorVars, sockVars>>
        /\ UNCHANGED <<sendVars, recvVars, peerVars>>
     \/ OutOfMemory /\ FailSilently("MEMORY_ERROR") /\ UNCHANGED recvVars

\* send_buf and http_build_request; a failure is recorded.
BuildRequest ==
  /\ pc = "request"
  /\ \/ /\ pc' = "resolve"
        /\ live' = live \cup {"send_buf"}
        /\ UNCHANGED <<call, want, result, oom, errorVars, sockVars>>
        /\ UNCHANGED <<sendVars, recvVars, peerVars>>
     \/ FailOutOfMemory /\ UNCHANGED recvVars

Resolve ==
  /\ pc = "resolve"
  /\ UNCHANGED recvVars
  /\ \/ Fail("HOST_NOT_FOUND")
     \/ /\ addrs' \in 1 .. MaxAddrs
        /\ pc' = "connect"
        /\ UNCHANGED <<call, want, result, oom, errorVars, open, sock, timed>>
        /\ UNCHANGED <<live, sendVars, peerVars>>

\* socket(): on failure the loop goes on to the next address.
OpenSocket ==
  /\ pc = "connect" /\ addrs > 0
  /\ addrs' = addrs - 1
  /\ \/ UNCHANGED <<pc, open, sock>>
     \/ \E fd \in Fds \ open :
          /\ open' = open \cup {fd}
          /\ sock' = fd
          /\ pc' = "connecting"
  /\ UNCHANGED <<call, want, result, oom, errorVars, timed, live>>
  /\ UNCHANGED <<sendVars, recvVars, peerVars>>

\* Mutant of ConnectSocket: a failed connect() does not close its descriptor.
ConnectLeaking ==
  /\ pc = "connecting"
  /\ \/ pc' = "sockopt" /\ conn' = "up" /\ UNCHANGED sock
     \/ pc' = "connect" /\ sock' = NoFd /\ UNCHANGED conn
  /\ UNCHANGED <<call, want, result, oom, errorVars, addrs, timed, live, open>>
  /\ UNCHANGED <<sendVars, recvVars, reply, delivered, executed, runs>>

\* connect(): a failure closes the descriptor and tries the next address.
ConnectSocket ==
  /\ pc = "connecting"
  /\ \/ /\ pc' = "sockopt" /\ conn' = "up"
        /\ UNCHANGED <<open, sock>>
     \/ /\ pc' = "connect"
        /\ open' = open \ {sock}
        /\ sock' = NoFd
        /\ UNCHANGED conn
  /\ UNCHANGED <<call, want, result, oom, errorVars, addrs, timed, live>>
  /\ UNCHANGED <<sendVars, recvVars, reply, delivered, executed, runs>>

NoAddressLeft ==
  /\ pc = "connect" /\ addrs = 0
  /\ Fail("CONNECTION_FAILED")
  /\ UNCHANGED recvVars

\* Mutant of SetTimeouts: a failing setsockopt() is ignored.
TimeoutsOptional ==
  /\ pc = "sockopt" /\ pc' = "send"
  /\ timed' \in BOOLEAN
  /\ send_remaining' = RequestSize
  /\ UNCHANGED <<call, want, result, oom, errorVars, addrs, open, sock>>
  /\ UNCHANGED <<live, send_ptr, wire, recvVars, peerVars>>

SetTimeouts ==
  /\ pc = "sockopt"
  /\ UNCHANGED recvVars
  /\ \/ Fail("CONNECTION_FAILED")
     \/ /\ timed' = TRUE
        /\ pc' = "send"
        /\ send_remaining' = RequestSize
        /\ UNCHANGED <<call, want, result, oom, errorVars, addrs, open, sock>>
        /\ UNCHANGED <<live, send_ptr, wire, peerVars>>

(* http_send_all. *)

\* Mutant of Send: the pointer is not advanced after a partial write.
SendFromStart ==
  /\ pc = "send" /\ conn = "up"
  /\ \E n \in 1 .. send_remaining :
       /\ wire' = wire \o [i \in 1 .. n |-> i]
       /\ send_ptr' = send_ptr + n
       /\ send_remaining' = send_remaining - n
  /\ delivered' = IF Len(wire') = RequestSize THEN delivered \cup {call}
                                              ELSE delivered
  /\ UNCHANGED <<clientVars, errorVars, sockVars, live, recvVars>>
  /\ UNCHANGED <<conn, reply, executed, runs>>

\* send() accepts n units from send_ptr on; the peer has the whole request
\* when its Content-length is reached.
Send ==
  /\ pc = "send" /\ conn = "up"
  /\ \E n \in 1 .. send_remaining :
       /\ wire' = wire \o [i \in 1 .. n |-> send_ptr + i]
       /\ send_ptr' = send_ptr + n
       /\ send_remaining' = send_remaining - n
  /\ delivered' = IF Len(wire') = RequestSize THEN delivered \cup {call}
                                              ELSE delivered
  /\ UNCHANGED <<clientVars, errorVars, sockVars, live, recvVars>>
  /\ UNCHANGED <<conn, reply, executed, runs>>

\* Mutant of SendInterrupted: without the continue, -1 counts as progress.
SendMinusOne ==
  /\ pc = "send" /\ send_remaining > 0
  /\ send_ptr' = send_ptr - 1 /\ send_remaining' = send_remaining + 1
  /\ UNCHANGED <<clientVars, errorVars, sockVars, live, wire, recvVars, peerVars>>

\* send() returns -1 with EINTR: nothing was accepted, the loop retries.
SendInterrupted ==
  /\ pc = "send" /\ send_remaining > 0
  /\ UNCHANGED vars

\* Any other error, SO_SNDTIMEO included. On a connection the peer has shut,
\* send() without MSG_NOSIGNAL also raises SIGPIPE, whose default action
\* ends the process: the kernel then closes its descriptors.
SendFails ==
  /\ pc = "send" /\ send_remaining > 0
  /\ UNCHANGED recvVars
  /\ \/ Fail("WRITING_FAILED")
     \/ /\ conn = "reset" /\ ~SigPipeIgnored
        /\ pc' = "killed"
        /\ open' = {} /\ sock' = NoFd /\ live' = {}
        /\ UNCHANGED <<call, want, result, oom, errorVars, addrs, timed>>
        /\ UNCHANGED <<sendVars, peerVars>>

\* The request is sent: tmp_response is created, start_time read.
StartReceiving ==
  /\ pc = "send" /\ send_remaining = 0
  /\ \/ /\ pc' = "recv"
        /\ live' = live \cup {"tmp_response"}
        /\ elapsed' = 0
        /\ UNCHANGED <<call, want, result, oom, errorVars, sockVars>>
        /\ UNCHANGED <<sendVars, got, response, peerVars>>
     \/ FailOutOfMemory /\ UNCHANGED recvVars

-----------------------------------------------------------------------------
(* http_receive_response: one iteration of its loop is a deadline check,   *)
(* then a recv() that blocks for d seconds.                                *)

BlockingTime == 0 .. (IF timed THEN IoTimeout ELSE Patience)
Arrived == IF reply = NoReply THEN 0 ELSE reply.len

RecvDeadline ==
  /\ pc = "recv" /\ elapsed > Deadline
  /\ Fail("READING_FAILED")
  /\ UNCHANGED recvVars

\* Mutant of RecvChunk: no size check.
RecvUnlimited ==
  /\ pc = "recv" /\ elapsed <= Deadline
  /\ \E d \in BlockingTime : elapsed' = elapsed + d
  /\ \E n \in 1 .. RecvSize : got + n <= Arrived /\ got' = got + n
  /\ UNCHANGED <<clientVars, errorVars, sockVars, live, sendVars, response, peerVars>>

\* A chunk arrives: it is appended, then the size is checked.
RecvChunk ==
  /\ pc = "recv" /\ elapsed <= Deadline
  /\ \E d \in BlockingTime : elapsed' = elapsed + d
  /\ UNCHANGED response
  /\ \E n \in 1 .. RecvSize :
       /\ got + n <= Arrived
       /\ \/ /\ got' = got + n
             /\ got' <= MaxResponseSize
             /\ UNCHANGED <<clientVars, errorVars, sockVars, live>>
             /\ UNCHANGED <<sendVars, peerVars>>
          \/ /\ got' = got + n
             /\ got' > MaxResponseSize
             /\ Fail("RESPONSE_TOO_LARGE")
          \/ /\ UNCHANGED got
             /\ OutOfMemory /\ FailSilently("MEMORY_ERROR")

\* recv() = 0: the peer has closed after its last unit, whatever the
\* Content-length of the reply said.
RecvEof ==
  /\ pc = "recv" /\ elapsed <= Deadline
  /\ reply # NoReply /\ got = Arrived
  /\ \E d \in BlockingTime : elapsed' = elapsed + d
  /\ pc' = "parse"
  /\ UNCHANGED <<call, want, result, oom, errorVars, sockVars, live>>
  /\ UNCHANGED <<sendVars, got, response, peerVars>>

\* Mutants of RecvFails: EINTR starts the wait over; a wrong status.
RecvRetried ==
  /\ pc = "recv" /\ elapsed <= Deadline
  /\ elapsed' = 0
  /\ UNCHANGED <<clientVars, errorVars, sockVars, live, sendVars, got, response, peerVars>>
RecvFailsAsWrite ==
  /\ pc = "recv" /\ elapsed <= Deadline
  /\ \E d \in BlockingTime : elapsed' = elapsed + d
  /\ Fail("WRITING_FAILED")
  /\ UNCHANGED <<got, response>>

\* recv() = -1: reset, SO_RCVTIMEO, or EINTR, which is not retried here.
RecvFails ==
  /\ pc = "recv" /\ elapsed <= Deadline
  /\ \E d \in BlockingTime : elapsed' = elapsed + d
  /\ Fail("READING_FAILED")
  /\ UNCHANGED <<got, response>>

-----------------------------------------------------------------------------
(* The rest of cfrds_http_post: status line, end of the header, number.    *)

\* Mutant of Number: text that is no number is read as 0.
NumberLenient == IF got >= 3 /\ reply.code = "neg" THEN "neg" ELSE "nat"

StatusLineOk  == got >= 1 /\ reply.ok
HeaderEndSeen == got >= 2 /\ reply.sep
Number        == IF got >= 3 THEN reply.code ELSE "bad"

\* What *response receives: the whole of tmp_response, the skipped header
\* included, since skipping moves only the local pointer.
Handed == <<1, got>>

CheckStatusLine ==
  /\ pc = "parse" /\ ~StatusLineOk
  /\ Fail("RESPONSE_ERROR")
  /\ UNCHANGED recvVars

SkipHeader ==
  /\ pc = "parse" /\ StatusLineOk /\ ~HeaderEndSeen
  /\ FailSilently("HTTP_RESPONSE_NOT_FOUND")
  /\ UNCHANGED <<oom, recvVars>>

\* An unreadable number, or a negative one: set_error overwrites the code
\* just parsed with the status in both cases.
ParseNumber ==
  /\ pc = "parse" /\ StatusLineOk /\ HeaderEndSeen /\ Number # "nat"
  /\ Fail("RESPONSE_ERROR")
  /\ UNCHANGED recvVars

\* Success: tmp_response is moved into *response, or freed if there is none.
Deliver ==
  /\ pc = "parse" /\ StatusLineOk /\ HeaderEndSeen /\ Number = "nat"
  /\ error_code' = "count"
  /\ response' = IF want THEN Handed ELSE NoResponse
  /\ Leave("OK", IF want THEN Locals \ {"tmp_response"} ELSE Locals)
  /\ UNCHANGED <<error, oom, elapsed, got>>

\* The command that made the call frees the response before it returns.
ReleaseResponse ==
  /\ pc = "idle" /\ response # NoResponse
  /\ response' = NoResponse
  /\ live' = live \ {"tmp_response"}
  /\ UNCHANGED <<clientVars, errorVars, sockVars, sendVars, elapsed, got>>
  /\ UNCHANGED peerVars

-----------------------------------------------------------------------------
(* The peer and the network.                                               *)

\* The peer executes a request it has in full, once; possibly long after
\* the client stopped waiting. If the client is still connected and has no
\* answer yet, the peer answers.
PeerExecutes(c) ==
  /\ pc # "killed" /\ c \in delivered /\ executed[c] = 0
  /\ runs' = runs + 1
  /\ executed' = [executed EXCEPT ![c] = runs']
  /\ IF c = call /\ conn = "up" /\ reply = NoReply
       THEN reply' \in Replies
       ELSE UNCHANGED reply
  /\ UNCHANGED <<clientVars, errorVars, sockVars, live, sendVars, recvVars>>
  /\ UNCHANGED <<conn, delivered>>

\* It answers without executing anything: an HTTP error, a foreign page, a
\* refused login. Only an execution is answered with a count.
PeerRefuses ==
  /\ pc # "idle" /\ conn = "up" /\ reply = NoReply
  /\ reply' \in {r \in Replies : r.code # "nat"}
  /\ UNCHANGED <<clientVars, errorVars, sockVars, live, sendVars, recvVars>>
  /\ UNCHANGED <<conn, delivered, executed, runs>>

\* The connection breaks. (Unread units are lost: recv may fail at once.)
ConnectionBreaks ==
  /\ pc # "idle" /\ conn = "up"
  /\ conn' = "reset"
  /\ UNCHANGED <<clientVars, errorVars, sockVars, live, sendVars, recvVars>>
  /\ UNCHANGED <<reply, delivered, executed, runs>>

-----------------------------------------------------------------------------
Init ==
  /\ pc = "idle" /\ call = 0 /\ want = FALSE /\ oom = FALSE
  /\ result = [c \in Calls |-> "none"]
  /\ error_code = "cleared" /\ error = NoError
  /\ addrs = 0 /\ open = {} /\ sock = NoFd /\ timed = FALSE
  /\ live = {}
  /\ send_ptr = 0 /\ send_remaining = 0 /\ wire = <<>>
  /\ elapsed = 0 /\ got = 0 /\ response = NoResponse
  /\ conn = "none" /\ reply = NoReply /\ delivered = {}
  /\ executed = [c \in Calls |-> 0] /\ runs = 0

\* The steps the calling thread takes once a call has begun.
CallStep ==
  \/ BuildPayload \/ BuildRequest
  \/ Resolve \/ OpenSocket \/ ConnectSocket \/ NoAddressLeft \/ SetTimeouts
  \/ Send \/ SendFails \/ StartReceiving
  \/ RecvDeadline \/ RecvChunk \/ RecvEof \/ RecvFails
  \/ CheckStatusLine \/ SkipHeader \/ ParseNumber \/ Deliver

ClientStep == CallStep \/ ReleaseResponse

PeerStep ==
  \/ \E c \in Calls : PeerExecutes(c)
  \/ PeerRefuses
  \/ ConnectionBreaks

\* Nothing is left to do: the bound on calls is reached, or the process died.
Finished ==
  /\ \/ pc = "killed"
     \/ pc = "idle" /\ call = MaxCalls /\ response = NoResponse
  /\ UNCHANGED vars

Next ==
  \/ \E w \in BOOLEAN : SendCommand(w)
  \/ ClientStep
  \/ SendInterrupted
  \/ PeerStep
  \/ Finished

Spec == Init /\ [][Next]_vars

\* The thread keeps running, and every system call it makes returns: connect
\* by the kernel's own limit, send and recv by the timeouts that are set. A
\* send cannot be interrupted for ever. Nothing is assumed of the peer.
FairSpec == Spec /\ WF_vars(ClientStep)

-----------------------------------------------------------------------------
(* What must hold.                                                         *)

Phases == {"idle", "payload", "request", "resolve", "connect", "connecting",
           "sockopt", "send", "recv", "parse", "killed"}

\* Every variable has its type, and a call is numbered while it runs.
ControlType ==
  /\ pc \in Phases
  /\ call \in 0 .. MaxCalls /\ (pc # "idle" => call \in Calls)
  /\ want \in BOOLEAN
  /\ result \in [Calls -> Statuses \cup {"none"}]
ErrorType ==
  /\ error_code \in Statuses \cup {"cleared", "count"}
  /\ error \in ErrorTexts \cup {NoError}
  /\ oom \in BOOLEAN
SocketType ==
  /\ addrs \in Nat /\ timed \in BOOLEAN
  /\ open \subseteq Fds /\ sock \in Fds \cup {NoFd}
  /\ live \subseteq Locals
SendType ==
  /\ send_ptr \in Nat /\ send_remaining \in Nat
  /\ wire \in Seq(Nat)
RecvType ==
  /\ elapsed \in Nat /\ got \in Nat
  /\ response \in (Nat \X Nat) \cup {NoResponse}
PeerType ==
  /\ conn \in {"none", "up", "reset"}
  /\ reply \in Replies \cup {NoReply}
  /\ delivered \subseteq Calls
  /\ executed \in [Calls -> Nat] /\ runs \in Nat

TypeOK ==
  ControlType /\ ErrorType /\ SocketType /\ SendType /\ RecvType /\ PeerType

\* http_send_all: whatever partial writes and interruptions do, the peer sees
\* the units of the request in order, none twice and none skipped, and the
\* client starts to read only when it has accepted all of them.
RequestInOrder ==
  /\ wire = [i \in 1 .. send_ptr |-> i]
  /\ pc \in {"recv", "parse"} => Len(wire) = RequestSize

\* At most one descriptor is open, the one the call still knows; between two
\* calls there is none, and the only buffer left is the one *response owns.
ResourcesReturned ==
  /\ open = IF sock = NoFd THEN {} ELSE {sock}
  /\ pc = "idle" =>
       /\ sock = NoFd
       /\ live = IF response = NoResponse THEN {} ELSE {"tmp_response"}

\* After a call, cfrds_server_get_error speaks of that call: a success leaves
\* no text; a failure leaves the text and the code of the status returned,
\* unless an allocation failed or no end of the header was found.
ErrorExplainsStatus ==
  pc = "idle" /\ call # 0 =>
    LET s == result[call] IN
      /\ s = "OK" => error = NoError /\ error_code = "count"
      /\ s \notin {"OK", "HTTP_RESPONSE_NOT_FOUND"} /\ ~oom =>
           error # NoError /\ error_code = s
      /\ error # NoError => error = <<call, s>>

\* A call that returned OK was executed, and before any later call; a call
\* that failed before its request was sent never is, so it can be repeated.
ExecutedAsReported ==
  \A c \in Calls :
    /\ result[c] \in NotSent => executed[c] = 0
    /\ result[c] = "OK" =>
         /\ executed[c] > 0
         /\ \A d \in Calls : d > c /\ executed[d] > 0 =>
              executed[c] < executed[d]

\* Reading ends: the loop checks its deadline before every recv, and no recv
\* outlasts SO_RCVTIMEO, so a peer that drips units cannot hold the client.
ReadingTimeBounded == elapsed <= Deadline + IoTimeout

\* tmp_response outgrows the limit by at most one chunk, and no caller is
\* ever given more than the limit.
ResponseBounded ==
  /\ got <= MaxResponseSize + RecvSize
  /\ response # NoResponse => response[2] <= MaxResponseSize

\* Every call returns, whatever the peer does, unless SIGPIPE ends the process.
CallReturns == pc # "idle" ~> pc \in {"idle", "killed"}

(* The inductive invariant behind the safety properties, in parts.         *)

BeforeSend == {"payload", "request", "resolve", "connect", "connecting", "sockopt"}

\* The send loop's two variables always split the request between them.
SendInv ==
  /\ wire = [i \in 1 .. send_ptr |-> i]
  /\ pc \in BeforeSend => send_ptr = 0
  /\ pc = "send" => send_ptr + send_remaining = RequestSize
  /\ pc \in {"recv", "parse"} => send_ptr = RequestSize

\* Only a call past socket() has a descriptor, only a returned one a response.
ResourceInv ==
  /\ ResourcesReturned
  /\ pc \in {"payload", "request", "resolve", "connect", "killed"} => sock = NoFd
  /\ pc \in {"recv", "parse"} => "tmp_response" \in live
  /\ pc # "idle" => response = NoResponse

ErrorInv ==
  /\ ErrorExplainsStatus
  /\ pc # "idle" => error = NoError

\* A request is with the peer only once send() has taken all of it; a count
\* comes only from an execution of the current call.
ExecutionInv ==
  /\ ExecutedAsReported
  /\ \A c \in Calls :
       /\ executed[c] <= runs
       /\ executed[c] > 0 => c \in delivered
       /\ c \in delivered => c <= call /\ result[c] \notin NotSent
  /\ \A c \in Calls :
       c > call \/ (c = call /\ pc # "idle") => result[c] = "none"
  /\ pc # "idle" /\ call \in delivered =>
       pc \in {"send", "recv", "parse"} /\ send_ptr = RequestSize
  /\ pc = "parse" => reply # NoReply
  /\ pc # "idle" /\ reply # NoReply /\ reply.code = "nat" => executed[call] > 0

TimeInv ==
  /\ ReadingTimeBounded
  /\ pc \in {"send", "recv"} => timed

SizeInv ==
  /\ ResponseBounded
  /\ pc \in BeforeSend \cup {"send"} => got = 0
  /\ pc \in {"recv", "parse"} => got <= MaxResponseSize

IInv == TypeOK /\ SendInv /\ ResourceInv /\ ErrorInv /\ ExecutionInv /\ TimeInv /\ SizeInv

(* What the comments of include/internal/cfrds_http.h say, and the code     *)
(* does not do.                                                             *)

\* "sets server-level errors if any failures occur during ... status
\* parsing": a reply without an end of header is reported in the error text.
FailureIsRecorded ==
  pc = "idle" /\ call # 0 /\ ~oom /\ result[call] # "OK" => error # NoError

\* "CFRDS_STATUS_WRITING_TO_SOCKET_FAILED ... on socket transmission errors":
\* the call returns a status instead of the process being killed.
WriteErrorReturned == pc # "killed"

-----------------------------------------------------------------------------
(* The promise to the callers, as the abstract specification states it.    *)
Promise == INSTANCE RdsCall WITH
  busy <- (pc # "idle"), issued <- call, outcome <- result,
  order <- executed, held <- (response # NoResponse)

\* Every behaviour of the transport is one of the promise: its only steps
\* that show are the call's begin and return, executions and the release.
KeepsPromise == Promise!Spec
=============================================================================
