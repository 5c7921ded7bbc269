----------------------------- MODULE PyTransport -----------------------------
(***************************************************************************)
(* The Python client: Server._send_rds_command of python/cfrds.py over the *)
(* standard library's http.client.                                         *)
(*                                                                         *)
(* The Server object keeps one HTTPConnection from command to command. A   *)
(* command that fails on a kept connection is repeated once on a new one,  *)
(* whatever the failure was; a KeyboardInterrupt is no Exception, passes   *)
(* the handler by and leaves the connection in the middle of an exchange.  *)
(* http.client is external, modelled by the two states it refuses to work  *)
(* in: a request while one is under way (CannotSendRequest), and a         *)
(* response while an earlier one is not read (ResponseNotReady). The       *)
(* server may execute a request it has received long after the client gave *)
(* up, or never. It may also send an answer piece by piece: the socket's   *)
(* timeout is one of each recv, and nothing limits their number.           *)
(***************************************************************************)
EXTENDS Integers, Sequences, FiniteSets

CONSTANTS
  MaxCalls,  \* commands the application issues (bounds the runs)
  Answers    \* what the server may answer

\* An answer: is its status 200, does its body arrive in full, what does the
\* body begin with, and does it say "Connection: close".
Answer == [ok : BOOLEAN, full : BOOLEAN, code : {"nat", "neg", "bad"},
           closing : BOOLEAN]

ASSUME CallsAssumption == MaxCalls \in Nat \ {0}
ASSUME AnswersAssumption == Answers \subseteq Answer

Calls == 1 .. MaxCalls

VARIABLES
  pc,        \* where _send_rds_command is; "idle" outside it
  call,      \* the command being, or last, sent
  reused,    \* its local of that name, of the innermost activation
  repeated,  \* commands sent a second time
  conn,      \* self._conn: "none", or an object whose sock is "closed" or "open"
  busy,      \* http.client: the connection's state is not Idle
  unread,    \* http.client: the last response is not read to its end
  closed,    \* Server.close() was called
  result,    \* how each command ended
  source,    \* the command whose body was returned to it; 0: none
  body,      \* the response being read, then its body
  up,        \* the TCP connection has not been closed by the server
  requests,  \* requests on it that the server has and has not answered
  replies,   \* answers on it that the client has not read to their end
  piece,     \* a piece of the answer under way has arrived, and not the rest
  lost,      \* copies of a command the server may still execute unanswered
  executed   \* executions of a command

clientVars == <<pc, call, reused, repeated, closed, result, source, body>>
connVars   == <<conn, busy, unread>>
peerVars   == <<up, requests, replies, piece, lost, executed>>
vars == <<clientVars, connVars, peerVars>>

Results == {"none", "ok", "conn_failed", "http_error", "response_error",
            "type_error", "interrupted"}
NoBody == [of |-> 0, ok |-> TRUE, full |-> TRUE, code |-> "nat", closing |-> FALSE]

Pending(c) == Cardinality({i \in DOMAIN requests : requests[i] = c})
Copies(c) == executed[c] + lost[c] + Pending(c)

-----------------------------------------------------------------------------
(* The ends of an attempt.                                                 *)

\* self._conn.close(): what the server has not answered it never will.
Disconnect ==
  /\ up' = FALSE /\ requests' = <<>> /\ replies' = <<>> /\ piece' = FALSE
  /\ lost' = [c \in Calls |-> lost[c] + Pending(c)]
  /\ busy' = FALSE /\ unread' = FALSE
  /\ UNCHANGED executed

Finish(r) ==
  /\ pc' = "idle"
  /\ result' = [result EXCEPT ![call] = r]
  /\ UNCHANGED <<call, reused, repeated, closed>>

\* Mutant of AttemptFails: the handler keeps the connection it failed on.
AttemptFailsKeeping ==
  /\ UNCHANGED <<conn, busy, unread, peerVars, source, body>>
  /\ IF reused
       THEN /\ pc' = "request"
            /\ repeated' = repeated \cup {call}
            /\ UNCHANGED <<call, reused, closed, result>>
       ELSE Finish("conn_failed")

\* Any Exception but a CFRDSError: the connection is dropped; on a kept one
\* the command is repeated, with a new connection.
AttemptFails ==
  /\ Disconnect
  /\ UNCHANGED <<source, body>>
  /\ IF reused
       THEN /\ pc' = "request"
            /\ conn' = "closed" /\ reused' = FALSE
            /\ repeated' = repeated \cup {call}
            /\ UNCHANGED <<call, closed, result>>
       ELSE conn' = "none" /\ Finish("conn_failed")

-----------------------------------------------------------------------------
(* The client.                                                             *)

SendCommand ==
  /\ pc = "idle" /\ call < MaxCalls
  /\ call' = call + 1
  /\ reused' = (conn # "none")
  /\ conn' = IF conn = "none" THEN "closed" ELSE conn
  /\ pc' = "request"
  /\ UNCHANGED <<repeated, closed, result, source, body, busy, unread, peerVars>>

\* conn.request() while a request is under way: CannotSendRequest.
RequestRefused ==
  /\ pc = "request" /\ busy
  /\ AttemptFails

\* conn.request(): an object without a socket connects first. close() has
\* emptied the host, so that no name is left to resolve.
Connect ==
  /\ pc = "request" /\ ~busy /\ conn = "closed" /\ ~closed
  /\ conn' = "open" /\ up' = TRUE /\ replies' = <<>> /\ piece' = FALSE
  /\ busy' = TRUE
  /\ pc' = "send"
  /\ UNCHANGED <<call, reused, repeated, closed, result, source, body, unread>>
  /\ UNCHANGED <<requests, lost, executed>>

ConnectFails ==
  /\ pc = "request" /\ ~busy /\ conn = "closed"
  /\ AttemptFails

Reuse ==
  /\ pc = "request" /\ ~busy /\ conn = "open"
  /\ busy' = TRUE
  /\ pc' = "send"
  /\ UNCHANGED <<call, reused, repeated, closed, result, source, body>>
  /\ UNCHANGED <<conn, unread, peerVars>>

\* The request reaches the server, or a connection it has closed.
Send ==
  /\ pc = "send"
  /\ requests' = IF up THEN Append(requests, call) ELSE requests
  /\ pc' = "wait"
  /\ UNCHANGED <<call, reused, repeated, closed, result, source, body>>
  /\ UNCHANGED <<connVars, up, replies, piece, lost, executed>>

\* The socket's timeout of 30 s, or an error of the connection.
SocketFails ==
  /\ pc = "send" \/ (pc \in {"wait", "read"} /\ ~piece)
  /\ AttemptFails

\* A recv that returns a piece: getresponse() and read() go on to the next one,
\* with a timeout of its own.
RecvPiece ==
  /\ pc \in {"wait", "read"} /\ piece
  /\ piece' = FALSE
  /\ UNCHANGED <<clientVars, connVars, up, requests, replies, lost, executed>>

\* conn.getresponse() with a response not read to its end: ResponseNotReady.
ResponseNotReady ==
  /\ pc = "wait" /\ unread
  /\ AttemptFails

\* Mutant of GetResponse: an unread response does not count.
GetResponseRegardless ==
  /\ pc = "wait" /\ replies # <<>>
  /\ body' = Head(replies) /\ body'.ok
  /\ busy' = FALSE /\ unread' = TRUE
  /\ pc' = "read"
  /\ UNCHANGED <<call, reused, repeated, closed, result, source, conn, peerVars>>

\* The status line and the header: a status other than 200 is a CFRDSError,
\* which is not repeated. A closing answer takes the socket from the object.
GetResponse ==
  /\ pc = "wait" /\ ~unread /\ replies # <<>> /\ ~piece
  /\ body' = Head(replies)
  /\ UNCHANGED source
  /\ IF body'.ok
       THEN /\ pc' = "read"
            /\ busy' = FALSE /\ unread' = ~body'.closing
            /\ conn' = IF body'.closing THEN "closed" ELSE conn
            /\ UNCHANGED <<call, reused, repeated, closed, result, peerVars>>
       ELSE /\ Disconnect /\ conn' = "none"
            /\ Finish("http_error")

\* resp.read(): a body cut short is an IncompleteRead, and that is repeated.
ReadBody ==
  /\ pc = "read" /\ body.full /\ ~piece
  /\ pc' = "parse" /\ unread' = FALSE
  /\ replies' = Tail(replies)
  /\ UNCHANGED <<call, reused, repeated, closed, result, source, body>>
  /\ UNCHANGED <<conn, busy, up, requests, piece, lost, executed>>
ReadCut ==
  /\ pc = "read" /\ ~body.full /\ ~piece
  /\ AttemptFails

\* Mutant of ParseCode: the code is returned and nobody looks at it.
ParseCodeReturned ==
  /\ pc = "parse"
  /\ UNCHANGED <<connVars, peerVars, body, source>>
  /\ Finish(body.code)

\* A negative number was to give a CFRDSError with the server's text, but
\* body[offset:], offset being a list, raises a TypeError instead.
ParseCode ==
  /\ pc = "parse"
  /\ UNCHANGED <<connVars, peerVars, body>>
  /\ IF body.code = "nat"
       THEN /\ source' = [source EXCEPT ![call] = body.of]
            /\ Finish("ok")
       ELSE /\ UNCHANGED source
            /\ Finish(IF body.code = "neg" THEN "type_error" ELSE "response_error")

\* Ctrl-C in a blocking call: nothing is caught, nothing is tidied up.
Interrupt ==
  /\ pc \in {"request", "send", "wait", "read"}
  /\ busy' = (busy \/ pc = "request")
  /\ UNCHANGED <<source, body, conn, unread, peerVars>>
  /\ Finish("interrupted")

\* Mutant of Close: the kept connection is forgotten about.
CloseConfigOnly ==
  /\ pc = "idle"
  /\ closed' = TRUE
  /\ UNCHANGED <<pc, call, reused, repeated, result, source, body>>
  /\ UNCHANGED <<connVars, peerVars>>

\* Server.close(): the connection goes, host, user and password are emptied.
Close ==
  /\ pc = "idle"
  /\ Disconnect /\ conn' = "none"
  /\ closed' = TRUE
  /\ UNCHANGED <<pc, call, reused, repeated, result, source, body>>

-----------------------------------------------------------------------------
(* The server.                                                             *)

\* It answers the oldest request, which it has executed, or, with a status
\* other than 200, perhaps not. A closing or cut answer ends the connection.
PeerAnswers(a) ==
  /\ up /\ requests # <<>>
  /\ LET c == Head(requests) IN
       /\ replies' = Append(replies, [of |-> c, ok |-> a.ok, full |-> a.full,
                                      code |-> a.code, closing |-> a.closing])
       /\ \/ executed' = [executed EXCEPT ![c] = @ + 1]
          \/ ~a.ok /\ UNCHANGED executed
  /\ up' = (a.full /\ ~a.closing)
  /\ requests' = IF up' THEN Tail(requests) ELSE <<>>
  /\ lost' = IF up' THEN lost
             ELSE [c \in Calls |-> lost[c] +
                     Cardinality({i \in 2 .. Len(requests) : requests[i] = c})]
  /\ UNCHANGED <<clientVars, connVars, piece>>

\* Something of an answer, or a 100 Continue before it.
PeerSendsPiece ==
  /\ pc \in {"wait", "read"} /\ ~piece
  /\ requests # <<>> \/ replies # <<>>
  /\ piece' = TRUE
  /\ UNCHANGED <<clientVars, connVars, up, requests, replies, lost, executed>>

PeerCloses ==
  /\ up /\ up' = FALSE
  /\ requests' = <<>>
  /\ lost' = [c \in Calls |-> lost[c] + Pending(c)]
  /\ UNCHANGED <<clientVars, connVars, replies, piece, executed>>

\* A request whose connection has gone is executed all the same.
PeerExecutesLate(c) ==
  /\ lost[c] > 0
  /\ lost' = [lost EXCEPT ![c] = @ - 1]
  /\ executed' = [executed EXCEPT ![c] = @ + 1]
  /\ UNCHANGED <<clientVars, connVars, up, requests, replies, piece>>

-----------------------------------------------------------------------------
Init ==
  /\ pc = "idle" /\ call = 0 /\ reused = FALSE /\ repeated = {}
  /\ conn = "none" /\ busy = FALSE /\ unread = FALSE /\ closed = FALSE
  /\ result = [c \in Calls |-> "none"] /\ source = [c \in Calls |-> 0]
  /\ body = NoBody
  /\ up = FALSE /\ requests = <<>> /\ replies = <<>> /\ piece = FALSE
  /\ lost = [c \in Calls |-> 0] /\ executed = [c \in Calls |-> 0]

ClientStep ==
  \/ RequestRefused \/ Connect \/ ConnectFails \/ Reuse
  \/ Send \/ SocketFails \/ RecvPiece
  \/ ResponseNotReady \/ GetResponse \/ ReadBody \/ ReadCut
  \/ ParseCode

Next ==
  \/ SendCommand \/ ClientStep \/ Interrupt \/ Close
  \/ \E a \in Answers : PeerAnswers(a)
  \/ PeerSendsPiece \/ PeerCloses
  \/ \E c \in Calls : PeerExecutesLate(c)

\* Every operation on the socket ends, by its timeout of 30 s: a recv with a
\* piece, with the end of what is read, or with an error. Resolving the name
\* has no timeout, and is taken to end as well.
Spec == Init /\ [][Next]_vars /\ WF_vars(ClientStep)

-----------------------------------------------------------------------------
Reply == [of : Calls, ok : BOOLEAN, full : BOOLEAN, code : {"nat", "neg", "bad"},
          closing : BOOLEAN]

\* Every variable has its type.
TypeOK ==
  /\ pc \in {"idle", "request", "send", "wait", "read", "parse"}
  /\ call \in 0 .. MaxCalls
  /\ reused \in BOOLEAN /\ repeated \subseteq Calls
  /\ conn \in {"none", "closed", "open"}
  /\ busy \in BOOLEAN /\ unread \in BOOLEAN /\ closed \in BOOLEAN
  /\ result \in [Calls -> Results] /\ source \in [Calls -> 0 .. MaxCalls]
  /\ body \in Reply \cup {NoBody}
  /\ up \in BOOLEAN /\ piece \in BOOLEAN
  /\ requests \in Seq(Calls) /\ replies \in Seq(Reply)
  /\ lost \in [Calls -> Nat] /\ executed \in [Calls -> Nat]

\* However attempts fail, whoever interrupts them and however late the server
\* works, it gets a command at most once, or twice if the client repeated it.
SentAtMostTwice ==
  \A c \in Calls : Copies(c) <= IF c \in repeated THEN 2 ELSE 1

\* A command that succeeds returns the answer to its own request, which the
\* server has executed: never what an interrupted or repeated command left
\* unread on the kept connection.
AnswerIsOwn ==
  \A c \in Calls : result[c] = "ok" => source[c] = c /\ executed[c] > 0

\* Unless a command was interrupted on it, a connection that is kept for the
\* next command has no request or answer of an earlier one under way.
KeptConnectionIsClean ==
  pc = "idle" /\ conn = "open" /\ (call > 0 => result[call] # "interrupted")
    => ~busy /\ ~unread /\ requests = <<>> /\ replies = <<>>

\* After close() the server gets no command any more, although the object
\* still accepts them and may have had a connection open.
NothingSentAfterClose ==
  [][closed => \A c \in Calls : Copies(c)' <= Copies(c)]_vars

\* Every command ends: in an answer, an error or an interrupt, and the
\* repetition is not repeated; unless the server goes on for ever to send a
\* piece within each timeout, since no deadline covers a whole answer.
CommandEnds ==
  []<><<PeerSendsPiece>>_vars \/ ((pc # "idle") ~> (pc = "idle"))
=============================================================================
