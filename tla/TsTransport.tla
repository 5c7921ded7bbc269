----------------------------- MODULE TsTransport -----------------------------
(***************************************************************************)
(* The TypeScript client: sendRdsCommand of typescript/src/transport.ts    *)
(* and the Server object of server.ts that its requests share.             *)
(*                                                                         *)
(* Node runs one callback at a time, so that a handler is one step; any    *)
(* number of requests are under way together, and the events of each come  *)
(* in the order Node gives them: first the response's header, then data,   *)
(* then its end; a timeout while the socket is idle; at most one error,    *)
(* also after req.destroy() and agent.destroy(), and after an error or the *)
(* end nothing more. A promise that is settled stays as it is.             *)
(***************************************************************************)
EXTENDS Integers, FiniteSets

CONSTANTS
  Requests,         \* the requests an application makes
  MaxResponseSize,  \* MAX_RESPONSE_SIZE, in units of data
  ChunkSize,        \* the largest chunk of one data event
  NoError           \* null

ASSUME SizesAssumption == MaxResponseSize \in Nat /\ ChunkSize \in Nat \ {0}
ASSUME NullAssumption == NoError \notin Requests \X STRING

VARIABLES
  host,     \* ctx.config.host: "own", or "" once closed
  secret,   \* ctx.config.username, password and encodedPassword are set
  agent,    \* ctx.agent is there
  error,    \* ctx.error: the request that wrote it, and what
  state,    \* what Node still has to say about a request
  route,    \* where it was sent, through which agent, with which credentials
  answer,   \* status and number of its response
  size,     \* totalSize
  kept,     \* data in chunks
  promise,  \* its promise
  text      \* the message of its rejection

ctxVars == <<host, secret, agent, error>>
reqVars == <<state, route, answer, size, kept, promise, text>>
vars == <<ctxVars, reqVars>>

Active == {"waiting", "reading"}
Codes == {"nat", "neg", "bad"}
NoRoute == [host |-> "none", own_agent |-> FALSE, secret |-> FALSE]
NoAnswer == [ok |-> FALSE, code |-> "bad"]

\* resolve and reject: only the first of them counts.
Settle(r, p, t) ==
  IF promise[r] = "pending"
    THEN promise' = [promise EXCEPT ![r] = p] /\ text' = [text EXCEPT ![r] = t]
    ELSE UNCHANGED <<promise, text>>

Reject(r, t) ==
  /\ error' = <<r, t>>
  /\ Settle(r, "rejected", t)

Become(r, s) == state' = [state EXCEPT ![r] = s]

-----------------------------------------------------------------------------
(* The application.                                                        *)

\* sendRdsCommand runs up to the return of its promise without a break. An
\* empty hostname is localhost to http.request, no agent the global one.
SendRdsCommand(r) ==
  /\ state[r] = "new"
  /\ error' = NoError
  /\ Become(r, "waiting")
  /\ route' = [route EXCEPT ![r] =
       [host |-> IF host = "" THEN "localhost" ELSE host,
        own_agent |-> agent, secret |-> secret]]
  /\ promise' = [promise EXCEPT ![r] = "pending"]
  /\ UNCHANGED <<host, secret, agent, answer, size, kept, text>>

\* Mutant of Close: the encoded password stays in the context.
CloseKeepingPassword ==
  /\ agent' = FALSE /\ host' = "" /\ error' = NoError
  /\ state' = [r \in Requests |->
       IF state[r] \in Active /\ route[r].own_agent THEN "destroyed" ELSE state[r]]
  /\ UNCHANGED <<secret, route, answer, size, kept, promise, text>>

\* Server.close(): agent.destroy() destroys the sockets of the requests that
\* are under way, whose errors follow.
Close ==
  /\ agent' = FALSE /\ host' = "" /\ secret' = FALSE /\ error' = NoError
  /\ state' = [r \in Requests |->
       IF state[r] \in Active /\ route[r].own_agent THEN "destroyed" ELSE state[r]]
  /\ UNCHANGED <<route, answer, size, kept, promise, text>>

ClearError ==
  /\ error' = NoError
  /\ UNCHANGED <<host, secret, agent, reqVars>>

-----------------------------------------------------------------------------
(* The events of a request.                                                *)

OnResponse(r) ==
  /\ state[r] = "waiting"
  /\ Become(r, "reading")
  /\ \E ok \in BOOLEAN, code \in Codes :
       answer' = [answer EXCEPT ![r] = [ok |-> ok, code |-> code]]
  /\ UNCHANGED <<ctxVars, route, size, kept, promise, text>>

\* Mutant of OnData: without the check the data of a server that never stops
\* are collected for ever (their count is kept finite here).
OnDataUnchecked(r) ==
  /\ state[r] = "reading"
  /\ size' = [size EXCEPT ![r] = 1] /\ kept' = [kept EXCEPT ![r] = 1 - @]
  /\ UNCHANGED <<ctxVars, state, route, answer, promise, text>>

\* Mutant of OnData: the chunk is stored before it is counted.
OnDataStoredFirst(r) ==
  /\ state[r] = "reading"
  /\ \E n \in 1 .. ChunkSize :
       /\ size' = [size EXCEPT ![r] = @ + n]
       /\ kept' = [kept EXCEPT ![r] = @ + n]
  /\ IF size'[r] > MaxResponseSize
       THEN Become(r, "done") /\ Reject(r, "too large")
       ELSE UNCHANGED <<error, state, promise, text>>
  /\ UNCHANGED <<host, secret, agent, route, answer>>

\* res 'data': too much data destroys the response, and no event follows.
OnData(r) ==
  /\ state[r] = "reading"
  /\ \E n \in 1 .. ChunkSize : size' = [size EXCEPT ![r] = @ + n]
  /\ IF size'[r] > MaxResponseSize
       THEN /\ Become(r, "done")
            /\ Reject(r, "too large")
            /\ UNCHANGED kept
       ELSE /\ kept' = [kept EXCEPT ![r] = size'[r]]
            /\ UNCHANGED <<error, state, promise, text>>
  /\ UNCHANGED <<host, secret, agent, route, answer>>

\* Mutant of OnEnd: the HTTP failure is told to the promise only.
OnEndSilently(r) ==
  /\ state[r] = "reading"
  /\ Become(r, "done")
  /\ IF answer[r].ok THEN Settle(r, "resolved", "body") ELSE Settle(r, "rejected", "HTTP")
  /\ UNCHANGED <<ctxVars, route, answer, size, kept>>

\* Mutant of OnEnd: the status message is recorded before it is looked at.
OnEndAlwaysTold(r) ==
  /\ state[r] = "reading"
  /\ Become(r, "done")
  /\ error' = <<r, "HTTP">>
  /\ IF answer[r].ok THEN Settle(r, "resolved", "body") ELSE Settle(r, "rejected", "HTTP")
  /\ UNCHANGED <<host, secret, agent, route, answer, size, kept>>

\* res 'end': the status, then the number at the front of the body.
OnEnd(r) ==
  /\ state[r] = "reading"
  /\ Become(r, "done")
  /\ IF ~answer[r].ok THEN Reject(r, "HTTP")
     ELSE IF answer[r].code = "neg" THEN Reject(r, "COMMAND_FAILED")
     ELSE IF answer[r].code = "bad" THEN Reject(r, "RESPONSE_ERROR")
     ELSE Settle(r, "resolved", "body") /\ UNCHANGED error
  /\ UNCHANGED <<host, secret, agent, route, answer, size, kept>>

\* Mutant of OnTimeout: the message only, without destroying the request.
OnTimeoutGoingOn(r) ==
  /\ state[r] \in Active
  /\ Reject(r, "timed out")
  /\ UNCHANGED <<host, secret, agent, state, route, answer, size, kept>>

\* req 'timeout', after 30 s without traffic: the request is destroyed, which
\* makes it, or its response, emit an error later.
OnTimeout(r) ==
  /\ state[r] \in Active
  /\ Become(r, "destroyed")
  /\ Reject(r, "timed out")
  /\ UNCHANGED <<host, secret, agent, route, answer, size, kept>>

\* Mutant of OnError: the message is taken from a field that errors lack.
OnErrorUndefined(r) ==
  /\ state[r] \in Active \cup {"destroyed"}
  /\ Become(r, "done")
  /\ Reject(r, "undefined")
  /\ UNCHANGED <<host, secret, agent, route, answer, size, kept>>

\* req 'error', before the response, and res 'error', after it.
OnError(r) ==
  /\ state[r] \in Active \cup {"destroyed"}
  /\ Become(r, "done")
  /\ Reject(r, "failed")
  /\ UNCHANGED <<host, secret, agent, route, answer, size, kept>>

-----------------------------------------------------------------------------
Init ==
  /\ host = "own" /\ secret = TRUE /\ agent = TRUE /\ error = NoError
  /\ state = [r \in Requests |-> "new"] /\ route = [r \in Requests |-> NoRoute]
  /\ answer = [r \in Requests |-> NoAnswer]
  /\ size = [r \in Requests |-> 0] /\ kept = [r \in Requests |-> 0]
  /\ promise = [r \in Requests |-> "none"] /\ text = [r \in Requests |-> "none"]

Event(r) ==
  \/ OnResponse(r) \/ OnData(r) \/ OnEnd(r)
  \/ OnTimeout(r) \/ OnError(r)

Next ==
  \/ \E r \in Requests : SendRdsCommand(r) \/ Event(r)
  \/ Close \/ ClearError

\* The event loop goes on, and a request that hears nothing hears a timeout.
Spec == Init /\ [][Next]_vars /\ \A r \in Requests : WF_vars(Event(r))

-----------------------------------------------------------------------------
Texts == {"too large", "HTTP", "COMMAND_FAILED", "RESPONSE_ERROR", "timed out",
          "failed"}

\* Every variable has its type.
TypeOK ==
  /\ host \in {"own", ""} /\ secret \in BOOLEAN /\ agent \in BOOLEAN
  /\ error \in {NoError} \cup (Requests \X Texts)
  /\ state \in [Requests -> {"new", "waiting", "reading", "destroyed", "done"}]
  /\ route \in [Requests -> [host : {"none", "own", "localhost"},
                             own_agent : BOOLEAN, secret : BOOLEAN]]
  /\ answer \in [Requests -> [ok : BOOLEAN, code : Codes]]
  /\ size \in [Requests -> Nat] /\ kept \in [Requests -> Nat]
  /\ promise \in [Requests -> {"none", "pending", "resolved", "rejected"}]
  /\ text \in [Requests -> Texts \cup {"none", "body"}]

\* No data beyond the limit are kept, whatever the server sends and in
\* whatever chunks.
BufferBounded == \A r \in Requests : kept[r] <= MaxResponseSize

\* ctx.error is always about a request whose promise is rejected: neither a
\* late error of a destroyed request nor another request's failure is ever
\* the error of one that succeeded.
ErrorIsOfRejected ==
  error # NoError => promise[error[1]] = "rejected"

\* The text a promise is rejected with is the one in ctx.error at that moment,
\* so that getError() explains the failure that was just thrown.
RejectionIsRecorded ==
  [][\A r \in Requests :
       promise[r] = "pending" /\ promise'[r] = "rejected"
         => error' = <<r, text'[r]>>]_vars

\* After its rejection a request writes ctx.error at most once more: the error
\* that a timeout's destroy() brings about.
\* (state "done" means that no event is left.)
SettledRequestsAreQuiet ==
  \A r \in Requests :
    /\ promise[r] = "resolved" => state[r] = "done"
    /\ promise[r] = "rejected" /\ state[r] # "done"
         => state[r] = "destroyed" /\ text[r] = "timed out"

\* close() leaves a usable object behind, whose requests go to localhost: the
\* user name and the password go to the configured host and nowhere else.
CredentialsStayHome ==
  \A r \in Requests : route[r].secret => route[r].host = "own"

\* Every promise is settled: also when the server stops answering, never stops
\* sending, or the object is closed under the request.
PromiseSettles ==
  \A r \in Requests : promise[r] = "pending" ~> promise[r] # "pending"
=============================================================================
