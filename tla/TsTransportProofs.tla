-------------------------- MODULE TsTransportProofs --------------------------
(***************************************************************************)
(* Theorems about TsTransport, for any number of requests and any limit.   *)
(***************************************************************************)
EXTENDS TsTransport, TLAPS

(* What the state of a request says of its promise: nothing sent, nothing  *)
(* promised; no event left, nothing pending; and in between the promise is *)
(* pending, unless a timeout has rejected it and its error is to come.     *)
PromiseInv ==
  \A r \in Requests :
    /\ state[r] = "new" => promise[r] = "none"
    /\ state[r] \in Active => promise[r] = "pending"
    /\ state[r] = "destroyed" =>
         \/ promise[r] = "pending"
         \/ promise[r] = "rejected" /\ text[r] = "timed out"
    /\ state[r] = "done" => promise[r] \in {"resolved", "rejected"}

(* The credentials are there only as long as the host is.                  *)
SecretInv == secret => host = "own"

IInv ==
  /\ TypeOK /\ PromiseInv /\ SecretInv
  /\ BufferBounded /\ ErrorIsOfRejected /\ CredentialsStayHome

(* Settling keeps the types.                                               *)
LEMMA SettleType ==
  ASSUME TypeOK, NEW r \in Requests, NEW p \in {"resolved", "rejected"},
         NEW t \in Texts \cup {"body"}, Settle(r, p, t)
  PROVE  /\ promise' \in [Requests -> {"none", "pending", "resolved", "rejected"}]
         /\ text' \in [Requests -> Texts \cup {"none", "body"}]
<1>1. /\ promise \in [Requests -> {"none", "pending", "resolved", "rejected"}]
      /\ text \in [Requests -> Texts \cup {"none", "body"}]
  BY DEF TypeOK
<1>2. CASE promise[r] = "pending"
  <2>1. /\ promise' = [promise EXCEPT ![r] = p]
        /\ text' = [text EXCEPT ![r] = t]
    BY <1>2 DEF Settle
  <2>2. promise' \in [Requests -> {"none", "pending", "resolved", "rejected"}]
    BY <1>1, <2>1
  <2>3. t \in Texts \cup {"none", "body"}
    OBVIOUS
  <2>4. text' \in [Requests -> Texts \cup {"none", "body"}]
    BY <1>1, <2>1, <2>3
  <2> QED
    BY <2>2, <2>4
<1>3. CASE promise[r] # "pending"
  BY <1>1, <1>3 DEF Settle
<1> QED
  BY <1>2, <1>3

(* A promise that is pending becomes what it is settled to; any other, and *)
(* those of all other requests, stay.                                      *)
LEMMA SettleEffect ==
  ASSUME TypeOK, NEW r \in Requests, NEW p, NEW t, Settle(r, p, t), NEW q \in Requests
  PROVE  /\ q # r => promise'[q] = promise[q] /\ text'[q] = text[q]
         /\ promise[r] = "pending" => promise'[r] = p /\ text'[r] = t
         /\ promise[r] # "pending" => promise'[r] = promise[r] /\ text'[r] = text[r]
  BY DEF TypeOK, Settle

LEMMA RejectType ==
  ASSUME TypeOK, NEW r \in Requests, NEW t \in Texts, Reject(r, t)
  PROVE  /\ error' = <<r, t>> /\ error' \in Requests \X Texts
         /\ promise' \in [Requests -> {"none", "pending", "resolved", "rejected"}]
         /\ text' \in [Requests -> Texts \cup {"none", "body"}]
  BY SettleType DEF Reject

(* Every handler of a request is the end of its event, or leaves its       *)
(* promise pending: what the rest of the proof needs to know of a step.    *)
Ends(r, s) ==
  /\ s \in {"done", "destroyed"}
  /\ state[r] \in Active \cup {"destroyed"}
  /\ state' = [state EXCEPT ![r] = s]
  /\ \/ \E t \in Texts : Reject(r, t) /\ (s = "destroyed" => t = "timed out" /\ state[r] \in Active)
     \/ s = "done" /\ state[r] \in Active /\ Settle(r, "resolved", "body") /\ UNCHANGED error

GoesOn(r) ==
  /\ state[r] \in Active
  /\ state' \in {state, [state EXCEPT ![r] = "reading"]}
  /\ UNCHANGED <<error, promise, text>>

LEMMA EventCases ==
  ASSUME TypeOK, BufferBounded, NEW r \in Requests, Event(r)
  PROVE  /\ GoesOn(r) \/ \E s \in {"done", "destroyed"} : Ends(r, s)
         /\ UNCHANGED <<host, secret, agent, route>>
         /\ answer' \in [Requests -> [ok : BOOLEAN, code : Codes]]
         /\ size' \in [Requests -> Nat] /\ kept' \in [Requests -> Nat]
         /\ BufferBounded'
<1>1. CASE OnResponse(r)
  <2>1. PICK ok \in BOOLEAN, code \in Codes :
          answer' = [answer EXCEPT ![r] = [ok |-> ok, code |-> code]]
    BY <1>1 DEF OnResponse
  <2>2. answer' \in [Requests -> [ok : BOOLEAN, code : Codes]]
    BY <2>1 DEF TypeOK
  <2>3. GoesOn(r)
    BY <1>1 DEF OnResponse, GoesOn, Become, Active, ctxVars
  <2> QED
    BY <1>1, <2>2, <2>3 DEF OnResponse, TypeOK, ctxVars, BufferBounded
<1>2. CASE OnData(r)
  <2>1. PICK n \in 1 .. ChunkSize : size' = [size EXCEPT ![r] = @ + n]
    BY <1>2 DEF OnData
  <2>2. size' \in [Requests -> Nat]
    <3>1. size \in [Requests -> Nat]
      BY DEF TypeOK
    <3>2. n \in Nat
      BY SizesAssumption
    <3>3. size[r] + n \in Nat
      BY <3>1, <3>2
    <3> QED
      BY <2>1, <3>1, <3>3
  <2>3. UNCHANGED <<host, secret, agent, route, answer>>
    BY <1>2 DEF OnData
  <2>4. CASE size'[r] > MaxResponseSize
    <3>1. Ends(r, "done")
      BY <1>2, <2>4 DEF OnData, Ends, Become, Active, Texts
    <3> QED
      BY <1>2, <2>2, <2>3, <2>4, <3>1 DEF OnData, TypeOK, BufferBounded
  <2>5. CASE ~(size'[r] > MaxResponseSize)
    <3>1. kept' = [kept EXCEPT ![r] = size'[r]] /\ size'[r] \in Nat
          /\ size'[r] <= MaxResponseSize
      BY <1>2, <2>2, <2>5, SizesAssumption DEF OnData
    <3>2. GoesOn(r)
      BY <1>2, <2>5 DEF OnData, GoesOn, Active
    <3> QED
      BY <2>2, <2>3, <3>1, <3>2 DEF TypeOK, BufferBounded
  <2> QED
    BY <2>4, <2>5
<1>3. CASE OnEnd(r)
  <2>1. Ends(r, "done")
    BY <1>3 DEF OnEnd, Ends, Become, Active, Texts
  <2> QED
    BY <1>3, <2>1 DEF OnEnd, TypeOK, BufferBounded
<1>4. CASE OnTimeout(r)
  <2>1. Ends(r, "destroyed")
    BY <1>4 DEF OnTimeout, Ends, Become, Texts
  <2> QED
    BY <1>4, <2>1 DEF OnTimeout, TypeOK, BufferBounded
<1>5. CASE OnError(r)
  <2>1. Ends(r, "done")
    BY <1>5 DEF OnError, Ends, Become, Texts
  <2> QED
    BY <1>5, <2>1 DEF OnError, TypeOK, BufferBounded
<1> QED
  BY <1>1, <1>2, <1>3, <1>4, <1>5 DEF Event

(* An event keeps the invariant.                                           *)
LEMMA EventStep ==
  ASSUME IInv, NEW r \in Requests, Event(r)
  PROVE  IInv'
<1>1. /\ GoesOn(r) \/ \E s \in {"done", "destroyed"} : Ends(r, s)
      /\ UNCHANGED <<host, secret, agent, route>>
      /\ answer' \in [Requests -> [ok : BOOLEAN, code : Codes]]
      /\ size' \in [Requests -> Nat] /\ kept' \in [Requests -> Nat]
      /\ BufferBounded'
  BY EventCases DEF IInv
<1>2. SecretInv' /\ CredentialsStayHome'
  BY <1>1 DEF IInv, SecretInv, CredentialsStayHome
<1>3. CASE GoesOn(r)
  <2>1. TypeOK'
    BY <1>1, <1>3 DEF IInv, TypeOK, GoesOn, Active
  <2>2. PromiseInv'
    BY <1>3, ZenonT(30) DEF IInv, TypeOK, PromiseInv, GoesOn, Active
  <2>3. ErrorIsOfRejected'
    BY <1>3 DEF IInv, GoesOn, ErrorIsOfRejected
  <2> QED
    BY <1>1, <1>2, <2>1, <2>2, <2>3 DEF IInv
<1>4. ASSUME NEW s \in {"done", "destroyed"}, Ends(r, s)
      PROVE  IInv'
  <2>1. state' = [state EXCEPT ![r] = s] /\ state[r] \in Active \cup {"destroyed"}
    BY <1>4 DEF Ends
  <2>2. ASSUME NEW t \in Texts, Reject(r, t),
               s = "destroyed" => t = "timed out" /\ state[r] \in Active
        PROVE  IInv'
    <3>1. /\ error' = <<r, t>> /\ error' \in Requests \X Texts
          /\ promise' \in [Requests -> {"none", "pending", "resolved", "rejected"}]
          /\ text' \in [Requests -> Texts \cup {"none", "body"}]
      BY <2>2, RejectType DEF IInv
    <3>2. TypeOK'
      BY <1>1, <2>1, <3>1 DEF IInv, TypeOK
    <3>3. Settle(r, "rejected", t)
      BY <2>2 DEF Reject
    <3>4. promise[r] \in {"pending", "rejected"}
      BY <2>1 DEF IInv, PromiseInv
    <3>5. promise'[r] = "rejected"
      BY <3>3, <3>4, SettleEffect DEF IInv
    <3>6. ASSUME NEW q \in Requests, q # r
          PROVE  promise'[q] = promise[q] /\ text'[q] = text[q] /\ state'[q] = state[q]
      <4>1. TypeOK
        BY Zenon DEF IInv
      <4>2. promise'[q] = promise[q] /\ text'[q] = text[q]
        BY <3>3, <3>6, <4>1, SettleEffect, Zenon
      <4>3. state \in [Requests -> {"new", "waiting", "reading", "destroyed", "done"}]
        BY <4>1, Zenon DEF TypeOK
      <4>4. state'[q] = state[q]
        BY <2>1, <3>6, <4>3, Zenon
      <4> QED BY <4>2, <4>4, Zenon
    <3>7. state'[r] = s
      BY <2>1 DEF IInv, TypeOK
    <3>8. s = "destroyed" => text'[r] = "timed out"
      BY <2>2, <3>3, SettleEffect DEF IInv, PromiseInv
    <3>9. PromiseInv'
      BY <3>5, <3>6, <3>7, <3>8 DEF IInv, PromiseInv, Active
    <3>10. ErrorIsOfRejected'
      BY <3>1, <3>5 DEF ErrorIsOfRejected
    <3> QED
      BY <1>1, <1>2, <3>2, <3>9, <3>10 DEF IInv
  <2>3. ASSUME s = "done", state[r] \in Active, Settle(r, "resolved", "body"),
               UNCHANGED error
        PROVE  IInv'
    <3>1. promise[r] = "pending"
      BY <2>3 DEF IInv, PromiseInv
    <3>2. promise'[r] = "resolved" /\ state'[r] = "done"
      BY <2>1, <2>3, <3>1, SettleEffect, ZenonT(30) DEF IInv, TypeOK
    <3>3. ASSUME NEW q \in Requests, q # r
          PROVE  promise'[q] = promise[q] /\ text'[q] = text[q] /\ state'[q] = state[q]
      <4>1. promise'[q] = promise[q] /\ text'[q] = text[q]
        BY <2>3, <3>3, SettleEffect DEF IInv
      <4> QED
        BY <2>1, <3>3, <4>1 DEF IInv, TypeOK
    <3>4. TypeOK'
      BY <1>1, <2>1, <2>3, SettleType DEF IInv, TypeOK
    <3>5. PromiseInv'
      BY <3>2, <3>3 DEF IInv, PromiseInv, Active
    <3>6. ErrorIsOfRejected'
      <4>1. error # NoError => error[1] \in Requests /\ error[1] # r
        BY <3>1 DEF IInv, TypeOK, ErrorIsOfRejected
      <4> QED
        BY <2>3, <3>3, <4>1 DEF IInv, ErrorIsOfRejected
    <3> QED
      BY <1>1, <1>2, <3>4, <3>5, <3>6 DEF IInv
  <2> QED
    BY <1>4, <2>2, <2>3 DEF Ends
<1> QED
  BY <1>1, <1>3, <1>4

(* A request starts with what the context holds, credentials and host      *)
(* together.                                                               *)
LEMMA SendStep ==
  ASSUME IInv, NEW r \in Requests, SendRdsCommand(r)
  PROVE  IInv'
<1>1. TypeOK'
  BY DEF IInv, TypeOK, SendRdsCommand, Become
<1>2. PromiseInv'
  BY DEF IInv, TypeOK, PromiseInv, SendRdsCommand, Become, Active
<1>3. SecretInv' /\ BufferBounded' /\ ErrorIsOfRejected'
  BY DEF IInv, SecretInv, BufferBounded, ErrorIsOfRejected, SendRdsCommand
<1>4. CredentialsStayHome'
  BY DEF IInv, TypeOK, SecretInv, CredentialsStayHome, SendRdsCommand
<1> QED
  BY <1>1, <1>2, <1>3, <1>4 DEF IInv

(* close() destroys requests and settles none.                             *)
LEMMA CloseStep ==
  ASSUME IInv, Close
  PROVE  IInv'
<1>1. TypeOK'
  BY DEF IInv, TypeOK, Close
<1>2. PromiseInv'
  BY DEF IInv, TypeOK, PromiseInv, Close, Active
<1>3. SecretInv' /\ BufferBounded' /\ ErrorIsOfRejected' /\ CredentialsStayHome'
  BY DEF IInv, SecretInv, BufferBounded, ErrorIsOfRejected, CredentialsStayHome, Close
<1> QED
  BY <1>1, <1>2, <1>3 DEF IInv

LEMMA InitInv == Init => IInv
  BY SizesAssumption DEF Init, IInv, TypeOK, PromiseInv, SecretInv, BufferBounded,
     ErrorIsOfRejected, CredentialsStayHome, NoRoute, NoAnswer, Codes, Active

LEMMA NextInv == IInv /\ [Next]_vars => IInv'
<1> SUFFICES ASSUME IInv, [Next]_vars PROVE IInv'
  OBVIOUS
<1>1. CASE ClearError
  BY <1>1 DEF ClearError, reqVars, IInv, TypeOK, PromiseInv, SecretInv, BufferBounded,
     ErrorIsOfRejected, CredentialsStayHome
<1>2. CASE UNCHANGED vars
  BY <1>2 DEF vars, ctxVars, reqVars, IInv, TypeOK, PromiseInv, SecretInv, BufferBounded,
     ErrorIsOfRejected, CredentialsStayHome
<1> QED
  BY <1>1, <1>2, SendStep, EventStep, CloseStep DEF Next

(* The inductive invariant holds in every state.                           *)
THEOREM Invariance == Spec => []IInv
  BY InitInv, NextInv, PTL DEF Spec

(* Types: every variable has its type.                                     *)
THEOREM TypeCorrect == Spec => []TypeOK
<1>1. IInv => TypeOK
  BY DEF IInv
<1> QED
  BY <1>1, Invariance, PTL

(* The memory kept for a response is bounded by MAX_RESPONSE_SIZE.         *)
THEOREM BufferIsBounded == Spec => []BufferBounded
<1>1. IInv => BufferBounded
  BY DEF IInv
<1> QED
  BY <1>1, Invariance, PTL

(* ctx.error never speaks of a request that succeeded.                     *)
THEOREM ErrorIsTrue == Spec => []ErrorIsOfRejected
<1>1. IInv => ErrorIsOfRejected
  BY DEF IInv
<1> QED
  BY <1>1, Invariance, PTL

(* A settled request has at most the error of a timeout still to report.   *)
THEOREM SettledOnce == Spec => []SettledRequestsAreQuiet
<1>1. IInv => SettledRequestsAreQuiet
  BY DEF IInv, TypeOK, PromiseInv, SettledRequestsAreQuiet, Active
<1> QED
  BY <1>1, Invariance, PTL

(* User name and password go to the configured host only, also after close. *)
THEOREM NoCredentialsAbroad == Spec => []CredentialsStayHome
<1>1. IInv => CredentialsStayHome
  BY DEF IInv
<1> QED
  BY <1>1, Invariance, PTL

(* The rejection of a promise is the text in ctx.error at that moment.     *)
THEOREM RejectionsAreRecorded == Spec => RejectionIsRecorded
<1> DEFINE A == \A r \in Requests :
                  promise[r] = "pending" /\ promise'[r] = "rejected"
                    => error' = <<r, text'[r]>>
<1>1. ASSUME IInv, Next, NEW q \in Requests,
             promise[q] = "pending", promise'[q] = "rejected"
      PROVE  error' = <<q, text'[q]>>
  <2>1. PICK r \in Requests : SendRdsCommand(r) \/ Event(r)
    BY <1>1 DEF Next, Close, ClearError, reqVars
  <2>2. ~SendRdsCommand(r)
    BY <1>1 DEF SendRdsCommand, IInv, TypeOK
  <2>3. PICK s \in {"done", "destroyed"} : Ends(r, s)
    BY <1>1, <2>1, <2>2, EventCases DEF IInv, GoesOn
  <2>4. ASSUME Settle(r, "resolved", "body")
        PROVE  FALSE
    BY <1>1, <2>4, SettleEffect DEF IInv
  <2>5. PICK t \in Texts : Reject(r, t)
    BY <2>3, <2>4 DEF Ends
  <2>6. Settle(r, "rejected", t) /\ error' = <<r, t>>
    BY <2>5 DEF Reject
  <2>7. q = r /\ text'[q] = t
    BY <1>1, <2>6, SettleEffect DEF IInv
  <2> QED
    BY <2>6, <2>7
<1>2. IInv /\ [Next]_vars => [A]_vars
  BY <1>1
<1> QED
  BY <1>2, Invariance, PTL DEF Spec, RejectionIsRecorded
=============================================================================
