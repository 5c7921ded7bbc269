------------------------------ MODULE RdsCall ------------------------------
(***************************************************************************)
(* What cfrds_send_command promises the commands built on it, without any  *)
(* network, buffer or error text: calls are made one at a time; the server *)
(* executes each at most once; OK means it has executed it; a failure to   *)
(* resolve, connect or write means it never will; and only an OK call      *)
(* leaves a response that the caller has to release.                       *)
(*                                                                         *)
(* A call that fails while reading promises nothing: the server may have   *)
(* executed it, may do so later, after later calls even, or never.         *)
(***************************************************************************)
EXTENDS Naturals

CONSTANTS MaxCalls,  \* calls on one server object
          Statuses,  \* what a call may return
          NotSent    \* the statuses that rule out an execution

VARIABLES busy,      \* a call is running
          issued,    \* calls begun
          outcome,   \* what each call returned
          order,     \* order[c] = n: c was the n-th to be executed; 0: not yet
          runs,      \* executions so far
          held       \* the caller holds a response

vars == <<busy, issued, outcome, order, runs, held>>

Init ==
  /\ busy = FALSE /\ issued = 0 /\ held = FALSE /\ runs = 0
  /\ outcome = [c \in 1 .. MaxCalls |-> "none"]
  /\ order = [c \in 1 .. MaxCalls |-> 0]

Issue ==
  /\ ~busy /\ ~held /\ issued < MaxCalls
  /\ busy' = TRUE /\ issued' = issued + 1
  /\ UNCHANGED <<outcome, order, runs, held>>

Execute(c) ==
  /\ c <= issued /\ order[c] = 0
  /\ outcome[c] \notin NotSent \cup {"OK"}
  /\ runs' = runs + 1
  /\ order' = [order EXCEPT ![c] = runs + 1]
  /\ UNCHANGED <<busy, issued, outcome, held>>

Return(s) ==
  /\ busy /\ busy' = FALSE
  /\ s = "OK" => order[issued] > 0
  /\ s \in NotSent => order[issued] = 0
  /\ outcome' = [outcome EXCEPT ![issued] = s]
  /\ held' \in BOOLEAN /\ (held' => s = "OK")
  /\ UNCHANGED <<issued, order, runs>>

Release ==
  /\ ~busy /\ held /\ held' = FALSE
  /\ UNCHANGED <<busy, issued, outcome, order, runs>>

Next ==
  \/ Issue
  \/ \E c \in 1 .. MaxCalls : Execute(c)
  \/ \E s \in Statuses : Return(s)
  \/ Release

Spec == Init /\ [][Next]_vars
=============================================================================
