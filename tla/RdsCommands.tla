----------------------------- MODULE RdsCommands -----------------------------
(***************************************************************************)
(* The commands of libcfrds on top of the transport: what an application   *)
(* gets from cfrds_command_* - a status, an output and the error text of   *)
(* the server object.                                                      *)
(*                                                                         *)
(* The 49 commands differ only in what they do with a call that            *)
(* returned OK. Each is of one of these kinds:                             *)
(*   plain    asks for no response                                         *)
(*   ignored  asks for one and does not look at it                         *)
(*   handover gives it to the caller as it is                              *)
(*   lenient  stores what the parser made of it, NULL included, returns OK *)
(*   strict   fails when the parser does: error code -1, no text           *)
(*   checked  strict, without an output                                    *)
(*   clearing strict, but its output is overwritten with NULL first        *)
(*   texted   fails when the parser does, with a text                      *)
(*   audited  texted, without an output                                    *)
(*   exists   file_exists, whose answer is in the success itself           *)
(* The document inside a complete item (WDDX, JSON) is taken to be what    *)
(* the command expects.                                                    *)
(***************************************************************************)
EXTENDS RdsTransport

VARIABLES kind,  \* the kind of the command that made the running, or last,
                 \* call; "none" if the last command made no call
          told,  \* what the command returned; "running" until then
          out    \* the application's output variable: which call put what there

cmdVars == <<kind, told, out>>
allVars == <<vars, cmdVars>>

Untouched == <<0, "old">>

-----------------------------------------------------------------------------
(* The commands, by source file.                                           *)

FileCommands ==
  [browse_dir |-> "lenient", file_read |-> "lenient", file_write |-> "plain",
   file_rename |-> "plain", file_remove_file |-> "plain",
   file_remove_dir |-> "plain", file_exists |-> "exists"]
RootCommands == [file_create_dir |-> "plain", file_get_root_dir |-> "strict"]

\* All through cfrds_execute_sql_cmd.
SqlCommands ==
  [c \in {"dsninfo", "tableinfo", "columninfo", "primarykeys", "foreignkeys",
          "importedkeys", "exportedkeys", "sqlstmnt", "sqlmetadata",
          "getsupportedcommands", "dbdescription"} |-> "strict"]

DebuggerSession ==
  [debugger_start |-> "clearing", debugger_stop |-> "checked",
   get_server_info |-> "strict", breakpoint_on_exception |-> "checked"]
DebuggerRequests ==
  [breakpoint |-> "checked", clear_all_breakpoints |-> "checked",
   get_debug_events |-> "lenient", all_fetch_flags_enabled |-> "lenient"]
DebuggerThreads ==
  [c \in {"step_in", "step_over", "step_out", "continue"} |-> "checked"]
DebuggerVariables ==
  [watch_expression |-> "ignored", set_variable |-> "ignored",
   watch_variables |-> "ignored", get_output |-> "strict",
   set_scope_filter |-> "ignored"]

AnalyzerStart == [scan |-> "texted", cancel |-> "audited"]
AnalyzerCommands == [status |-> "texted", result |-> "strict", clean |-> "audited"]

IdeCommands == [ide_default |-> "strict", getlogproperty |-> "strict"]
AdminCommands ==
  [getcustomtagpaths |-> "strict", setmapping |-> "checked",
   deletemapping |-> "checked", getmappings |-> "strict"]
GraphCommands == [graphing |-> "handover"]

KindsOf(table) == {table[c] : c \in DOMAIN table}
Kinds == UNION
  {KindsOf(FileCommands), KindsOf(RootCommands), KindsOf(SqlCommands),
   KindsOf(DebuggerSession), KindsOf(DebuggerRequests), KindsOf(DebuggerThreads),
   KindsOf(DebuggerVariables), KindsOf(AnalyzerStart), KindsOf(AnalyzerCommands),
   KindsOf(IdeCommands), KindsOf(AdminCommands), KindsOf(GraphCommands)}

NoResponseKinds == {"plain", "exists"}
Fetching        == {"lenient", "strict", "clearing", "texted"}

\* Returned before anything is sent: SERVER_IS_NULL, PARAM_IS_NULL, and
\* INVALID_INPUT_PARAMETER for more than 1023 parameters or no variable.
Refusals == {"SERVER_IS_NULL", "PARAM_IS_NULL", "INVALID_INPUT_PARAMETER"}

\* What a parser of cfrds_buffer.c needs: data that begin with the number
\* (unit 3 of the reply), and all of the items after it.
Parsed == response[1] = 3 /\ response[2] >= 4

-----------------------------------------------------------------------------
\* A command without a call leaves even the error text of an earlier one.
\* (watch_variables and setmapping allocate before the call.)
RefuseCommand ==
  /\ told # "running"
  /\ told' \in Refusals \cup (IF AllocMayFail THEN {"MEMORY_ERROR"} ELSE {})
  /\ kind' = "none" /\ out' = Untouched
  /\ UNCHANGED vars

\* graphing without memory for its list: a status and a code, no text.
GraphingOutOfMemory ==
  /\ told # "running" /\ AllocMayFail
  /\ told' = "RESPONSE_ERROR" /\ error_code' = "minus_one"
  /\ kind' = "none" /\ out' = Untouched
  /\ UNCHANGED <<clientVars, error, sockVars, live, sendVars, recvVars, peerVars>>

BeginCommand(k) ==
  /\ told # "running"
  /\ SendCommand(k \notin NoResponseKinds)
  /\ kind' = k /\ told' = "running" /\ out' = Untouched

\* The call has returned; the deferred cleanup frees the response when the
\* command does.
Returned(k) == told = "running" /\ pc = "idle" /\ kind = k

Release ==
  /\ response' = NoResponse
  /\ live' = live \ {"tmp_response"}
  /\ UNCHANGED <<pc, call, want, result, sockVars, sendVars, elapsed, got, peerVars>>

\* The call failed: its status is passed on. (file_exists: see below.)
PassFailure ==
  /\ told = "running" /\ pc = "idle" /\ kind # "exists"
  /\ result[call] # "OK"
  /\ told' = result[call]
  /\ Release
  /\ UNCHANGED <<oom, errorVars, kind, out>>

\* It succeeded, and there is nothing to parse; graphing's response becomes
\* the caller's.
ReturnUnparsed ==
  /\ told = "running" /\ pc = "idle" /\ kind \in {"plain", "ignored", "handover"}
  /\ result[call] = "OK"
  /\ told' = "OK"
  /\ out' = IF kind = "handover" THEN <<call, "buffer">> ELSE out
  /\ Release
  /\ UNCHANGED <<oom, errorVars, kind>>

\* Mutant of ReturnLenient: the parser's result is not initialised with NULL.
LenientUninitialised ==
  /\ Returned("lenient") /\ result[call] = "OK"
  /\ out' = <<call, IF Parsed THEN "value" ELSE "garbage">>
  /\ told' = "OK"
  /\ Release
  /\ UNCHANGED <<oom, errorVars, kind>>

ReturnLenient ==
  /\ Returned("lenient") /\ result[call] = "OK"
  /\ out' = <<call, IF Parsed THEN "value" ELSE "null">>
  /\ told' = "OK"
  /\ Release
  /\ UNCHANGED <<oom, errorVars, kind>>

\* Mutant of ReturnStrict: the early return does not free the response.
StrictLeaking ==
  /\ \E k \in {"strict", "checked", "clearing"} : Returned(k)
  /\ result[call] = "OK" /\ ~Parsed
  /\ told' = "RESPONSE_ERROR"
  /\ error_code' = "minus_one"
  /\ response' = NoResponse
  /\ UNCHANGED <<pc, call, want, result, sockVars, sendVars, elapsed, got, peerVars>>
  /\ UNCHANGED <<oom, error, live, kind, out>>

\* A failing parse sets server->error_code to -1 and leaves the text NULL.
ReturnStrict ==
  /\ \E k \in {"strict", "checked", "clearing"} : Returned(k)
  /\ result[call] = "OK"
  /\ out' = IF Parsed /\ kind # "checked" THEN <<call, "value">>
            ELSE IF kind = "clearing" THEN <<call, "null">> ELSE out
  /\ told' = IF Parsed THEN "OK" ELSE "RESPONSE_ERROR"
  /\ error_code' = IF Parsed THEN error_code ELSE "minus_one"
  /\ Release
  /\ UNCHANGED <<oom, error, kind>>

ReturnTexted ==
  /\ \E k \in {"texted", "audited"} : Returned(k)
  /\ result[call] = "OK"
  /\ Release
  /\ UNCHANGED kind
  /\ IF Parsed
       THEN /\ told' = "OK"
            /\ out' = IF kind = "texted" THEN <<call, "value">> ELSE out
            /\ UNCHANGED <<oom, errorVars>>
       ELSE /\ told' = "RESPONSE_ERROR"
            /\ SetError("RESPONSE_ERROR")
            /\ UNCHANGED out

\* file_exists: OK means it exists; -1 with "The system cannot find the path
\* specified: " is to mean that it does not. (Every text of a negative reply
\* is taken to be that one.)
NotFoundSeen == error_code = "minus_one" /\ error # NoError /\ reply.code = "neg"

\* Mutant of ReturnExists: the flag is set before the status is looked at.
ExistsAssumed ==
  /\ Returned("exists")
  /\ told' = result[call] /\ out' = <<call, "true">>
  /\ Release
  /\ UNCHANGED <<oom, errorVars, kind>>

ReturnExists ==
  /\ Returned("exists")
  /\ IF result[call] = "OK"
       THEN /\ told' = "OK" /\ out' = <<call, "true">>
            /\ UNCHANGED errorVars
       ELSE IF NotFoundSeen
       THEN /\ told' = "OK" /\ out' = <<call, "false">>
            /\ error_code' = "cleared" /\ error' = NoError
       ELSE /\ told' = result[call]
            /\ UNCHANGED <<out, errorVars>>
  /\ Release
  /\ UNCHANGED <<oom, kind>>

-----------------------------------------------------------------------------
CmdInit ==
  /\ Init
  /\ kind = "none" /\ told = "none" /\ out = Untouched

CmdStep ==
  \/ CallStep /\ UNCHANGED cmdVars
  \/ PassFailure \/ ReturnUnparsed
  \/ ReturnLenient \/ ReturnStrict \/ ReturnTexted \/ ReturnExists

AllCallsMade == told # "running" /\ call = MaxCalls /\ UNCHANGED allVars

CmdNext ==
  \/ RefuseCommand \/ GraphingOutOfMemory
  \/ \E k \in Kinds : BeginCommand(k)
  \/ CmdStep
  \/ PeerStep /\ UNCHANGED cmdVars
  \/ pc = "killed" /\ UNCHANGED allVars
  \/ AllCallsMade

CmdSpec == CmdInit /\ [][CmdNext]_allVars

-----------------------------------------------------------------------------
\* Every variable of the command layer has its type.
CmdTypeOK ==
  /\ kind \in Kinds \cup {"none"}
  /\ told \in Statuses \cup Refusals \cup {"none", "running"}
  /\ out \in {Untouched} \cup (Calls \X {"value", "null", "buffer", "true", "false"})
  /\ error_code \in Statuses \cup {"cleared", "count", "minus_one"}

\* Whatever way a command returns, it has given back the descriptor, every
\* buffer and the response, and the next command may begin.
CommandOwnsNothing ==
  told # "running" => pc = "idle" /\ open = {} /\ live = {} /\ response = NoResponse

\* What a command puts into the output comes from its own call, and only from
\* one the server has executed: never from an earlier reply, and never when
\* the application is told that the request did not get through.
OutputIsOwnAnswer ==
  /\ out # Untouched => out[1] = call /\ executed[call] > 0
  /\ told \in NotSent \cup Refusals => out = Untouched

\* The error text is never about an earlier call than the last one, and after
\* a command that made it, it is the text of the status the command returned.
TextIsOfLastCall ==
  error # NoError =>
    /\ error[1] = call
    /\ kind # "none" /\ told # "running" => error[2] = told

\* include/cfrds.h, of file_read (and alike of the others): the output is "the
\* allocated file content structure" of a command that fetched a reply which
\* arrived in full.
GoodReplyGivesValue ==
  kind \in Fetching /\ told # "running" =>
    (result[call] = "OK" /\ got >= 4 => out = <<call, "value">>)

\* include/cfrds.h, of file_exists: the output is "where existence flag is
\* stored": the server's answer that there is no such file is one.
AbsenceIsAnAnswer ==
  kind = "exists" /\ got >= 4 /\ reply.code = "neg" => told # "RESPONSE_ERROR"
=============================================================================
