------------------------------ MODULE CfrdsCli ------------------------------
(***************************************************************************)
(* The command line client, src/cli: each process reads a URI, makes the   *)
(* library calls of one command in order and turns their results into an   *)
(* exit code.  Several processes work on one server at a time.             *)
(*                                                                         *)
(* A library call is executed by the server or not, and returns OK only if *)
(* it was.  Printing is abstracted to whether the process says success;    *)
(* text is a sequence of tokens.  The server (its files, scans and debug   *)
(* sessions) is external.                                                  *)
(***************************************************************************)
EXTENDS Integers, SequencesExt

CONSTANTS
  Procs,        \* the processes
  Invocations,  \* what they are started with: [cmd, uri by its parts, args, local]
  Tokens,       \* what a text is made of
  PortOf,       \* the numerals in the URIs
  Target,       \* where mv moves to
  Contents      \* what a file may hold; among them "empty"

Sql == {"dsninfo", "tableinfo", "columninfo", "primarykeys", "foreignkeys",
        "importedkeys", "exportedkeys", "sql", "sqlmetadata",
        "supportedcommands", "dbdescription"}
Steps == {"step_in", "step_over", "step_out", "continue"}
AdminApi == {"debugging_getlogproperty", "extensions_getcustomtagpaths",
             "extensions_setmapping", "extensions_deletemapping",
             "extensions_getmappings"}
OneCall == Sql \cup Steps \cup AdminApi
             \cup {"ls", "mv", "rm", "mkdir", "rmdir", "cfroot", "ide_default",
                   "graphing", "file_read", "file_write"}

DebuggerScript ==
  <<"start", "set_scope_filter", "watch_variables", "clear_all_breakpoints",
    "set_breakpoint", "all_fetch_flags_enabled", "watch_expression",
    "set_variable", "step_over", "step_in", "step_out", "continue",
    "clear_breakpoint", "stop">>

\* The library calls a command makes, in order.
Script(c) ==
  CASE c \in {"cat", "get"} -> <<"file_read">>
    [] c = "put" -> <<"file_write">>
    [] c = "test_debugger" -> DebuggerScript
    [] c = "security_analyzer" -> <<"scan", "status", "result", "clean">>
    [] c \in OneCall -> <<c>>
    [] OTHER -> <<>>

Locals == Contents \cup {"absent", "locked", "part"}

ASSUME InvocationsAssumption ==
  /\ \A i \in Invocations : Script(i.cmd) # <<>> \/ i.cmd = "unknown"
  /\ \A i \in Invocations : i.local \in Locals
  /\ "empty" \in Contents

\* What a user means to write: names and a password without the characters
\* that separate them, a numeral or nothing, and any path after a "/".
Words == Tokens \ {":", "@", "/"}

WellMeant(u) ==
  /\ u.scheme \in Tokens /\ u.host \in Words
  /\ u.login \in Seq(Words) /\ Len(u.login) \in 0 .. 2
  /\ u.port = "default" \/ u.port \in DOMAIN PortOf
  /\ u.path \in Seq(Tokens) /\ (u.path # <<>> => u.path[1] = "/")

ASSUME UrisAssumption ==
  /\ {":", "@", "/"} \subseteq Tokens
  /\ PortOf \in [DOMAIN PortOf -> Nat] /\ DOMAIN PortOf \subseteq Words
  /\ \A i \in Invocations : WellMeant(i.uri)
  /\ Target \in Seq(Tokens)

VARIABLES
  cmd, uri, args,  \* the arguments; args: "none", "some" or "all" that follow the URI
  stage,           \* what the process does next
  at,              \* the call it makes next
  to,              \* what it read in the URI
  got,             \* what the last call returned
  exit,            \* its exit code
  local,           \* its local file; "locked" cannot be opened, "part" is a short write
  file,            \* the server's files, by path
  job,             \* the scan the server runs for a process
  session,         \* the debug session it keeps for a process ...
  armed,           \* ... and whether the breakpoint is set in it
  executed,        \* the calls it executed for a process
  received,        \* the content it stored for a process
  sent             \* the content it answered a process with

inputs == <<cmd, uri, args>>
client == <<stage, at, to, got, exit>>
server == <<file, job, session, armed, executed, received, sent>>
vars == <<inputs, client, local, server>>

Uris == {i.uri : i \in Invocations}
Paths == {u.path : u \in Uris} \cup { <<"/">>, Target }
Nobody == [ok |-> FALSE]

-----------------------------------------------------------------------------
(* init_server_from_uri                                                    *)

\* The text of a URI.
Written(u) ==
  << u.scheme >>
    \o (CASE Len(u.login) = 0 -> <<>>
          [] Len(u.login) = 1 -> <<u.login[1], "@">>
          [] Len(u.login) = 2 -> <<u.login[1], ":", u.login[2], "@">>)
    \o << u.host >>
    \o (IF u.port = "default" THEN <<>> ELSE <<":", u.port>>)
    \o u.path

\* strchr from a position; 0 for NULL
First(text, c, from) ==
  LET found == {i \in from .. Len(text) : text[i] = c}
  IN  IF found = {} THEN 0 ELSE Min(found)

\* atol
PortNumber(text) ==
  IF text # <<>> /\ text[1] \in DOMAIN PortOf THEN PortOf[text[1]] ELSE 0

LoginOf(text) ==
  LET login == First(text, "@", 1)
      pass  == First(text, ":", 1)
  IN  IF login = 0 THEN [user |-> <<>>, password |-> <<>>, end |-> 0]
      ELSE IF pass # 0 /\ pass < login
      THEN [user |-> SubSeq(text, 1, pass - 1),
            password |-> SubSeq(text, pass + 1, login - 1), end |-> login]
      ELSE [user |-> SubSeq(text, 1, login - 1), password |-> <<>>, end |-> login]

\* Where host and port end and the path begins.
EndOf(text) == IF First(text, "/", 1) = 0 THEN Len(text) + 1 ELSE First(text, "/", 1)
PathOf(text) ==
  IF First(text, "/", 1) = 0 THEN <<"/">> ELSE SubSeq(text, EndOf(text), Len(text))

ColonOf(text) == First(text, ":", LoginOf(text).end + 1)
HostEnd(text) == IF ColonOf(text) = 0 THEN EndOf(text) ELSE ColonOf(text)
NumberOf(text) ==
  IF ColonOf(text) = 0 THEN 80
  ELSE PortNumber(SubSeq(text, ColonOf(text) + 1, EndOf(text) - 1))

\* A path that holds '@' or ':' makes a length negative, and malloc of so
\* large a size_t fails.
ParseText(text) ==
  IF \/ HostEnd(text) < LoginOf(text).end + 1 \/ HostEnd(text) > EndOf(text)
     \/ NumberOf(text) > 65535
  THEN Nobody
  ELSE [ok |-> TRUE,
        host |-> SubSeq(text, LoginOf(text).end + 1, HostEnd(text) - 1),
        port |-> NumberOf(text),
        user |-> LoginOf(text).user, password |-> LoginOf(text).password,
        path |-> PathOf(text)]

ParseUri(whole) ==
  IF Head(whole) # "rds://" THEN Nobody ELSE ParseText(Tail(whole))

\* What its parts mean.
Meant(u) ==
  [ok |-> TRUE, host |-> <<u.host>>,
   port |-> IF u.port = "default" THEN 80 ELSE PortOf[u.port],
   user |-> IF u.login = <<>> THEN <<>> ELSE <<u.login[1]>>,
   password |-> IF Len(u.login) < 2 THEN <<>> ELSE <<u.login[2]>>,
   path |-> IF u.path = <<>> THEN <<"/">> ELSE u.path]

Parsed == [u \in Uris |-> ParseUri(Written(u))]

-----------------------------------------------------------------------------
Init ==
  /\ cmd = [p \in Procs |-> "none"] /\ uri = [p \in Procs |-> Nobody]
  /\ args = [p \in Procs |-> "none"]
  /\ stage = [p \in Procs |-> "begin"] /\ at = [p \in Procs |-> 1]
  /\ to = [p \in Procs |-> Nobody] /\ got = [p \in Procs |-> "nothing"]
  /\ exit = [p \in Procs |-> "none"]
  /\ local = [p \in Procs |-> "absent"]
  /\ file = [path \in Paths |-> IF path = <<"/">> THEN "dir" ELSE "old"]
  /\ job = [p \in Procs |-> "none"] /\ session = [p \in Procs |-> FALSE]
  /\ armed = [p \in Procs |-> FALSE]
  /\ executed = [p \in Procs |-> {}] /\ received = [p \in Procs |-> "nothing"]
  /\ sent = [p \in Procs |-> "nothing"]

Exits(p, code) ==
  /\ exit' = [exit EXCEPT ![p] = code]
  /\ stage' = [stage EXCEPT ![p] = "exit"]

Goes(p, where) ==
  /\ stage' = [stage EXCEPT ![p] = where]
  /\ UNCHANGED exit

\* main, up to the first handler: the arguments it checks, the URI, and the
\* server object.
Refused(i) ==
  \/ i.cmd = "put" /\ i.args = "none"
  \/ i.cmd \in Steps /\ i.args # "all"

Begin(p, i) ==
  /\ stage[p] = "begin" /\ ~Refused(i) /\ Parsed[i.uri].ok
  /\ cmd' = [cmd EXCEPT ![p] = i.cmd] /\ uri' = [uri EXCEPT ![p] = i.uri]
  /\ args' = [args EXCEPT ![p] = i.args] /\ local' = [local EXCEPT ![p] = i.local]
  /\ to' = [to EXCEPT ![p] = Parsed[i.uri]]
  /\ Goes(p, "command")
  /\ UNCHANGED <<at, got, server>>

\* No URI, an argument too few, a URI it cannot read, or no memory.
BeginFails(p) ==
  /\ stage[p] = "begin"
  /\ Exits(p, "failure")
  /\ UNCHANGED <<inputs, at, to, got, local, server>>

-----------------------------------------------------------------------------
(* What a command checks before its first call                             *)

Silent(c) == c \in {"sql", "sqlmetadata", "supportedcommands", "dbdescription"}
NeedsTable(c) ==
  c \in {"columninfo", "primarykeys", "foreignkeys", "importedkeys", "exportedkeys"}
NeedsSchema(c) == c = "tableinfo" \/ NeedsTable(c) \/ Silent(c)

HasSchema(p) == Len(to[p].path) > 1
HasTable(p) == HasSchema(p) /\ First(to[p].path, "/", 2) # 0

LacksArguments(p) ==
  \/ cmd[p] \in AdminApi \cup {"graphing"} /\ args[p] = "none"
  \/ /\ cmd[p] \in AdminApi \ {"extensions_getcustomtagpaths", "extensions_getmappings"}
     /\ args[p] = "some"

\* Four SQL commands do nothing, and say so to no one, without a schema.
Command(p) ==
  /\ stage[p] = "command"
  /\ \/ /\ NeedsSchema(cmd[p]) /\ ~HasSchema(p)
        /\ Exits(p, IF Silent(cmd[p]) THEN "success" ELSE "failure")
        /\ UNCHANGED got
     \/ /\ NeedsTable(cmd[p]) /\ HasSchema(p)  \* no table, or no memory for it
        /\ Exits(p, "failure") /\ UNCHANGED got
     \/ /\ cmd[p] = "unknown" \/ LacksArguments(p)
        /\ Exits(p, "failure") /\ UNCHANGED got
     \/ /\ NeedsSchema(cmd[p]) => HasSchema(p)
        /\ NeedsTable(cmd[p]) => HasTable(p)
        /\ cmd[p] \notin {"unknown", "put"} /\ ~LacksArguments(p)
        /\ Goes(p, "call") /\ UNCHANGED got
  /\ UNCHANGED <<inputs, at, to, local, server>>

\* os_map: a file that cannot be opened is taken for an empty one, and only a
\* failing mmap is an error.
MapFile(p) ==
  /\ stage[p] = "command" /\ cmd[p] = "put"
  /\ \/ /\ got' = [got EXCEPT ![p] =
                      IF local[p] \in {"absent", "locked"} THEN "empty" ELSE local[p]]
        /\ Goes(p, "call")
     \/ /\ local[p] \notin {"absent", "locked", "empty"}
        /\ Exits(p, "failure") /\ UNCHANGED got
  /\ UNCHANGED <<inputs, at, to, local, server>>

-----------------------------------------------------------------------------
(* The calls                                                               *)

Call(p) == Script(cmd[p])[at[p]]
Path(p) == to[p].path

\* The server's part of a call; disabled where the server refuses.
Effect(p, c) ==
  \/ /\ c = "file_write" /\ file[Path(p)] # "dir"
     /\ file' = [file EXCEPT ![Path(p)] = got[p]]
     /\ received' = [received EXCEPT ![p] = got[p]]
     /\ UNCHANGED <<job, session, armed>>
  \/ /\ c = "mv" /\ args[p] # "none" /\ file[Path(p)] # "absent"
     /\ file' = [file EXCEPT ![Path(p)] = "absent", ![Target] = file[Path(p)]]
     /\ UNCHANGED <<job, session, armed, received>>
  \/ /\ \/ c = "rm" /\ file[Path(p)] \notin {"absent", "dir"}
        \/ c = "rmdir" /\ file[Path(p)] = "dir"
     /\ file' = [file EXCEPT ![Path(p)] = "absent"]
     /\ UNCHANGED <<job, session, armed, received>>
  \/ /\ c = "mkdir" /\ file[Path(p)] = "absent"
     /\ file' = [file EXCEPT ![Path(p)] = "dir"]
     /\ UNCHANGED <<job, session, armed, received>>
  \/ /\ c \in {"scan", "clean"}
     /\ job' = [job EXCEPT ![p] = IF c = "scan" THEN "scanning" ELSE "none"]
     /\ UNCHANGED <<file, session, armed, received>>
  \/ /\ c \in {"start", "stop"}
     /\ session' = [session EXCEPT ![p] = (c = "start")]
     /\ armed' = [armed EXCEPT ![p] = FALSE]
     /\ UNCHANGED <<file, job, received>>
  \/ /\ c \in {"set_breakpoint", "clear_breakpoint", "clear_all_breakpoints"}
     /\ armed' = [armed EXCEPT ![p] = (c = "set_breakpoint")]
     /\ UNCHANGED <<file, job, session, received>>
  \/ /\ c = "file_read" => file[Path(p)] \notin {"absent", "dir"}
     /\ c \notin {"file_write", "mv", "rm", "rmdir", "mkdir", "scan", "clean", "start",
                  "stop", "set_breakpoint", "clear_breakpoint", "clear_all_breakpoints"}
     /\ UNCHANGED <<file, job, session, armed, received>>

Executes(p) ==
  /\ Effect(p, Call(p))
  /\ executed' = [executed EXCEPT ![p] = @ \cup {Call(p)}]
  /\ sent' = [sent EXCEPT ![p] = IF Call(p) = "file_read" THEN file[Path(p)] ELSE @]

\* What a call that returned OK leaves in its output: file_read and browse_dir
\* return OK also when they cannot parse the response, and leave NULL.
Outputs(p, c) ==
  CASE c = "file_read" -> {file[Path(p)], "null"}
    [] c = "ls" -> {"listing", "null"}
    [] c = "status" -> {IF job[p] = "finished" THEN "100" ELSE "50"}
    [] c = "result" -> {"success", "other", "missing"}
    [] c = "sql" -> {"columns", "no_columns"}
    [] c = "graphing" -> {"image"}
    [] OTHER -> {"nothing"}

Proceeds(p) ==
  IF at[p] < Len(Script(cmd[p]))
  THEN at' = [at EXCEPT ![p] = @ + 1] /\ Goes(p, "call")
  ELSE Goes(p, "output") /\ UNCHANGED at

\* percentage > 100
AnsweredNotAtHundred(p, value) ==
  CASE Call(p) = "status" -> Goes(p, "sleep") /\ UNCHANGED at
    [] Call(p) = "result" /\ value = "missing" -> Exits(p, "crashed") /\ UNCHANGED at
    [] Call(p) = "result" /\ value = "other" -> Exits(p, "failure") /\ UNCHANGED at
    [] OTHER -> Proceeds(p)

\* The analyzer polls until the server says 100, and compares the status in
\* the result without looking whether there is one.
Answered(p, value) ==
  CASE Call(p) = "status" /\ value # "100" -> Goes(p, "sleep") /\ UNCHANGED at
    [] Call(p) = "result" /\ value = "missing" -> Exits(p, "crashed") /\ UNCHANGED at
    [] Call(p) = "result" /\ value = "other" -> Exits(p, "failure") /\ UNCHANGED at
    [] OTHER -> Proceeds(p)

CallReturns(p) ==
  /\ stage[p] = "call" /\ Executes(p)
  /\ \E value \in Outputs(p, Call(p)) :
       /\ got' = [got EXCEPT ![p] = value]
       /\ Answered(p, value)
  /\ UNCHANGED <<inputs, to, local>>

\* usleep, 250 ms between two polls
Sleep(p) ==
  /\ stage[p] = "sleep"
  /\ Goes(p, "call")
  /\ UNCHANGED <<inputs, at, to, got, local, server>>

CallFailsGoingOn(p) ==
  /\ stage[p] = "call"
  /\ UNCHANGED server \/ Executes(p)
  /\ IF Call(p) = "clean" THEN Proceeds(p) ELSE Exits(p, "failure") /\ UNCHANGED at
  /\ UNCHANGED <<inputs, to, got, local>>

\* An error, whether or not the server executed the call: the command ends
\* there and undoes nothing.
CallFails(p) ==
  /\ stage[p] = "call"
  /\ UNCHANGED server \/ Executes(p)
  /\ Exits(p, "failure")
  /\ UNCHANGED <<inputs, at, to, got, local>>

-----------------------------------------------------------------------------
(* After the last call                                                     *)

Opens(p) == local[p] # "locked" /\ args[p] # "none"

\* cfrds_file_content_get_size: NULL has size 0, so that no test tells it from
\* an empty file.
Content(p) == IF got[p] = "null" THEN "empty" ELSE got[p]

\* get: once there is an answer the local file is created or emptied, the
\* content written, and the length written compared.
Download(p) ==
  /\ stage[p] = "output" /\ cmd[p] = "get"
  /\ \/ /\ Exits(p, "failure")
        /\ UNCHANGED local
     \/ /\ Opens(p)
        /\ local' = [local EXCEPT ![p] = Content(p)]
        /\ Exits(p, "success")
     \/ /\ Opens(p)
        /\ \E written \in {"empty", "part"} : local' = [local EXCEPT ![p] = written]
        /\ Exits(p, "failure")
  /\ UNCHANGED <<inputs, at, to, got, server>>

\* graphing does not look at what fwrite and fclose return.
SaveGraph(p) ==
  /\ stage[p] = "output" /\ cmd[p] = "graphing" /\ args[p] = "all"
  /\ \/ /\ Exits(p, "failure")
        /\ UNCHANGED local
     \/ /\ Opens(p)
        /\ \E written \in {got[p], "part"} : local' = [local EXCEPT ![p] = written]
        /\ Exits(p, "success")
  /\ UNCHANGED <<inputs, at, to, got, server>>

\* ls and cat show what they have, an empty list or text for NULL; only cat
\* looks whether that could be written.
ShowResult(p) ==
  /\ stage[p] = "output"
  /\ cmd[p] # "get" /\ ~(cmd[p] = "graphing" /\ args[p] = "all")
  /\ \/ /\ got[p] # "no_columns"
        /\ Exits(p, "success")
     \/ /\ cmd[p] = "cat" \/ got[p] = "no_columns"
        /\ Exits(p, "failure")
  /\ UNCHANGED <<inputs, at, to, got, local, server>>

-----------------------------------------------------------------------------
(* The server's scans                                                      *)

ScanFinishes(p) ==
  /\ job[p] = "scanning"
  /\ job' = [job EXCEPT ![p] = "finished"]
  /\ UNCHANGED <<inputs, client, local, file, session, armed, executed, received, sent>>

\* Cancelled by another client, or given up: it never reaches 100.
ScanStops(p) ==
  /\ job[p] = "scanning"
  /\ job' = [job EXCEPT ![p] = "stopped"]
  /\ UNCHANGED <<inputs, client, local, file, session, armed, executed, received, sent>>

Starts(p) ==
  \/ \E i \in Invocations : Begin(p, i)
  \/ BeginFails(p)

ProcessStep(p) ==
  \/ Command(p) \/ MapFile(p)
  \/ CallReturns(p) \/ Sleep(p) \/ CallFails(p)
  \/ Download(p) \/ SaveGraph(p) \/ ShowResult(p)

ServerStep(p) == ScanFinishes(p) \/ ScanStops(p)

Next == \E p \in Procs : Starts(p) \/ ProcessStep(p) \/ ServerStep(p)

\* A call returns in the end (RdsTransport), a process is not stopped between
\* two, and a scan does not run for ever.
Spec == Init /\ [][Next]_vars
          /\ \A p \in Procs : WF_vars(ProcessStep(p)) /\ WF_vars(ServerStep(p))

-----------------------------------------------------------------------------
(* Properties                                                              *)

DidNothing(p) == Silent(cmd[p]) /\ executed[p] = {}
SourceWasThere(p) == local[p] \notin {"absent", "locked"}

\* What get leaves on the disk.
Downloaded(p) == IF got[p] = "null" THEN "empty" ELSE sent[p]

\* A process that exits with success has had every call of its command
\* executed, with the host, login and path its URI names, whatever other
\* processes do: what get left on the disk is what the server sent, what put
\* sent is the local file, no scan, session or breakpoint is left behind.
\* Four successes promise less: an SQL statement without a schema does
\* nothing, an answer that get cannot read leaves an empty file, a file that
\* put cannot open is sent as an empty one, and of a saved graph or of what is
\* printed nothing is said.
SuccessMeansDone ==
  \A p \in Procs : exit[p] = "success" =>
    /\ to[p] = Meant(uri[p])
    /\ DidNothing(p) \/ ToSet(Script(cmd[p])) \subseteq executed[p]
    /\ cmd[p] = "get" => local[p] = Downloaded(p)
    /\ cmd[p] = "put" /\ SourceWasThere(p) => received[p] = local[p]
    /\ job[p] = "none" /\ ~session[p] /\ ~armed[p]

\* What README.md calls "File download", with no exception: after a get that
\* succeeded the local file is what the server sent. Violated: an answer that
\* cannot be read empties the file, and the test for it in cmd_file.c asks for
\* a size that cfrds_file_content_get_size never returns.
GetSavesWhatWasSent ==
  \A p \in Procs : exit[p] = "success" /\ cmd[p] = "get" => local[p] = sent[p]

\* A command ends, unless its scan stopped short: then it polls for ever.
CommandEnds ==
  \A p \in Procs : (stage[p] = "command") ~> (stage[p] = "exit" \/ job[p] = "stopped")
=============================================================================
