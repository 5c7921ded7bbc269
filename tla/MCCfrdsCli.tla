----------------------------- MODULE MCCfrdsCli -----------------------------
EXTENDS CfrdsCli, TLC

CONSTANTS p1, p2

MCProcs == {p1, p2}
MCContents == {"empty", "old", "new"}
MCTarget == <<"/", "b">>
MCTokens == {"rds://", "http://", ":", "@", "/", "user", "pass", "host", "8500",
             "99999", "a", "b", "t", "C"}
MCPortOf == ("8500" :> 8500) @@ ("99999" :> 99999)

Uri(login, port, path) ==
  [scheme |-> "rds://", login |-> login, host |-> "host", port |-> port, path |-> path]

Plain == Uri(<<>>, "default", <<"/", "a">>)

\* Every optional part there and not; paths without and with a table; a path
\* of Windows and one with an '@'.
MCUris == {
  Uri(<<>>, "default", <<>>),
  Uri(<<"user">>, "8500", <<"/", "a">>),
  Uri(<<"user", "pass">>, "8500", <<"/", "a", "/", "t">>),
  Uri(<<>>, "default", <<"/", "C", ":", "/", "a">>),
  Uri(<<"user", "pass">>, "default", <<"/", "a", "@", "b">>),
  Uri(<<>>, "99999", <<"/", "a">>),
  [Plain EXCEPT !.scheme = "http://"] }

MCCommands ==
  (OneCall \ {"file_read", "file_write"})
    \cup {"cat", "get", "put", "test_debugger", "security_analyzer", "unknown"}

\* Every command with all its arguments; the URIs, the missing arguments and
\* the local files with the commands that tell them apart.
MCInvocations ==
  [cmd : MCCommands, uri : {Plain}, args : {"all"}, local : {"old"}]
    \cup [cmd : {"columninfo", "sql", "rm"}, uri : MCUris, args : {"all"}, local : {"old"}]
    \cup [cmd : {"get", "put", "mv", "graphing", "step_in", "extensions_setmapping",
                 "extensions_getmappings"},
          uri : {Plain}, args : {"none", "some"}, local : {"old"}]
    \cup [cmd : {"get", "put", "graphing"}, uri : {Plain}, args : {"all"},
          local : {"absent", "locked", "empty", "new"}]
=============================================================================
