# libcfrds, specified

TLA+ modules, TLC runs and TLAPS proofs about `cfrds`: a C library, with a
command line client and re-implementations in TypeScript and Python, that
speaks Adobe ColdFusion's Remote Development Services protocol. RDS carries
every command in one HTTP POST to `/CFIDE/main/ide.cfm`.

Paths below are relative to the repository's root (`src/…` is its C library).

## The system

| Component | Code | State it keeps | Operations |
|---|---|---|---|
| RDS call | `src/cfrds_server.c`, `src/cfrds_http.c` | the server object: address, login, `error_code`, `error` (the text), `_errno`; during a call: the request buffer, the socket, the response buffer | `cfrds_send_command`, `cfrds_http_post`, `set_error`, `clear_error`, `get_error` |
| Commands | `src/cfrds_file.c`, `cfrds_sql.c`, `cfrds_debugger.c`, `cfrds_security_analyzer.c`, `cfrds.c` | none of their own; an output variable of the application | 49 `cfrds_command_*` functions: check the arguments, make one call, parse its response |
| Buffers | `src/cfrds_buffer.c` (first part) | data, size, allocated size | append, append escaped, reserve, reallocate |
| RDS codec | `src/cfrds_buffer.c` (the rest) | none | count and `STR:` items out; numbers, strings, bytes and quoted rows in; one parser per result type |
| WDDX | `src/wddx.c` | a tree of nodes | put by path, get by path, to XML, from XML |
| Command line client | `cli/` | the server object, the identifiers of an analyzer job or a debugger session | one sequence of commands per invocation; polling of the analyzer |
| TypeScript client | `typescript/src/` | host, login, `ctx.error`, the HTTP agent | asynchronous commands, several at once; `close` |
| Python client | `python/cfrds.py` | host, login, the kept connection | commands that reuse the connection and repeat once; `close` |
| C++ wrapper | `include/cfrds.hpp` | a pointer | forwarding |
| Tracing, fuzzing, tests, packaging | `tracing/`, `fuzz/`, `tests/`, build files | — | instrumentation and drivers |

How they interact. The application (or the CLI, or the C++ wrapper) calls a
command on a server object. The command encodes its parameters with the codec
and, for debugger and administration commands, WDDX; calls
`cfrds_send_command`, which blocks until the answer has been read or something
failed; parses the response into an output; and returns a status. When the
status is not OK the application asks the *server object* for the text, so the
object's error state is shared between all calls made on it. Server and library
share nothing but the connection, and each call has one of its own. The two
other clients do not use the library.

What is hard here:

- A call is a chain of some twenty system calls and allocations. Each may fail,
  in its own way, and every failure has to give back whatever the chain holds
  and to record itself, once, on the server object.
- The server is remote: it may execute a request and never answer, answer and
  close early, drip, send too much, send something else, or execute a request
  after the client has given up.
- Partial writes, interrupted system calls, two different timeouts (30 s per
  `recv`, 60 s over all), and SIGPIPE.
- Several actors in the other clients: requests on one event loop that share an
  error text; a connection that outlives its command; a retry that cannot know
  whether the first attempt was executed.
- State on the server that outlives a client: an analyzer job, a debugger
  session.
- Trees and growing buffers: arithmetic at the edge of `size_t`, nodes that move
  while their parent still points to them.

What makes each component correct:

- *RDS call*: the request arrives whole, in order and once; nothing is leaked;
  the call ends; the status says truthfully whether the command can have been
  executed; the error text explains the status of the last call.
- *Commands*: the output is the answer to this command's own, executed call;
  whatever is parsed is released; a good reply yields a value.
- *Buffers*: size never exceeds what is allocated, at any size, and an append that
  fails changes nothing.
- *Codec*: what the server encodes is read back as the same table, a reply cut short
  is refused, and what is wrong with one row stays in that row.
- *WDDX*: a put changes its path and nothing else, succeeds or changes nothing;
  XML out and in again is the same tree.
- *CLI*: an exit code of success means that everything was done, with the server,
  login and path that the URI names; the command ends.
- *TypeScript*: every promise settles once, and `ctx.error` never speaks of a request that
  succeeded or has not ended.
- *Python*: a command reaches the server once, or twice if the client repeated it; a
  command returns the answer to its own request, whatever its connection was used for
  before.

`PROJECT.json` lists the hazards line by line under `hazards`, with the
properties that cover them, or why none does.

## The modules

| Module | What it is |
|---|---|
| `RdsCall` | what a call promises the commands: the abstract specification |
| `RdsTransport` | one call in detail, with the server object, the network and the peer |
| `MCRdsTransport` | the replies the runs of `RdsTransport` use |
| `RdsTransportProofs` | theorems about `RdsTransport`, for all values of its constants |
| `RdsCommands` | the 49 commands over `RdsTransport` (it extends that module) |
| `MCRdsCommands` | the replies the runs of `RdsCommands` use |
| `RdsCommandsProofs` | theorems about `RdsCommands`, for any number of calls (it extends `RdsTransportProofs`) |
| `CfrdsBuffer` | the growing buffer and everything that is appended to it |
| `CfrdsBufferProofs` | theorems about `CfrdsBuffer`, for all values of its constants |
| `RdsReply` | a reply received into a buffer, and its parsers (it extends `CfrdsBuffer`) |
| `MCRdsReply` | the server's encoder; its replies, their prefixes, and damaged ones |
| `RdsReplyProofs` | theorems about `RdsReply`, for all replies (it extends `CfrdsBufferProofs`) |
| `Wddx` | documents: built, written, parsed, read |
| `MCWddx` | the paths, values and documents of its run |
| `WddxProofs` | theorems about `Wddx`, for any paths, values, documents and depth |
| `PyTransport`, `MCPyTransport` | the Python client's kept connection and its retry; the answers it may get |
| `PyTransportProofs` | theorems about `PyTransport`, for any number of commands and any answers |
| `TsTransport`, `MCTsTransport` | the TypeScript client's concurrent requests on one object |
| `TsTransportProofs` | theorems about `TsTransport`, for any number of requests and any limit |
| `CfrdsCli`, `MCCfrdsCli` | processes of the command line client on one server; how they are started |
| `CfrdsCliProofs` | theorems about `CfrdsCli`, for any processes, URIs and arguments |

### RdsTransport

`cfrds_send_command` and everything below it. The client is one thread; `pc` is
where it stands. Every system call whose outcome the environment decides is an
action of its own, as is every check of the reply:

| `pc` | Actions | Code |
|---|---|---|
| `idle` | `SendCommand` | entry of `cfrds_send_command`: `clear_error` |
| `payload`, `request` | `BuildPayload`, `BuildRequest` | the buffers `post` and `send_buf` |
| `resolve` | `Resolve` | `getaddrinfo` |
| `connect`, `connecting` | `OpenSocket`, `ConnectSocket`, `NoAddressLeft` | the loop over the addresses |
| `sockopt` | `SetTimeouts` | the two `setsockopt` calls |
| `send` | `Send`, `SendInterrupted`, `SendFails`, `StartReceiving` | `http_send_all`, then `tmp_response` |
| `recv` | `RecvDeadline`, `RecvChunk`, `RecvEof`, `RecvFails` | `http_receive_response` |
| `parse` | `CheckStatusLine`, `SkipHeader`, `ParseNumber`, `Deliver` | the end of `cfrds_http_post` |
| `idle` | `ReleaseResponse` | the command's deferred cleanup |
| `killed` | — | the default action of SIGPIPE |

`Leave` is the part every return has in common: the `cleanup` attributes close
`sockfd` and free the call's buffers. `SetError` is `cfrds_server_set_error`,
whose `strdup` may fail. `FailSilently` marks the three returns that record
nothing (payload, appending a chunk, no end of header).

Data are counted, not spelled out. A request is `RequestSize` units, and `wire`
is the sequence of units the connection accepted, so that a unit sent twice or
skipped shows. A reply is a record: is its status line a 200, does a blank line
end its header, what stands in the place of the RDS number, how many units arrive
before the connection closes. `response` is the first and last unit of the reply
that the caller gets. `error` is the call and the status that wrote the text; the
wording is left out. `open`, `sock` and `live` are the descriptors and buffers in
use. `elapsed` counts seconds since `start_time`; one `recv` takes up to
`IoTimeout` of them, or up to `Patience` if no `SO_RCVTIMEO` was set. `timed` says
whether it was.

The peer executes requests that it has received in full (`PeerExecutes`), perhaps
long after the call has failed and the next one has begun; or answers without
executing (`PeerRefuses`); the connection may break at any time
(`ConnectionBreaks`). All three are external: they model what `src/` assumes of
the RDS endpoint and of TCP. The one thing assumed of the peer is that it answers
with a count only after it has executed the request; `OK` could mean nothing
without it.

### RdsCall

The promise: one call at a time; the server executes a call at most once;
`OK` means it has; a failure to resolve, connect or write means it never will;
only `OK` leaves a response to release. A call that fails while reading promises
nothing. `RdsTransport!KeepsPromise` is that specification under a refinement
mapping: `busy` is `pc # "idle"`, `held` is `response # NoResponse`, and the
outcomes and the order of executions are the same variables.

### RdsCommands

Each command by name, source file by source file, with its kind: what it does
with a call that returned OK. There are ten kinds, from `plain` (asks for no
response) to `clearing` (its output becomes NULL before the parse is known to have
failed); the head of the module lists them. The actions follow the kinds:
`RefuseCommand` and `GraphingOutOfMemory` return before any call, `BeginCommand`
is a call of `RdsTransport`, then that module's `CallStep` runs it, and one of
`PassFailure`, `ReturnUnparsed`, `ReturnLenient`, `ReturnStrict`, `ReturnTexted`
and `ReturnExists` returns. `out` is the output variable: which call put what into
it. A parser is abstracted to what it needs: input that starts at the RDS number
and has all of its items.

### CfrdsBuffer

`size`, `allocated` and `data` are the fields of `struct cfrds_buffer`. An API call
is a sequence of appends (an RDS string is four, an escaped text two for each
character); `todo` holds those that are still to come, and every append is a step:
`AppendInPlace`, `AppendGrowing` (`cfrds_buffer_realloc_if_needed`) or `AppendFails`.
A call that fails in the middle leaves the earlier appends in place, as the code does.
`size_t` is a number up to `SizeMax`, and every sum and product of `NewSize` wraps
there. `data` is indexed like the block, with one byte more than `allocated`; what
`realloc` leaves undefined would be `Junk`.

Text is a sequence of units. A number is one unit, whatever its digits.

### RdsReply

`Receive` appends what one `recv` returns; when the reply is complete, `Parse` applies
the parser that the command calls. The parsers are operators: `ParseNumber`,
`ParseString`, `ParseListItem` are the code's three readers, each giving what it read
and what is left; `Items`, `AllItems` and `Strings` repeat them (`Repeated`, a recursive
function); `RowsIn` is the loop that eight parsers have in common. The foreign, imported and exported keys share
one parser, as they do in the code. `ParserResult` is all or nothing: a table or NULL.

A parser is given a body, as in the unit tests. What `cfrds_http_post` hands over
begins with the HTTP header, and every parser refuses that (`BrokenReplyIsRefused`
says so of all of them, `commands_value` of the commands). A case that is "cut" keeps the
whole reply beside what arrives of it; `Framed` says what a reply of the server is, a count
and as many strings, each with its length before it.

What a server sends is described as a relation, not by an encoder: `IsRow` says that a row, cut
where its items begin, has each item in quotes (and without a quote) or bare (and without a comma);
`Encodes` that a reply and a table belong together, for each of the fifteen parsers; `Damages`
that all rows but one do. `MCRdsReply` has an encoder, and the run checks that
what it makes is so described. Of the damaged row nothing is said, with one exception: the
first row of a query, the names of the columns, is all in quotes (`AllInQuotes`). The parser
counts the items of that row and takes as many from every other (`cfrds_buffer.c:1127-1174`);
behind a stray quote in a row with bare items it could count too few.

### Wddx

A node is a value: kind, text, items. The code changes nodes in place and moves
them with `realloc`, so that `Put` returns a set of outcomes, each with two trees: what the
function returns, and what the caller's old pointer shows afterwards (`old`). The
callers (`PutSlot`, `AddMember`, `WddxPut`) choose between the two exactly as the
code does, by whether NULL was returned. An outcome is also `moved` if the tree then holds a
pointer to a block that `realloc` has moved: all that touches it is undefined, and the
model of that document ends (`dangling`). `AddMember` is the one place where it may come
from: the struct grows, then a step below fails, and the parent keeps the old address. Every
allocation may fail.

What a leaf holds is the text that a put stored, or the value that the parser made of one.
The code keeps both in one union: on a document under construction
`wddx_get_number` would take the bytes of the text for a double, and `wddx_to_xml` of a parsed one
would write the bytes of the double. No caller in the library does either; `Read` of
a document under construction is what it stores, and only parsed ones are read through
the getters.

`ToXml` and `FromXml` go through libxml2's elements (external); its entity
handling is reduced to what it does with an ampersand.

Where the code recurses, on a path, a tree or an element, the model has a function over the
numbers that gives the values of the recursion by depth: `Reached` goes down a path, `Put`
comes back up on it, `ToXml` and `FromXml` have the elements and nodes of every depth in
terms of those one less deep. `RECURSIVE` operators would read more like the code, but nothing can be
proved of them. Their price is `MaxDepth`: a function needs a domain, the
trees and elements of some depth. It is the length of the longest path in use
(`PathsAssumption`), is checked to be enough (`RegularTree`), and is any number in the proofs.

### PyTransport

`_send_rds_command` line by line, over `http.client` (external), of which two states
matter: a request is under way (`busy`), and a response is not read to its end
(`unread`). `AttemptFails` is the handler: drop the connection, then repeat once if
the connection was a kept one. `Interrupt` is Ctrl-C in any of the blocking calls,
which the handler does not catch. The peer answers requests in order, may close
at any time, and may still execute a request whose connection is gone (`lost`).

An answer is one record, but need not come at once: before it `PeerSendsPiece` may put
a piece of it on the connection (`piece`), any number of times, and `getresponse()` and
`read()` take each with a `recv` of its own (`RecvPiece`). The 30 s of
`python/cfrds.py:807` are those of one `recv`; nothing bounds their number, or the size of what
`read()` collects. `SocketFails`, the timeout, is therefore impossible as long as a piece waits.

### TsTransport

One step per callback, as Node runs them: the synchronous part of `sendRdsCommand`,
and the handlers `OnResponse`, `OnData`, `OnEnd`, `OnTimeout`, `OnError` of each
request, in the orders Node can emit them. `state` is what Node still has to say about a request;
`destroyed` is after `req.destroy()` or `agent.destroy()`, when one error event is
still to come. The requests share `ctx`: `host`, `secret`, `agent`, `error`. `Close`
may come at any point, and the object can be used afterwards.

### CfrdsCli

Each process runs one invocation: `Begin` (arguments, URI, server object),
`Command` (what the handler checks before its first call), the calls of `Script` one
by one, then `Download`, `SaveGraph` or `ShowResult`, and the exit code. A
library call is abstracted to the promise of `RdsCall`: executed and OK, or an error
after which nobody knows. `ParseUri` works on the text of a URI, token by token,
so that a colon or an at sign in a path is found where `strchr` finds it (`LoginOf`,
`EndOf`, `ColonOf`, `HostEnd`, `NumberOf` are the pointers and lengths of
`init_server_from_uri`). `WellMeant` is a URI as a user puts it together: names without
the separators, a port or none, any path. The
server has files, one scan and one debug session per process.

`got` is what a call left in its output, `sent` what the server answered. They differ when the
answer cannot be read: `file_read` and `browse_dir` then return OK with NULL (`Outputs`).
NULL content has size 0 (`Content`, which is `cfrds_file_content_get_size`), so the tests for
`(size_t)-1` in `cat` and `get` never fire: `Download` empties the local file and succeeds,
`ShowResult` prints nothing and succeeds.

## The runs

| Run | Shows |
|---|---|
| `transport` | The safety properties of the transport, `KeepsPromise`, and `CallReturns`: a call ends whatever the peer does; with failing allocations and an application that does not ignore SIGPIPE. About 100,000 states. |
| `commands_safety` | The safety properties of the commands: sequences of commands of every kind, refused ones among them. About 225,000 states. |
| `reply` | The buffer at the edge of a small `size_t`, and every parser on clean, cut and damaged replies. About 25,000 states. |
| `wddx` | Documents: where a tree of nodes behaves as a dictionary of paths, and survives being sent. About 81,000 states. |
| `py` | Three commands of the Python client over a kept connection. About 155,000 states. |
| `ts` | Two requests of the TypeScript client on one object, their events in every order, `close` at any point. About 132,000 states. |
| `cli` | Two processes, every command, one server. About 212,000 states. |
| `cli_get` | Violated: after a `get` that succeeded the local file is what the server sent. |
| `transport_sigpipe` | Violated: a failing write is returned as a status. |
| `transport_header` | Violated: every failure leaves a text. |
| `commands_value` | Violated: a good reply gives the fetched value. |
| `commands_exists` | Violated: "no such file" is an answer of `file_exists`. |

The properties, in short (each has its own comment in the module):

- `RequestInOrder`: partial writes never reorder, repeat or lose a unit.
- `ResourcesReturned`: one descriptor at most; none, and no buffer but the
  response, between calls.
- `ErrorExplainsStatus`: code and text belong to the last call and its status.
- `ExecutedAsReported`: OK means executed, before every later call; failed before
  the last write means never executed, hence safe to repeat.
- `ReadingTimeBounded`, `ResponseBounded`: a dripping peer costs the deadline and
  one `recv` timeout; an endless reply costs the limit and one chunk.
- `CommandOwnsNothing`, `OutputIsOwnAnswer`, `TextIsOfLastCall`: the same questions
  at the level of the application.
- `Terminated`, `TextIsKept`, `RefusedNearTheLimit`: size and terminator stay inside the
  block, no growth or failure changes what was stored, and an append is refused
  for its size only when size and length, a rounding and a chunk come to `SIZE_MAX`.
- `MappingIsUnambiguous`: two pairs of name and path are never sent as the same
  argument of `setmapping`.
- `CleanReplyIsRead`, `BrokenReplyIsRefused`, `DamageStaysInItsRow`: tables as they were
  encoded; no table from a reply cut anywhere (but `debugger_start` ignores its second
  string); a quote inside an item costs the reply or its own row.
- `RegularTree`, `ReadsAsDictionary`, `CleanUseIsSafe`: puts on overlapping paths act as
  on a dictionary, also when they fail; with clean paths and enough memory no pointer
  to a moved node is left, and the return value is true.
- `ArrivesAsBuilt`, `ReadsWhatWasSent`: paths mean the same before and after
  the exchange, and the same in a tree as in the XML it was read from.
- `SentAtMostTwice`, `AnswerIsOwn`, `KeptConnectionIsClean`, `NothingSentAfterClose`: the
  retry and the kept connection of the Python client.
- `BufferBounded`, `ErrorIsOfRejected`, `RejectionIsRecorded`, `SettledRequestsAreQuiet`,
  `CredentialsStayHome`: the limit, whose error `ctx.error` is, how often a request
  speaks after it was settled, and what is sent where after `close`.
- `SuccessMeansDone`: what an exit code of success promises, and in which four cases it promises
  less; `GetSavesWhatWasSent`: the promise for `get` without its exception, which does not hold.
- `CallReturns`, `CommandEnds` (twice), `PromiseSettles`: everything ends. A command of the
  Python client need not end, if the server sends piece after piece for ever; nor one of the command
  line client, if its scan stopped short.

### Bounds

- Two calls: the properties relate a call to at most one other one. Two are enough
  for stale error text, for a late execution that overtakes the next call, and for
  a descriptor or buffer left by the one before.
- Two addresses and two descriptors: one failing attempt before another, and a
  leaked descriptor beside the open one. `commands_safety` has one of each, since
  the transport's own run has already checked more.
- A request of two units: one partial write before the rest.
- Chunks of up to 2 units (`RecvSize`), a limit of 4 (`MaxResponseSize`), replies
  of 0 to 6: replies that end in each part, one at the limit, one above it, and the
  limit passed in the middle of a chunk.
- `Deadline` 2, `IoTimeout` 1, `Patience` 3: several `recv` calls before the
  deadline, one that passes it, and a wait without timeout that is longer than
  deadline and timeout together.
- The replies are listed in the MC modules. `SigPipeIgnored` and `AllocMayFail` say
  what the environment does; both are set to the harder value in the safety runs.

- `reply`: `SizeMax` 255 with `Chunk` 32 and `Half` 16, in the proportion of 1024 and 512,
  so that appends of up to 200 units reach the doubling, the rounding and the wrap
  of both; two calls, since a call on a buffer depends on the one before only by size
  and allocation. `ReadSize` 40: a reply takes one to five `recv` calls. Two
  rows, so that damage in one can be told from the other; items are empty, plain, or hold
  a comma. Each reply is also cut at each of its units.
- `wddx`: `MaxArray` 3, three puts, paths of up to three segments (`MaxDepth` 3): two that share a
  prefix, one that replaces both, one with a gap, one out of range, ones with an
  empty segment. Three puts are enough to build, conflict, and look at what is left.
- `py`: three commands: one that leaves something on the connection, one that repeats
  because of it, and one that finds what the repetition left. One answer of each kind.
- `ts`: two requests, a limit of 2 and chunks of up to 2: one chunk reaches the limit,
  one passes it, two pass it together. The properties relate at most two requests.
- `cli`: two processes. The commands that read a URI in different ways get all
  seven URIs, those that tell arguments or local files apart get these.
  `CHECK_DEADLOCK FALSE`: the processes come to their end.

No bound is needed on the peer or the network: their steps are finite because
calls and request units are.

### Fairness

`FairSpec` has weak fairness on `ClientStep` and on nothing else: the thread is
scheduled, and each system call returns in the end, `send` and `recv` by the
30 s timeouts that `SetTimeouts` has set. That `connect` and `getaddrinfo` return is
assumed: the code sets no timeout for them (`src/cfrds_http.c:142`), and relies on limits of the
system. An interrupted `send` (`SendInterrupted`) is not a
`ClientStep`, so fairness also says that signals do not interrupt it for ever. The
peer is free to do nothing. A process killed by SIGPIPE makes no call return, and
`CallReturns` makes this exception.

`PyTransport` has it on `ClientStep`: each operation on the socket ends within the 30 s of
`python/cfrds.py:807`, a `recv` with a piece, with the last of what is read, or with an error; resolving
the name has no timeout and is assumed to end. This is fairness of single operations, not
of an answer: while pieces keep coming the client takes one after the other, and
`CommandEnds` says that nothing else can keep a command. The interrupt and the
peer have none. `TsTransport` has it on the events of each request: the event loop
turns, and a silent request gets its `timeout` event after 30 s
(`typescript/src/transport.ts:96`). `CfrdsCli` has it on the steps of each process, since
a library call returns (`CallReturns`), and on the end of a scan, which finishes or
stops; starting a process is the user's choice.

## The proofs

`RdsTransportProofs` proves, with no bound on any constant:

| Theorem | States |
|---|---|
| `Invariance` | `Spec => []IInv`, the inductive invariant |
| `TypeCorrect` | `TypeOK` |
| `OrderedRequest` | `RequestInOrder` |
| `NoLeak` | `ResourcesReturned` |
| `ErrorIsOfTheLastCall` | `ErrorExplainsStatus` |
| `StatusTellsExecution` | `ExecutedAsReported` |
| `BoundedReading` | `ReadingTimeBounded` |
| `BoundedResponse` | `ResponseBounded` |
| `TransportKeepsPromise` | `KeepsPromise`: the transport implements `RdsCall` |

They assume what the module states about its constants: sizes and times are
natural numbers, a request and a receive buffer have at least one unit
(`SizesAssumption`, `TimesAssumption`), the replies are of type `Reply`, and the
marks for "none" are none of the values they stand beside (`ValuesAssumption`,
`MarksAssumption`). Nothing is assumed of SIGPIPE or of memory, and of the peer only that an
unexecuted request is never answered with a count.

None of the properties is inductive. `IInv` adds what each of them forgets:

- `SendInv`: `send_ptr` and `send_remaining` always add up to the request while
  sending. Without it "all units are on the wire" cannot follow from
  `send_remaining = 0`.
- `ResourceInv`: before a connection there is no descriptor, and a call that runs
  has no response yet. Without it the next call could lose either.
- `ErrorInv`: while a call runs there is no text. So whatever text there is when it
  returns is its own.
- `ExecutionInv`: only a delivered request is executed; a delivered one belongs to
  no call that failed before sending; a count in the reply comes from an execution
  of the current call; an unfinished call has no result. The last two make `OK`
  imply an execution.
- `TimeInv`: `SO_RCVTIMEO` is set whenever the client sends or reads.
- `SizeInv`: inside the loop the limit still holds, so that one chunk is all by
  which it can be passed.

Each part has its lemma (`ControlStep` to `ExecutionStep`) that every step of `Next`
preserves it; the lemmas share facts about the ways out of a call
(`SetErrorType`, `FailErrorInv`, `LeaveExecutionInv`) and about the wire
(`WireStep`: the next units appended to the first k are the first k + n).
`NextInv` joins them, `InitInv` starts them. The refinement (`PromiseStep`) goes
through the same disjunction: every return of a call is `Return` of its status,
`PeerExecutes` is `Execute`, `SendCommand` is `Issue`, `ReleaseResponse` is
`Release`, and all other steps stutter.

`CfrdsBufferProofs` proves about the buffer, whatever `SIZE_MAX`, chunk and rounding are:

| Theorem | States |
|---|---|
| `BufferIsTerminated` | `Terminated`: text and terminator lie inside the block |
| `BufferKeepsItsText` | `TextIsKept`: no step changes what was stored |
| `RefusedOnlyNearTheLimit` | `RefusedNearTheLimit` |

They assume `SizeAssumption`, `UnitAssumption`, `TextAssumption` (texts are no longer than
`SIZE_MAX`), `AllocAssumption`, and, for the last of them only, `OddAssumption`: `SIZE_MAX` is
odd, so that a doubled size is never equal to it and the doubling alone
refuses nothing. `Terminated` is inductive as it stands: it
says both that `size` is within `allocated` and that everything behind the text is zero,
and each half is what the other one's steps need. The one hard step is
`AppendGrowing`: that `NewSize`, after three sums and products that may all have wrapped,
is below what is needed (and refused) or large enough. The proof bounds the
wrapped values by case on whether each wrapped. The other two theorems follow
from the invariant step by step.

`TsTransportProofs` proves about the TypeScript client, for any set of requests:

| Theorem | States |
|---|---|
| `Invariance` | `Spec => []IInv` |
| `TypeCorrect` | `TypeOK` |
| `BufferIsBounded` | `BufferBounded` |
| `ErrorIsTrue` | `ErrorIsOfRejected` |
| `SettledOnce` | `SettledRequestsAreQuiet` |
| `NoCredentialsAbroad` | `CredentialsStayHome` |
| `RejectionsAreRecorded` | `RejectionIsRecorded` |

They assume that the limit is a number and a chunk at least one unit
(`SizesAssumption`), and that null is no error (`NullAssumption`). `IInv` adds two things to
the properties. `PromiseInv` ties what Node still has to say about a request to its
promise: without it a late `error` could reject a promise that was resolved.
`SecretInv` says that credentials are there only as long as the host is: without it a
request made after `close` could carry them to the empty host. The handlers are
reduced to two kinds, those that end a request (`Ends`) and those after which it
goes on (`GoesOn`); every part of the invariant is shown for the kinds, not for each handler.

`PyTransportProofs` proves about the Python client, for any number of commands and any
set of answers:

| Theorem | States |
|---|---|
| `Invariance` | `Spec => []IInv` |
| `TypeCorrect` | `TypeOK` |
| `CommandsSentAtMostTwice` | `SentAtMostTwice` |
| `AnswersAreOwn` | `AnswerIsOwn` |
| `KeptConnectionsAreClean` | `KeptConnectionIsClean` |
| `NothingSentOnceClosed` | `NothingSentAfterClose` |

They assume that there is a command (`CallsAssumption`) and that answers are of
type `Answer` (`AnswersAssumption`); nothing of when the server answers, closes or
executes. `IInv` adds:

- `ControlInv`: the two states of `http.client` at each point of a command; `reused` means that
  the command has not been repeated; a closed client has no connection.
- `QueueInv`: what is on the connection. Nothing, when `http.client` would begin an exchange
  on it; while a command waits, its own request or the answer to it (`OwnExchange`); while it
  reads, the answer being read. This is why the answer is its own: an interrupted exchange leaves
  `busy` or `unread` set, and then `http.client` refuses before it can mistake one
  answer for another. Also: a closing answer is the last, and an answer with status 200 is of
  a request that was executed.
- Pieces of an answer change nothing of this (`PieceStep`): they only delay what follows.
- `CopyInv`: a command that is still to be sent has one copy less than it may have. The copies
  are counted over the queue of requests, so that the proof has lemmas on what
  appending, taking the head and dropping the queue do to a count (`CountAppend`, `CountHead`,
  `CountTail`), and on those each step keeps the sum of executed, lost and pending copies
  (`PeerCopies`, `LosingKeeps`) but `Send`, which adds one.

`RdsCommandsProofs` proves about the commands, for any number of calls and any sequence of
kinds:

| Theorem | States |
|---|---|
| `CommandInvariance` | `CmdSpec => []CmdIInv` |
| `CommandTypeCorrect` | `CmdTypeOK` |
| `CommandReturnsAll` | `CommandOwnsNothing` |
| `OwnAnswers` | `OutputIsOwnAnswer` |
| `OwnErrorText` | `TextIsOfLastCall` |
| `CommandStatusTellsExecution` | `ExecutedAsReported`, of the calls that commands make |
| `CommandsKeepPromise` | `KeepsPromise`: the commands implement `RdsCall` too |

They assume what `RdsTransportProofs` assumes and nothing else. The transport's `IInv` cannot be
taken over whole: between calls, the commands write into the error state of the server object (a
refusal sets -1 and leaves the text, a failed parse sets -1 or a text), so that `ErrorInv` is false
of them. `CmdIInv` therefore has `CoreInv`, the parts of `IInv` that do not read the error state,
which the lemmas of `RdsTransportProofs` show part by part; `TextInv`, which demands `ErrorInv`
only while a command runs, when the call's `clear_error` has restored it; and `CommandInv`, which
links a command to its call: one that runs has made a call and not touched its output, one
that has returned has no response. Without the first half a second command could take over
the output of one that was refused; without the second its response would be lost.

`RdsReplyProofs` proves about replies, of any number of strings of any length, over any
`recv` and any buffer sizes:

| Theorem | States |
|---|---|
| `ReplyInvariance` | `Spec => []ReplyInv` |
| `ReplyIsTerminated` | `Terminated`, now of a buffer that is being received into |
| `ReplyKeepsItsText` | `TextIsKept` |
| `ReplyRefusedNearTheLimit` | `RefusedNearTheLimit` |
| `BrokenIsRefused` | `BrokenReplyIsRefused` |
| `CleanIsRead` | `CleanReplyIsRead` |
| `DamageIsContained` | `DamageStaysInItsRow` |
| `MappingsKeptApart` | `MappingIsUnambiguous` |

Besides the assumptions of `CfrdsBufferProofs` they need that a numeral stands for a number and is
none of the separators, and that no packet is a zero byte (`ValueAssumption`), that a `recv` returns
at least one unit (`LimitAssumption`), and that a case is what it says (`CasesAssumption`): a
cut one is a proper prefix of a reply that is `Framed`, one with a header begins with no number, a
clean one arrives whole and is well formed (`Complete`, `Encodes`), a damaged one but for one row
(`Damages`).
`MCRdsReply` builds its cases by an encoder, and the run evaluates the assumptions on them.

- `ReplyInv` ties the buffer to the reply: until something fails, the text stored, the part being
  appended and what is still to come are the reply that was sent (`Arriving`); and the result is
  the parser's on the whole reply, or NULL. The properties of a result say
  nothing of how it came about, so that they are not inductive.
- `BrokenIsRefused` is then about the parsers alone. `StringsAt`, `CountRead` and `StringRead`
  follow a parser from one string of a reply to the next; `StringsCut` shows by induction that
  reading stops where the reply was cut, and `TableRefused`, `FileCut`, `SupportedCut` and
  `PacketCut` that each parser notices.
- `CleanIsRead` goes from the items to the reply. One item is read from where the row is cut, and
  leaves what is behind the next cut (`QuotedItemAt`, `BareItemAt`); so after j items the
  reader has the first j and the row from cut j + 1 on (`ItemsRead`, by induction), and after
  all of them nothing is left (`ItemsOfRow`, `AllItemsRead`). `RowSentRead` says so for the
  width and the numbers of each parser, `ReplyRead` that the strings read are the strings sent, and
  `RowsAreRead` puts rows together. The other parsers follow one by one:
  `DirectoryRead`, `NamesAreRead`, `CommandsRead`, `FileRead`, `SessionRead`, `PacketIsRead`.
- `DamageIsContained` needs the strings, and of the rows only those that were not damaged, since every
  string has its length before it. The exception is a query, where the width
  of all rows comes from the first. If that row is damaged, an item can end too early, but a reader
  never gets past the closing quote of the next item that was sent (`ItemKeepsUp`;
  `LastItemKeepsUp`: after k items it is still before the end of item k + 1), and so takes at least as
  many items as were sent (`HeaderItems`). So the rows are read as they
  were sent, or the reply is refused since one has too few (`ColumnsKept`, `OtherRowsKept`).
- `MappingsKeptApart` is about what `append_escaped` writes, whatever the buffer does. The
  text of a call is the concatenation of its appends (`FlattenConcat`); in an escaped text a colon
  has the escape before it (`ColonsAreMarked`), and the text can be read back from the right
  (`EscapingKeepsApart`); so the colon of `path:` cannot lie in a longer name (`NameEndsAtPath`).

Induction over data is done over sets of numbers: the induction theorems of the library take an
operator, which the provers do not instantiate, but that a set of numbers has a least element
(`Least`) follows from its theorem that `<` is well-founded. `NatSetInduction` is the consequence, and
from it come the existence of the recursive function (`StepsExist`, `StepsAgree`,
`RecursionExists`) and its recursion equations (`RepeatedIs`).

`CfrdsCliProofs` proves about the command line client, for any set of processes and URIs:

| Theorem | States |
|---|---|
| `CliInvariance` | `Spec => []CliInv` |
| `SuccessIsDone` | `SuccessMeansDone` |

They assume that each process is started with a command of the program (or an unknown one) and a
local file that holds some content or cannot be opened (`InvocationsAssumption`), and that URIs are
`WellMeant` (`UrisAssumption`). Paths may hold any token, separators too. `CliInv` holds for each
process by itself, and the steps of one leave the others' as it is (`Others`). Its parts follow the
stages of a process: `Fresh` before the first call, `Underway` between calls (the calls before `at`
are executed, the scan, session and breakpoint on the server are those that they leave, and `put`
holds the content of its local file), `Done` when all calls have returned (for `get`: what it got is what the server sent, or NULL), `Success`
when the exit code says so; `Busy` is what holds while the process makes its calls: what it read in its URI is
what the URI means, and its command has calls to make. Without `Underway`, `exit = "success"` would
have no connection to what the server executed. The URI part is proved separately: a URI that is
`WellMeant` is parsed as meant, or refused because its path holds a `:` or `@`.

`WddxProofs` proves about documents, for any paths, values and limits, and trees and elements of
any size and depth:

| Theorem | States |
|---|---|
| `WddxInvariance` | `Spec => []WddxInv` |
| `Regularity` | `RegularTree` |
| `Dictionary` | `ReadsAsDictionary` |
| `SafeUse` | `CleanUseIsSafe` |
| `Arrival` | `ArrivesAsBuilt` |
| `Reading` | `ReadsWhatWasSent` |

They assume that segments are an index or a name and paths no longer than `MaxDepth`
(`PathsAssumption`), that leaves are of the three kinds a put can write, with texts that are read back
as they are (`ValuesAssumption`), and that literals are strings (`LiteralsAssumption`: TLC knows,
the provers do not). Of the documents of a server they assume nothing, but what `Reading` says itself.

- *Recursion.* Each of the nine recursions of the model is one case of `Step`. `RecursionExists` shows
  once that there is a function with such steps, `RecursionIs` what it is at 0 and at
  n + 1; `ReachedIs` to `ChosenIs` say so of each. All inductions are `NatSetInduction`, as in
  `RdsReplyProofs`.
- *A put* (`WddxInvariance`). `WddxInv` is stronger than its three properties in that it says
  what is stored even while a pointer dangles. What the code does to a whole document at once
  is shown one segment at a time: `Good(N, x, p, leaf, o)` is what every outcome `o` has, of a put on
  a node `x` that the path `p` applies to. The tree returned is one of `N` (the depth); if
  the leaf was stored, the tree reads it on `p`, nothing below `p`, and on all other paths what `x`
  reads; if it was not, the tree reads as `x` does; if nothing was returned, the caller's old pointer
  still shows `x`. And if `p` is clean and memory lasted, nothing has moved, the result tells whether
  the leaf was stored, and a block is lost only where there was a value. It holds of `PutLeaf`
  (`LeafIsGood`), and passes from the put below a segment to the one above (`IntoIsGood`), by what the segment does:
  another child in a slot (`SlotIsGood`), a new slot (`IndexIsGood`), a new
  member (`AddedIsGood`). `Sets` is what these three have in common: one child is
  replaced, all others are as before. `PutIsGood` is the induction along the path.
- *Written and read* (`Arrival`). `Returns(x, n, e, node)`: at depth n and deeper, the element `e` is read as
  `x`. It holds of leaves without ampersand at depth 1 (`LeafReturns`), passes to an array with
  one level more (`ArrayReturns`) and to a struct with two (`StructReturns`), and so holds of every
  tree of `Gapless` at `XmlDepth` (`PlainReturns`).
- *Read as sent* (`Reading`). `Agree` relates what a path has led to in the XML, by the reference, to
  where it has led in the tree: nothing on both sides, or a compact element and what was made of
  it. Every segment keeps it (`AgreeBelow`), an array because element j is item j - 1 whatever
  became of the others, a struct because the first var of a name is the first member of that name.

Every invariant and every safety action property of the passing runs is a theorem for all values
of the constants. Only model-checked: liveness (`CallReturns`, both `CommandEnds`,
`PromiseSettles`), which needs `ENABLED` and fairness and is not provable with the backends used;
that the encoder of `MCRdsReply` and the other constants of the MC modules satisfy the assumptions;
and the five disagreements below, each of which is one behaviour of a small instance.

## Where code and documentation disagree

1. **SIGPIPE** (`transport_sigpipe`). `send` is called without `MSG_NOSIGNAL` and
   nothing ignores SIGPIPE. A write to a connection that the server has reset ends the
   process; `include/internal/cfrds_http.h:27` promises a status.
2. **A reply without a blank line** (`transport_header`) is
   `HTTP_RESPONSE_NOT_FOUND` and leaves no text, against line 16 of the same header.
3. **The response contains its header** (`commands_value`). `cfrds_http_post` skips
   the header in local variables and hands over the buffer as it is. Every parser
   starts at `HTTP/1.` and fails: `file_read` and `browse_dir` return OK with NULL,
   most others `RESPONSE_ERROR`. Line 21 of the header says "the parsed HTTP response
   body". So in `RdsCommands` the branches for a parse that succeeds exist, as they do
   in the code, and are never taken.
4. **`file_exists` never says FALSE** (`commands_exists`). Its test for the text of a
   missing file asks for `error_code == -1`, which `cfrds_http_post` has just
   overwritten.
5. **`get` of an answer that cannot be read succeeds** (`cli_get`). `file_read` returns OK with
   NULL; `cfrds_file_content_get_size(NULL)` is 0, so the test for `(size_t)-1` at
   `cli/cmd_file.c:129` never fires, the local file is emptied, and the exit code is success. The
   repository's `README.md:39` calls the command "File download". With 3 above, this is what
   `get` does with every answer; `CfrdsCli` has both outcomes of a parse, as the code of the
   client does.

## What the runs and the models say of the code

Not contradicted by a document, but worth knowing. A property holds around each of
them, and says in its comment what it leaves out.

- *Python.* The timeout of 30 s is one of each `recv`, and neither time nor size of an answer is
  limited: a server that keeps sending keeps the command. A body cut short, or a timeout while the answer is read, repeats the
  command on a kept connection although the server has executed it. Ctrl-C leaves the
  kept connection busy; the next command finds that out by an exception and is
  repeated. A negative reply raises a `TypeError`, since `body[offset:]` slices with a
  list (`python/cfrds.py:845`); so `file_exists` of a missing file raises one.
- *TypeScript.* After `close()` the agent is undefined, so requests go through the global
  one, and the hostname empty, so they go to localhost, without credentials. A timeout
  writes `ctx.error` twice. There is one `ctx.error` for all requests: each clears it as it starts
  (`typescript/src/transport.ts:12`), so that the text of a failed one may be gone, or be another's,
  when its `await` returns. `RejectionIsRecorded` speaks of the step that rejects and of nothing after it.
- *WDDX.* A text with an ampersand arrives empty. Empty slots of an array are not
  written, and later ones move up. A put on a path with an empty segment or an
  index that is out of range below something new returns TRUE and stores nothing,
  and below a struct that existed it may leave a pointer to a moved block. Replacing a
  value leaks it.
- *Parsers.* `":"` is the number 0. What follows the last row is ignored, as is what
  follows the third item of a row of metadata and the second string of `debugger_start`. The last
  item of a row cannot be a single bare character or empty without quotes. A quoted
  item cannot hold a quote. For a length of -1 `supportedcommands` reads outside its
  buffer (`src/cfrds_buffer.c:1272`). `append_escaped` does not escape its own backslash.
- *Command line.* `put` of a file that cannot be opened uploads an empty one, with
  success (`cli/cmd_file.c:155`). `get` empties the local file before it knows whether
  there is content, and succeeds if there is none (5 above); `cat` and `ls` of an answer that
  cannot be read print nothing, with success. Four SQL commands without a schema do nothing, with success.
  `graphing` ignores the results of `fwrite` and `fclose` (`cli/main.c:557`). A URI with
  `:` or `@` in its path is refused. The analyzer's command compares a missing status with
  `strcmp` (`cli/cmd_security.c:54`), leaves its job on the server when any call
  fails, and polls for ever if the job stops short.

## Not modelled

- `_errno`: written, never read.
- Creating and freeing a server object, and the encoding of the password: one-time
  code without interleaving.
- `snprintf` into buffers that cannot be too small.
- The Windows branches: the same steps with other names.
- Two threads on one server object: nothing in the library or its documentation
  supports it.
- The number of parameters (a list of 1024 or more is a refusal), and the several
  outputs of `analyzer_status` and `ide_default`.
- The system clock being set while a call reads: `time(NULL)` is taken to advance.
- Inside the parsers: which of their allocations fails (all give NULL, `Parse` has one
  choice for them), the grammar of `strtoll`, and the accessors of the results.
- Inside WDDX: failing allocations while XML is parsed, `wddx_node_to_xml`, and the union of
  texts and values in a leaf, which shows only where a document is read through the getters that built it, or
  written by the parser that read it.
- What the command line client prints, `base64_encode`, and the version of `ide_default`,
  which is `atoi` of the URI (`cli/main.c:353`) and so always 0.
- The encoders and parsers of the TypeScript and the Python client.
- The C++ wrapper, tracing, fuzzing, tests and packaging: no state or behaviour of
  their own.

## Plan

Done: all of the above. Left, in this order:

1. `PyTransport` as an implementation of `RdsCall` with at most two executions.
2. The outputs of `analyzer_status` and `ide_default` field by field; the list of
   parameters of the debugger commands that an exhausted memory cuts short.
3. The parsers of the TypeScript client (`typescript/src/parser.ts`) against the same
   replies as `RdsReply`.
