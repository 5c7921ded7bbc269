----------------------------- MODULE CfrdsBuffer -----------------------------
(***************************************************************************)
(* The growing byte buffer of src/cfrds_buffer.c, in which every request   *)
(* is built and every response received.                                   *)
(*                                                                         *)
(* One API call appends its parts one after another (an RDS string is four *)
(* appends) and stops at the first that fails, leaving the earlier ones in *)
(* place: todo holds the parts still to come.  All sizes are size_t: every *)
(* product and sum wraps at SizeMax.  A numeral is a single unit of text   *)
(* here, whatever its number of digits.                                    *)
(***************************************************************************)
EXTENDS Integers, Sequences

CONSTANTS
  SizeMax,       \* SIZE_MAX
  Chunk,         \* 1024, the step in which a block grows ...
  Half,          \* ... and the 512 it is rounded by
  Unit,          \* the units of text, NUL and Numeral[n] among them
  NUL,           \* the zero byte
  Junk,          \* what realloc leaves in the new part of a block
  Numeral,       \* "%zu"
  Texts,         \* what callers append
  Lengths,       \* what callers reserve, or expand by
  MaxCalls,      \* calls on one buffer (bounds the runs)
  AllocMayFail   \* whether realloc may return NULL

ASSUME SizeAssumption == SizeMax \in Nat /\ Chunk \in Nat \ {0} /\ Half \in Nat
\* All bits of SIZE_MAX are one.
ASSUME OddAssumption == SizeMax % 2 = 1
ASSUME UnitAssumption == NUL \in Unit /\ Junk \notin Unit
ASSUME TextAssumption ==
  /\ Texts \subseteq Seq(Unit) /\ \A text \in Texts : Len(text) \in 0 .. SizeMax
  /\ {":", ";", "\\", "STR", "name", "path"} \subseteq Unit
  /\ Lengths \subseteq 0 .. SizeMax
  /\ Numeral \in [0 .. SizeMax -> Unit]
  /\ MaxCalls \in Nat
ASSUME AllocAssumption == AllocMayFail \in BOOLEAN

VARIABLES
  live,       \* the buffer exists
  allocated,  \* buffer->allocated; the block has one byte more
  size,       \* buffer->size
  data,       \* buffer->data, by index; no index while it is NULL
  todo,       \* the parts the call under way has still to append
  ret,        \* what the last call returned: "refused" and "no_memory" are false
  calls       \* calls made on this buffer

bufferVars == <<live, allocated, size, data, todo, ret, calls>>

Returns == {"none", "pending", "true", "refused", "no_memory"}
Block == IF allocated = 0 THEN {} ELSE 0 .. allocated
Text == [i \in 1 .. size |-> data[i - 1]]

BufferInit ==
  /\ live = FALSE /\ allocated = 0 /\ size = 0 /\ data = [i \in {} |-> NUL]
  /\ todo = <<>> /\ ret = "none" /\ calls = 0

Create ==
  /\ ~live /\ todo = <<>>
  /\ live' = TRUE /\ allocated' = 0 /\ size' = 0 /\ data' = [i \in {} |-> NUL]
  /\ ret' = "none" /\ calls' = 0
  /\ UNCHANGED todo

Free ==
  /\ live /\ todo = <<>>
  /\ live' = FALSE /\ allocated' = 0 /\ size' = 0 /\ data' = [i \in {} |-> NUL]
  /\ ret' = "none"
  /\ UNCHANGED <<todo, calls>>

-----------------------------------------------------------------------------
(* cfrds_buffer_realloc_if_needed                                          *)

Wrap(n) == n % (SizeMax + 1)

NewSizeDoubled(required) ==
  IF allocated = 0 THEN Wrap(((Wrap(required + Half) \div Chunk) + 1) * Chunk)
  ELSE Wrap(allocated * 2)

NewSize(required) ==
  LET doubled == Wrap(allocated * 2)
      rounded == Wrap(((Wrap(required + Half) \div Chunk) + 1) * Chunk)
  IN  IF doubled > rounded THEN doubled ELSE rounded

Enough(len) == SizeMax - size >= len /\ size + len <= allocated

Refuses(len) ==
  \/ SizeMax - size < len
  \/ /\ size + len > allocated
     /\ NewSize(size + len) < size + len \/ NewSize(size + len) = SizeMax

ReallocatedShort(newsize) ==
  [i \in 0 .. newsize |-> IF i < allocated THEN data[i]
                          ELSE IF i < newsize THEN NUL ELSE Junk]
ReallocatedCleared(newsize) == [i \in 0 .. newsize |-> NUL]

\* realloc keeps the first bytes, explicit_bzero clears the rest, the old
\* sentinel byte included.
Reallocated(newsize) ==
  [i \in 0 .. newsize |-> IF i < allocated THEN data[i] ELSE NUL]

\* memcpy(&data[size], part, len)
Written(block, part) ==
  [i \in DOMAIN block |->
     IF i >= size /\ i < size + Len(part) THEN part[i - size + 1] ELSE block[i]]

Failed(how) ==
  /\ todo' = <<>> /\ ret' = how
  /\ UNCHANGED <<live, allocated, size, data, calls>>

Stored ==
  /\ size' = size + Len(Head(todo))
  /\ todo' = Tail(todo)
  /\ ret' = IF Len(todo) = 1 THEN "true" ELSE "pending"
  /\ UNCHANGED <<live, calls>>

\* One append of the call under way.
AppendInPlace ==
  /\ todo # <<>> /\ Enough(Len(Head(todo)))
  /\ data' = Written(data, Head(todo))
  /\ UNCHANGED allocated
  /\ Stored

AppendGrowing ==
  /\ todo # <<>> /\ ~Enough(Len(Head(todo))) /\ ~Refuses(Len(Head(todo)))
  /\ LET newsize == NewSize(size + Len(Head(todo)))
     IN  /\ data' = Written(Reallocated(newsize), Head(todo))
         /\ allocated' = newsize
  /\ Stored

AppendFails ==
  /\ todo # <<>> /\ ~Enough(Len(Head(todo)))
  /\ IF Refuses(Len(Head(todo))) THEN Failed("refused")
     ELSE AllocMayFail /\ Failed("no_memory")

-----------------------------------------------------------------------------
(* The appending calls                                                     *)

Ready == live /\ todo = <<>> /\ calls < MaxCalls

Begin(parts) ==
  /\ live /\ todo = <<>>
  /\ todo' = parts
  /\ ret' = IF parts = <<>> THEN "true" ELSE "pending"
  /\ UNCHANGED <<live, allocated, size, data>>

Call(parts) == calls < MaxCalls /\ Begin(parts) /\ calls' = calls + 1

IsString(text) == \A i \in DOMAIN text : text[i] # NUL

EscapedSemicolons(text) ==
  [i \in 1 .. 2 * Len(text) |->
     LET c == text[(i + 1) \div 2]
     IN  IF i % 2 = 0 THEN <<c>> ELSE IF c = ";" THEN <<"\\">> ELSE <<>>]
\* Character k takes two appends: the escape, or nothing, and the character.
Escaped(text) ==
  [i \in 1 .. 2 * Len(text) |->
     LET c == text[(i + 1) \div 2]
     IN  IF i % 2 = 0 THEN <<c>> ELSE IF c \in {":", ";"} THEN <<"\\">> ELSE <<>>]

Append_(text) == IsString(text) /\ Call(<<text>>)
AppendEscaped(text) == IsString(text) /\ Call(Escaped(text))
AppendBytes(text) == Call(IF text = <<>> THEN <<>> ELSE <<text>>)
AppendBuffer(other) == Call(IF other = <<>> THEN <<>> ELSE <<other>>)
AppendRdsCount(n) == Call(<< <<Numeral[n]>>, <<":">> >>)
AppendRdsString(text) ==
  IsString(text) /\ Call(<< <<"STR", ":">>, <<Numeral[Len(text)]>>, <<":">>, text >>)
AppendRdsBytes(text) ==
  Call(<< <<"STR", ":">>, <<Numeral[Len(text)]>> , <<":">> >>
         \o (IF text = <<>> THEN <<>> ELSE <<text>>))

\* The argument of the setmapping command.
MappingParts(name, path) ==
  << <<"name", ":">> >> \o Escaped(name) \o << <<";", "path", ":">> >> \o Escaped(path)
AppendMapping(name, path) ==
  IsString(name) /\ IsString(path) /\ size = 0 /\ Call(MappingParts(name, path))

-----------------------------------------------------------------------------
(* cfrds_buffer_reserve_above_size and cfrds_buffer_expand, which only the *)
(* unit tests call                                                         *)

CannotReserve(n) ==
  \/ SizeMax - size < n
  \/ allocated < size + n /\ size + n = SizeMax

\* The block becomes as large as n more units need, or stays.
Reserved(n) ==
  IF allocated >= size + n THEN UNCHANGED <<allocated, data>>
  ELSE allocated' = size + n /\ data' = Reallocated(size + n)

ReservingFails(n) ==
  /\ Ready
  /\ IF CannotReserve(n) THEN Failed("refused")
     ELSE AllocMayFail /\ allocated < size + n /\ Failed("no_memory")

Reserve(n) ==
  /\ Ready /\ ~CannotReserve(n)
  /\ Reserved(n)
  /\ ret' = "true" /\ calls' = calls + 1
  /\ UNCHANGED <<live, size, todo>>

Expand(n) ==
  /\ Ready /\ ~CannotReserve(n)
  /\ Reserved(n)
  /\ size' = size + n
  /\ ret' = "true" /\ calls' = calls + 1
  /\ UNCHANGED <<live, todo>>

BufferStep == AppendInPlace \/ AppendGrowing \/ AppendFails

BufferCalls ==
  \/ Create \/ Free
  \/ \E text \in Texts :
       \/ Append_(text) \/ AppendEscaped(text) \/ AppendBytes(text)
       \/ AppendBuffer(text) \/ AppendRdsString(text) \/ AppendRdsBytes(text)
       \/ \E path \in Texts : AppendMapping(text, path)
  \/ \E n \in Lengths : AppendRdsCount(n) \/ Reserve(n) \/ Expand(n) \/ ReservingFails(n)

BufferNext == BufferStep \/ BufferCalls
BufferSpec == BufferInit /\ [][BufferNext]_bufferVars

-----------------------------------------------------------------------------
(* Properties                                                              *)

\* The type invariant, and what the library's readers rely on: the text lies
\* within the block and a zero byte follows it, so that the data of a buffer
\* can be used as a C string.
Terminated ==
  /\ live \in BOOLEAN /\ allocated \in Nat /\ size \in Nat /\ ret \in Returns
  /\ todo \in Seq(Seq(Unit))
  /\ allocated < SizeMax \/ allocated = 0
  /\ size <= allocated
  /\ data \in [Block -> Unit]
  /\ \A i \in Block : i >= size => data[i] = NUL

\* Growing a buffer never changes the text it holds: a call only adds to it,
\* also a call that fails.
TextIsKept ==
  [][live /\ live' => /\ size' >= size
                      /\ \A i \in 0 .. size - 1 : data'[i] = data[i]]_bufferVars

\* Whatever wraps on the way, an append is refused, malloc willing, only when
\* the block it asks for, rounded up, would not fit a size_t.
RefusedNearTheLimit ==
  [][todo # <<>> /\ ret' = "refused" =>
       size + Len(Head(todo)) + Half + Chunk >= SizeMax]_bufferVars
=============================================================================
