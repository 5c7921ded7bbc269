-------------------------- MODULE CfrdsBufferProofs --------------------------
(***************************************************************************)
(* Theorems about CfrdsBuffer, for every size_t, growth step and text.     *)
(***************************************************************************)
EXTENDS CfrdsBuffer, TLAPS

(* size_t arithmetic stays within 0 .. SizeMax. *)
LEMMA WrapBounds ==
  ASSUME NEW n \in Nat
  PROVE  Wrap(n) \in 0 .. SizeMax
  BY SizeAssumption DEF Wrap

(* Whatever wraps, the block asked for is a size_t. *)
LEMMA NewSizeBounds ==
  ASSUME NEW required \in Nat, allocated \in Nat
  PROVE  NewSize(required) \in 0 .. SizeMax
<1>1. Wrap(allocated * 2) \in 0 .. SizeMax
  BY WrapBounds
<1>2. Wrap(required + Half) \in 0 .. SizeMax
  BY WrapBounds, SizeAssumption
<1>3. Wrap(required + Half) \div Chunk \in Nat
  BY <1>2, SizeAssumption
<1>4. Wrap(((Wrap(required + Half) \div Chunk) + 1) * Chunk) \in 0 .. SizeMax
  BY <1>3, WrapBounds, SizeAssumption
<1> QED
  BY <1>1, <1>4 DEF NewSize

(* A grown block keeps the old bytes, and all others are zero. *)
LEMMA ReallocatedType ==
  ASSUME Terminated, NEW newsize \in Nat, newsize > allocated
  PROVE  /\ Reallocated(newsize) \in [0 .. newsize -> Unit]
         /\ \A i \in 0 .. newsize : i >= size => Reallocated(newsize)[i] = NUL
         /\ \A i \in 0 .. size - 1 : Reallocated(newsize)[i] = data[i]
  BY UnitAssumption DEF Terminated, Reallocated, Block

(* Writing a part changes the units it covers and no other. *)
LEMMA WrittenType ==
  ASSUME NEW D, NEW block \in [D -> Unit], NEW part \in Seq(Unit),
         D \subseteq Int, size \in Nat
  PROVE  /\ Written(block, part) \in [D -> Unit]
         /\ \A i \in D : i >= size + Len(part) => Written(block, part)[i] = block[i]
         /\ \A i \in D : i < size => Written(block, part)[i] = block[i]
<1>1. Len(part) \in Nat /\ \A i \in 1 .. Len(part) : part[i] \in Unit
  OBVIOUS
<1>2. DOMAIN block = D /\ \A i \in D : block[i] \in Unit
  OBVIOUS
<1> QED
  BY <1>1, <1>2 DEF Written

(* What is appended is a sequence of texts. *)
LEMMA EscapedType ==
  ASSUME NEW text \in Seq(Unit)
  PROVE  Escaped(text) \in Seq(Seq(Unit))
<1>1. ASSUME NEW i \in 1 .. 2 * Len(text)
      PROVE  text[(i + 1) \div 2] \in Unit
  <2>1. (i + 1) \div 2 \in 1 .. Len(text)
    OBVIOUS
  <2> QED
    BY <2>1
<1>2. "\\" \in Unit
  BY TextAssumption
<1> DEFINE unit(i) == IF i % 2 = 0 THEN <<text[(i + 1) \div 2]>>
                      ELSE IF text[(i + 1) \div 2] \in {":", ";"} THEN <<"\\">> ELSE <<>>
<1>3. ASSUME NEW i \in 1 .. 2 * Len(text)
      PROVE  unit(i) \in Seq(Unit)
  <2> DEFINE c == text[(i + 1) \div 2]
  <2>1. c \in Unit
    BY <1>1
  <2> HIDE DEF c
  <2>2. <<c>> \in Seq(Unit) /\ <<"\\">> \in Seq(Unit) /\ <<>> \in Seq(Unit)
    BY <2>1, <1>2
  <2> QED
    BY <2>2 DEF c
<1>4. Escaped(text) = [i \in 1 .. 2 * Len(text) |-> unit(i)]
  BY DEF Escaped
<1> HIDE DEF unit
<1>5. 2 * Len(text) \in Nat
  OBVIOUS
<1> QED
  BY <1>3, <1>4, <1>5

(* The fixed texts of a request are units. *)
LEMMA UnitsType ==
  /\ ":" \in Unit /\ "STR" \in Unit /\ "name" \in Unit /\ ";" \in Unit /\ "path" \in Unit
  BY TextAssumption

(* Short tuples are sequences. *)
LEMMA SeqsOf ==
  ASSUME NEW S
  PROVE  /\ <<>> \in Seq(S)
         /\ \A a \in S : <<a>> \in Seq(S)
         /\ \A a, b \in S : <<a, b>> \in Seq(S)
         /\ \A a, b, c \in S : <<a, b, c>> \in Seq(S)
         /\ \A a, b, c, d \in S : <<a, b, c, d>> \in Seq(S)
  OBVIOUS

(* A call that fails changes nothing. *)
LEMMA FailedKeeps ==
  ASSUME Terminated, NEW how \in {"refused", "no_memory"}, Failed(how)
  PROVE  Terminated'
  BY DEF Terminated, Failed, Block, Returns

(* An append into the room left keeps the text and its terminator. *)
LEMMA AppendInPlaceStep ==
  ASSUME Terminated, AppendInPlace
  PROVE  /\ Terminated'
         /\ size' >= size /\ \A i \in 0 .. size - 1 : data'[i] = data[i]
<1> DEFINE part == Head(todo)
<1>1. part \in Seq(Unit) /\ Tail(todo) \in Seq(Seq(Unit)) /\ Len(part) \in Nat
  BY DEF Terminated, AppendInPlace
<1>2. size + Len(part) <= allocated
  BY DEF AppendInPlace, Enough
<1>3. Block \subseteq Int /\ data \in [Block -> Unit] /\ size \in Nat
  BY DEF Terminated, Block
<1>4. \A i \in Block : i >= size => data[i] = NUL
  BY DEF Terminated
<1>5. /\ data' \in [Block -> Unit]
      /\ \A i \in Block : i >= size + Len(part) => data'[i] = NUL
      /\ \A i \in Block : i < size => data'[i] = data[i]
  <2>1. /\ Written(data, part) \in [Block -> Unit]
        /\ \A i \in Block : i >= size + Len(part) => Written(data, part)[i] = data[i]
        /\ \A i \in Block : i < size => Written(data, part)[i] = data[i]
    <3> HIDE DEF part
    <3> QED
      BY <1>1, <1>3, WrittenType
  <2>2. data' = Written(data, part)
    BY DEF AppendInPlace
  <2> QED
    BY <1>1, <1>3, <1>4, <2>1, <2>2
<1>6. size' = size + Len(part) /\ Block' = Block /\ UNCHANGED <<live, allocated>>
  BY DEF AppendInPlace, Stored, Block
<1>7. todo' \in Seq(Seq(Unit)) /\ ret' \in Returns
  BY <1>1 DEF AppendInPlace, Stored, Returns
<1>8. Terminated'
  BY <1>1, <1>2, <1>5, <1>6, <1>7 DEF Terminated
<1>9. ASSUME NEW i \in 0 .. size - 1
      PROVE  data'[i] = data[i]
  <2>1. i \in Block /\ i < size
    BY DEF Terminated, Block
  <2> QED
    BY <1>5, <2>1
<1> QED
  BY <1>1, <1>6, <1>8, <1>9 DEF Terminated

(* So does one that first grows the block. *)
LEMMA AppendGrowingStep ==
  ASSUME Terminated, AppendGrowing
  PROVE  /\ Terminated'
         /\ size' >= size /\ \A i \in 0 .. size - 1 : data'[i] = data[i]
<1> DEFINE part == Head(todo)
           newsize == NewSize(size + Len(part))
<1>1. part \in Seq(Unit) /\ Tail(todo) \in Seq(Seq(Unit)) /\ Len(part) \in Nat
  BY DEF Terminated, AppendGrowing
<1>2. newsize \in 0 .. SizeMax
  <2>1. size + Len(part) \in Nat /\ allocated \in Nat
    BY <1>1 DEF Terminated
  <2> QED
    BY <2>1, NewSizeBounds
<1>3. size + Len(part) > allocated /\ newsize >= size + Len(part) /\ newsize < SizeMax
  BY <1>1, <1>2, SizeAssumption DEF AppendGrowing, Enough, Refuses, Terminated
<1>4. newsize \in Nat /\ newsize > allocated
  BY <1>1, <1>2, <1>3, SizeAssumption DEF Terminated
<1> DEFINE block == Reallocated(newsize)
<1>5. /\ block \in [0 .. newsize -> Unit]
      /\ \A i \in 0 .. newsize : i >= size => block[i] = NUL
      /\ \A i \in 0 .. size - 1 : block[i] = data[i]
  BY <1>4, ReallocatedType
<1>6. data' = Written(block, part) /\ allocated' = newsize
  BY DEF AppendGrowing
<1>7. /\ data' \in [0 .. newsize -> Unit]
      /\ \A i \in 0 .. newsize : i >= size + Len(part) => data'[i] = NUL
      /\ \A i \in 0 .. newsize : i < size => data'[i] = block[i]
  <2> HIDE DEF newsize, block
  <2>1. size \in Nat /\ 0 .. newsize \subseteq Int
    BY <1>4 DEF Terminated
  <2>2. /\ Written(block, part) \in [0 .. newsize -> Unit]
        /\ \A i \in 0 .. newsize : i >= size + Len(part) => Written(block, part)[i] = block[i]
        /\ \A i \in 0 .. newsize : i < size => Written(block, part)[i] = block[i]
    <3> DEFINE D == 0 .. newsize
    <3>1. block \in [D -> Unit] /\ D \subseteq Int /\ size \in Nat
      BY <1>5, <2>1
    <3> HIDE DEF D, part
    <3>2. /\ Written(block, part) \in [D -> Unit]
          /\ \A i \in D : i >= size + Len(part) => Written(block, part)[i] = block[i]
          /\ \A i \in D : i < size => Written(block, part)[i] = block[i]
      BY <1>1, <3>1, WrittenType
    <3> QED
      BY <3>2 DEF D
  <2> QED
    BY <1>1, <1>5, <1>6, <2>1, <2>2
<1> HIDE DEF newsize, block
<1>8. size' = size + Len(part) /\ UNCHANGED live
  BY DEF AppendGrowing, Stored
<1>9. todo' \in Seq(Seq(Unit)) /\ ret' \in Returns
  BY <1>1 DEF AppendGrowing, Stored, Returns
<1>10. Block' = 0 .. newsize
  BY <1>4, <1>6 DEF Block, Terminated
<1>11. Terminated'
  BY <1>1, <1>3, <1>4, <1>6, <1>7, <1>8, <1>9, <1>10 DEF Terminated
<1>12. \A i \in 0 .. size - 1 : data'[i] = data[i]
  BY <1>1, <1>3, <1>4, <1>5, <1>7 DEF Terminated
<1> QED
  BY <1>1, <1>8, <1>11, <1>12 DEF Terminated

(* Starting a call leaves the block alone. *)
LEMMA CallStep ==
  ASSUME Terminated, NEW parts \in Seq(Seq(Unit)), Call(parts)
  PROVE  Terminated' /\ UNCHANGED <<size, data>>
  BY DEF Terminated, Call, Begin, Returns, Block

(* Reserving room keeps the text and zeroes the rest. *)
LEMMA ReservedStep ==
  ASSUME Terminated, NEW n \in Nat, ~CannotReserve(n), Reserved(n)
  PROVE  /\ data' \in [Block' -> Unit]
         /\ allocated' \in Nat /\ (allocated' < SizeMax \/ allocated' = 0)
         /\ size + n <= allocated'
         /\ \A i \in Block' : i >= size => data'[i] = NUL
         /\ \A i \in 0 .. size - 1 : data'[i] = data[i]
<1>1. CASE allocated >= size + n
  BY <1>1 DEF Reserved, Terminated, Block
<1>2. CASE allocated < size + n
  <2>1. allocated' = size + n /\ data' = Reallocated(size + n)
    BY <1>2 DEF Reserved, Terminated
  <2>2. size + n \in Nat /\ size + n < SizeMax
    BY <1>2, SizeAssumption DEF CannotReserve, Terminated
  <2>3. Block' = 0 .. size + n
    BY <1>2, <2>1 DEF Block, Terminated
  <2> QED
    BY <1>2, <2>1, <2>2, <2>3, ReallocatedType
<1> QED
  BY <1>1, <1>2 DEF Terminated

(* Steps of any kind. *)
LEMMA NextStep ==
  ASSUME Terminated, [BufferNext]_bufferVars
  PROVE  /\ Terminated'
         /\ ~UNCHANGED bufferVars /\ live /\ live' =>
              /\ size' >= size
              /\ \A i \in 0 .. size - 1 : data'[i] = data[i]
<1>1. CASE UNCHANGED bufferVars
  BY <1>1 DEF bufferVars, Terminated, Block
<1>2. CASE AppendInPlace
  BY <1>2, AppendInPlaceStep
<1>3. CASE AppendGrowing
  BY <1>3, AppendGrowingStep
<1>4. ASSUME NEW how \in {"refused", "no_memory"}, Failed(how)
      PROVE  Terminated' /\ UNCHANGED <<size, data>>
  BY <1>4, FailedKeeps DEF Failed
<1>5. CASE AppendFails
  BY <1>4, <1>5 DEF AppendFails, Terminated
<1>6. CASE Create
  BY <1>6 DEF Create, Terminated, Block, Returns
<1>7. CASE Free
  <2>1. allocated' = 0 /\ size' = 0 /\ live' = FALSE /\ todo' = <<>> /\ ret' = "none"
        /\ data' = [i \in {} |-> NUL] /\ Block' = {}
    BY <1>7 DEF Free, Block
  <2>2. data' \in [Block' -> Unit]
    BY <2>1
  <2>3. todo' \in Seq(Seq(Unit)) /\ \A i \in Block' : i >= size' => data'[i] = NUL
    BY <2>1, SeqsOf
  <2>4. live' \in BOOLEAN
    BY <1>7, Zenon DEF Free
  <2>5. /\ allocated' \in Nat /\ size' \in Nat /\ ret' \in Returns
        /\ size' <= allocated' /\ (allocated' < SizeMax \/ allocated' = 0)
    BY <2>1 DEF Returns
  <2>6. Terminated'
    BY <2>2, <2>3, <2>4, <2>5 DEF Terminated
  <2> QED
    BY <1>7, <2>6 DEF Free
<1>8. ASSUME NEW text \in Texts
      PROVE  /\ text \in Seq(Unit) /\ Len(text) \in 0 .. SizeMax
             /\ Escaped(text) \in Seq(Seq(Unit)) /\ <<text>> \in Seq(Seq(Unit))
  <2>1. text \in Seq(Unit) /\ Len(text) \in 0 .. SizeMax
    BY TextAssumption
  <2> QED
    BY <2>1, EscapedType, SeqsOf
<1>9. /\ <<":">> \in Seq(Unit) /\ <<"STR", ":">> \in Seq(Unit)
      /\ <<"name", ":">> \in Seq(Unit) /\ <<";", "path", ":">> \in Seq(Unit)
  BY UnitsType, SeqsOf
<1>a. \A n \in 0 .. SizeMax : <<Numeral[n]>> \in Seq(Unit)
  BY TextAssumption, SeqsOf
<1>10. ASSUME NEW parts \in Seq(Seq(Unit)), Call(parts)
       PROVE  Terminated' /\ UNCHANGED <<size, data>>
  BY <1>10, CallStep
<1>11. ASSUME NEW text \in Texts, Append_(text)
       PROVE  Terminated' /\ UNCHANGED <<size, data>>
  BY <1>8, <1>10, <1>11 DEF Append_
<1>12. ASSUME NEW text \in Texts, AppendEscaped(text)
       PROVE  Terminated' /\ UNCHANGED <<size, data>>
  BY <1>8, <1>10, <1>12 DEF AppendEscaped
<1>13. ASSUME NEW text \in Texts, AppendBytes(text) \/ AppendBuffer(text)
       PROVE  Terminated' /\ UNCHANGED <<size, data>>
  <2>1. Call(<<>>) \/ Call(<<text>>)
    BY <1>13 DEF AppendBytes, AppendBuffer
  <2> QED
    BY <1>8, <1>10, <2>1, SeqsOf
<1>14. ASSUME NEW text \in Texts, AppendRdsString(text)
       PROVE  Terminated' /\ UNCHANGED <<size, data>>
  <2>1. << <<"STR", ":">>, <<Numeral[Len(text)]>>, <<":">>, text >> \in Seq(Seq(Unit))
    BY <1>8, <1>9, <1>a, SeqsOf
  <2> QED
    BY <1>10, <1>14, <2>1 DEF AppendRdsString
<1>15. ASSUME NEW text \in Texts, AppendRdsBytes(text)
       PROVE  Terminated' /\ UNCHANGED <<size, data>>
  <2>1. << <<"STR", ":">>, <<Numeral[Len(text)]>>, <<":">> >> \in Seq(Seq(Unit))
    BY <1>8, <1>9, <1>a, SeqsOf
  <2> DEFINE head == << <<"STR", ":">>, <<Numeral[Len(text)]>>, <<":">> >>
  <2>2. head \o <<>> \in Seq(Seq(Unit)) /\ head \o <<text>> \in Seq(Seq(Unit))
    <3> HIDE DEF head
    <3> QED
      BY <1>8, <2>1, SeqsOf DEF head
  <2>3. Call(head \o <<>>) \/ Call(head \o <<text>>)
    BY <1>15 DEF AppendRdsBytes
  <2> HIDE DEF head
  <2> QED
    BY <1>10, <2>2, <2>3
<1>16. ASSUME NEW text \in Texts, NEW path \in Texts, AppendMapping(text, path)
       PROVE  Terminated' /\ UNCHANGED <<size, data>>
  <2>1. /\ << <<"name", ":">> >> \in Seq(Seq(Unit))
        /\ << <<";", "path", ":">> >> \in Seq(Seq(Unit))
    BY <1>9, SeqsOf
  <2>2. Escaped(text) \in Seq(Seq(Unit)) /\ Escaped(path) \in Seq(Seq(Unit))
    BY <1>8
  <2>3. \A p, q, r, s \in Seq(Seq(Unit)) : p \o q \o r \o s \in Seq(Seq(Unit))
    OBVIOUS
  <2>4. MappingParts(text, path) \in Seq(Seq(Unit))
    BY <2>1, <2>2, <2>3 DEF MappingParts
  <2> QED
    BY <1>10, <1>16, <2>4 DEF AppendMapping
<1>17. ASSUME NEW n \in Lengths, AppendRdsCount(n)
       PROVE  Terminated' /\ UNCHANGED <<size, data>>
  <2>1. n \in 0 .. SizeMax
    BY TextAssumption
  <2>2. << <<Numeral[n]>>, <<":">> >> \in Seq(Seq(Unit))
    BY <1>9, <1>a, <2>1, SeqsOf
  <2> QED
    BY <1>10, <1>17, <2>2 DEF AppendRdsCount
<1>18. ASSUME NEW n \in Lengths, Reserve(n) \/ Expand(n)
       PROVE  /\ Terminated' /\ size' >= size
              /\ \A i \in 0 .. size - 1 : data'[i] = data[i]
  <2>0. Lengths \subseteq 0 .. SizeMax /\ SizeMax \in Nat
    BY TextAssumption, SizeAssumption
  <2>1. n \in Nat /\ ~CannotReserve(n) /\ Reserved(n)
    BY <1>18, <2>0 DEF Reserve, Expand
  <2>2. /\ data' \in [Block' -> Unit]
        /\ allocated' \in Nat /\ (allocated' < SizeMax \/ allocated' = 0)
        /\ size + n <= allocated'
        /\ \A i \in Block' : i >= size => data'[i] = NUL
        /\ \A i \in 0 .. size - 1 : data'[i] = data[i]
    BY <2>1, ReservedStep
  <2>3. /\ size' = size \/ size' = size + n
        /\ ret' = "true" /\ UNCHANGED <<live, todo>>
    BY <1>18 DEF Reserve, Expand
  <2>4. Block' \subseteq Int
    BY <2>2 DEF Block
  <2> QED
    BY <2>1, <2>2, <2>3, <2>4 DEF Terminated, Returns
<1>19. ASSUME NEW n \in Lengths, ReservingFails(n)
       PROVE  Terminated' /\ UNCHANGED <<size, data>>
  BY <1>4, <1>19 DEF ReservingFails
<1> QED
  BY <1>1, <1>2, <1>3, <1>5, <1>6, <1>7, <1>11, <1>12, <1>13, <1>14, <1>15, <1>16,
     <1>17, <1>18, <1>19 DEF BufferNext, BufferStep, BufferCalls, Terminated

(* An empty buffer. *)
LEMMA BufferStarts == BufferInit => Terminated
<1> SUFFICES ASSUME BufferInit PROVE Terminated
  OBVIOUS
<1>1. live \in BOOLEAN
  BY Zenon DEF BufferInit
<1>2. todo \in Seq(Seq(Unit)) /\ ret \in Returns
  BY SeqsOf DEF BufferInit, Returns
<1>3. allocated = 0 /\ size = 0 /\ Block = {} /\ data \in [Block -> Unit]
  BY DEF BufferInit, Block
<1> QED
  BY <1>1, <1>2, <1>3 DEF Terminated

(* In every state the block of a buffer holds its text and a zero after it. *)
THEOREM BufferIsTerminated == BufferSpec => []Terminated
<1>1. BufferInit => Terminated
  BY BufferStarts
<1>2. Terminated /\ [BufferNext]_bufferVars => Terminated'
  BY NextStep
<1> QED
  BY <1>1, <1>2, PTL DEF BufferSpec

(* Growing, failing or refusing, no call changes the text already there. *)
THEOREM BufferKeepsItsText == BufferSpec => TextIsKept
<1>1. Terminated /\ [BufferNext]_bufferVars
        => [live /\ live' => /\ size' >= size
                            /\ \A i \in 0 .. size - 1 : data'[i] = data[i]]_bufferVars
  BY NextStep
<1> QED
  BY <1>1, BufferIsTerminated, PTL DEF BufferSpec, TextIsKept

(* Numbers below the modulus do not wrap, and division rounds down. *)
LEMMA NoWrap ==
  ASSUME NEW n \in 0 .. SizeMax
  PROVE  Wrap(n) = n
  BY SizeAssumption DEF Wrap

LEMMA RoundingUp ==
  ASSUME NEW n \in Nat
  PROVE  /\ n < ((n \div Chunk) + 1) * Chunk
         /\ ((n \div Chunk) + 1) * Chunk <= n + Chunk
<1>1. n \div Chunk \in Nat /\ Chunk \in Nat \ {0}
  BY SizeAssumption
<1>2. n = Chunk * (n \div Chunk) + (n % Chunk) /\ n % Chunk \in 0 .. Chunk - 1
  BY <1>1
<1>3. ((n \div Chunk) + 1) * Chunk = Chunk * (n \div Chunk) + Chunk
  BY <1>1
<1> QED
  BY <1>1, <1>2, <1>3

(* Twice a size_t never wraps to SIZE_MAX, which is odd. *)
LEMMA DoublingIsEven ==
  ASSUME NEW n \in 0 .. SizeMax
  PROVE  Wrap(n * 2) # SizeMax
<1>1. CASE n * 2 <= SizeMax
  BY <1>1, NoWrap, SizeAssumption, OddAssumption
<1>2. CASE n * 2 > SizeMax
  <2>1. n * 2 - (SizeMax + 1) \in 0 .. SizeMax
    BY <1>2, SizeAssumption
  <2>2. Wrap(n * 2) = n * 2 - (SizeMax + 1)
    BY <2>1, SizeAssumption DEF Wrap
  <2> QED
    BY <1>2, <2>2, SizeAssumption
<1> QED
  BY <1>1, <1>2, SizeAssumption

(* A block that, rounded up, is smaller than SIZE_MAX is never refused. *)
LEMMA FarFromTheLimit ==
  ASSUME Terminated, NEW len \in Nat, size + len + Half + Chunk < SizeMax
  PROVE  ~Refuses(len)
<1> DEFINE required == size + len
           rounded == ((Wrap(required + Half) \div Chunk) + 1) * Chunk
<1>1. /\ size \in Nat /\ allocated \in 0 .. SizeMax /\ required \in Nat
      /\ SizeMax - size >= len
  BY SizeAssumption DEF Terminated
<1>2. required + Half \in 0 .. SizeMax /\ required + Half \in Nat
  BY <1>1, SizeAssumption
<1>3. Wrap(required + Half) = required + Half
  BY <1>2, NoWrap
<1>4. required + Half < rounded /\ rounded <= required + Half + Chunk
  BY <1>2, <1>3, RoundingUp
<1>5. rounded \in 0 .. SizeMax /\ rounded < SizeMax
  <2>1. rounded \in Int
    BY <1>2, <1>3, SizeAssumption
  <2> QED
    BY <1>1, <1>4, <2>1, SizeAssumption
<1>6. Wrap(rounded) = rounded
  BY <1>5, NoWrap
<1>7. Wrap(allocated * 2) # SizeMax /\ Wrap(allocated * 2) \in 0 .. SizeMax
  BY <1>1, DoublingIsEven, WrapBounds, SizeAssumption
<1>8. NewSize(required) \in {Wrap(allocated * 2), rounded} /\ NewSize(required) >= rounded
  BY <1>5, <1>6, <1>7 DEF NewSize
<1> HIDE DEF rounded
<1>9. NewSize(required) >= required /\ NewSize(required) # SizeMax
  BY <1>1, <1>4, <1>5, <1>7, <1>8, SizeAssumption
<1>10. NewSize(required) \in Int
  BY <1>5, <1>7, <1>8
<1>11. ~(SizeMax - size < len) /\ ~(NewSize(required) < required)
  BY <1>1, <1>9, <1>10, SizeAssumption
<1> QED
  BY <1>9, <1>11 DEF Refuses

(* A step that refuses. *)
LEMMA RefusalStep ==
  ASSUME Terminated, BufferNext, todo # <<>>, ret' = "refused"
  PROVE  size + Len(Head(todo)) + Half + Chunk >= SizeMax
<1>1. AppendFails
  BY DEF BufferNext, BufferStep, BufferCalls, AppendInPlace, AppendGrowing, Stored,
     Create, Free, Append_, AppendEscaped, AppendBytes, AppendBuffer, AppendRdsString,
     AppendRdsBytes, AppendMapping, AppendRdsCount, Call, Begin, Reserve, Expand,
     ReservingFails, Ready
<1>2. Refuses(Len(Head(todo)))
  BY <1>1 DEF AppendFails, Failed
<1>3. Len(Head(todo)) \in Nat /\ size \in Nat
  BY DEF Terminated
<1> QED
  BY <1>2, <1>3, FarFromTheLimit, SizeAssumption

(* Whatever wraps in between, a refusal means that SIZE_MAX was near. *)
THEOREM RefusedOnlyNearTheLimit == BufferSpec => RefusedNearTheLimit
<1>1. Terminated /\ [BufferNext]_bufferVars
        => [todo # <<>> /\ ret' = "refused" =>
              size + Len(Head(todo)) + Half + Chunk >= SizeMax]_bufferVars
  BY RefusalStep
<1> QED
  BY <1>1, BufferIsTerminated, PTL DEF BufferSpec, RefusedNearTheLimit
=============================================================================
