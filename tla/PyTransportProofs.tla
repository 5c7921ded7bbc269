-------------------------- MODULE PyTransportProofs --------------------------
(***************************************************************************)
(* Theorems about PyTransport, for any number of commands and any answers. *)
(***************************************************************************)
EXTENDS PyTransport, FiniteSetTheorems, TLAPS

(* Where the client is, and the connection it has.                         *)
ControlInv ==
  /\ pc # "idle" => call \in Calls
  /\ pc \in {"send", "wait"} => conn = "open" /\ busy
  /\ pc \in {"read", "parse"} => ~busy
  /\ pc = "parse" => ~unread
  /\ pc # "idle" /\ reused => call \notin repeated
  /\ \A c \in repeated : c <= call
  /\ conn # "open" => ~up /\ ~unread
  /\ closed => conn # "open"
  /\ pc = "idle" /\ conn = "open" /\ (call > 0 => result[call] # "interrupted")
       => ~busy /\ ~unread

(* Answers are of executed requests, and a closing one is the last.        *)
AnswersInv ==
  \A i \in DOMAIN replies :
    /\ replies[i].ok => executed[replies[i].of] > 0
    /\ replies[i].closing => ~up

(* While a command waits, nothing but its own exchange is on its way.      *)
OwnExchange ==
  \/ requests \in {<<>>, <<call>>} /\ replies = <<>>
  \/ requests = <<>> /\ \E r \in Reply : replies = <<r>> /\ r.of = call

(* What is on the connection: nothing, when http.client may begin an       *)
(* exchange and has no response to read; the exchange of this command; or  *)
(* the answer that is being read.                                          *)
QueueInv ==
  /\ ~up => requests = <<>>
  /\ AnswersInv
  /\ conn = "open" /\ ~unread /\ (busy => pc = "send")
       => requests = <<>> /\ replies = <<>>
  /\ pc = "wait" /\ ~unread => OwnExchange
  /\ pc = "read" => /\ requests = <<>> /\ replies = <<body>>
                    /\ conn = "open" => unread
  /\ pc \in {"read", "parse"} => body.of = call /\ executed[call] > 0

(* A command that is still to be sent has one copy less than it may have.  *)
CopyInv ==
  /\ \A c \in Calls : c > call => Copies(c) = 0
  /\ pc \in {"request", "send"} =>
       \A c \in Calls : c = call => Copies(c) <= IF c \in repeated THEN 1 ELSE 0
  /\ SentAtMostTwice

IInv == TypeOK /\ ControlInv /\ QueueInv /\ CopyInv /\ AnswerIsOwn

-----------------------------------------------------------------------------
(* Counting the requests of a command in a queue.                          *)

Places(s, c) == {i \in DOMAIN s : s[i] = c}
Later(s, c) == {i \in 2 .. Len(s) : s[i] = c}
Count(s, c) == Cardinality(Places(s, c))

LEMMA PlacesFinite ==
  ASSUME NEW s \in Seq(Calls), NEW c
  PROVE  /\ IsFiniteSet(Places(s, c)) /\ Count(s, c) \in Nat
         /\ IsFiniteSet(Later(s, c)) /\ Cardinality(Later(s, c)) \in Nat
<1>1. IsFiniteSet(1 .. Len(s)) /\ IsFiniteSet(2 .. Len(s))
  BY FS_Interval
<1>2. Places(s, c) \in SUBSET (1 .. Len(s)) /\ Later(s, c) \in SUBSET (2 .. Len(s))
  BY DEF Places, Later
<1>3. IsFiniteSet(Places(s, c)) /\ IsFiniteSet(Later(s, c))
  BY <1>1, <1>2, FS_Subset
<1> QED
  BY <1>3, FS_CardinalityType DEF Count

LEMMA CountEmpty ==
  ASSUME NEW c
  PROVE  Count(<<>>, c) = 0
<1>1. Places(<<>>, c) = {}
  BY DEF Places
<1> QED
  BY <1>1, FS_EmptySet DEF Count

LEMMA CountAppend ==
  ASSUME NEW s \in Seq(Calls), NEW x \in Calls, NEW c
  PROVE  Count(Append(s, x), c) = IF x = c THEN Count(s, c) + 1 ELSE Count(s, c)
<1>1. /\ DOMAIN Append(s, x) = 1 .. Len(s) + 1
      /\ \A i \in 1 .. Len(s) : Append(s, x)[i] = s[i]
      /\ Append(s, x)[Len(s) + 1] = x
      /\ DOMAIN s = 1 .. Len(s) /\ Len(s) \in Nat
  OBVIOUS
<1>2. Len(s) + 1 \notin Places(s, c)
  BY <1>1 DEF Places
<1>3. CASE x = c
  <2>1. Places(Append(s, x), c) = Places(s, c) \cup {Len(s) + 1}
    BY <1>1, <1>3 DEF Places
  <2> QED
    BY <1>2, <1>3, <2>1, PlacesFinite, FS_AddElement DEF Count
<1>4. CASE x # c
  <2>1. Places(Append(s, x), c) = Places(s, c)
    BY <1>1, <1>4 DEF Places
  <2> QED
    BY <1>4, <2>1 DEF Count
<1> QED
  BY <1>3, <1>4

(* The first element counts, and the rest is the tail.                     *)
LEMMA CountHead ==
  ASSUME NEW s \in Seq(Calls), s # <<>>, NEW c
  PROVE  Count(s, c) = IF Head(s) = c THEN Cardinality(Later(s, c)) + 1
                       ELSE Cardinality(Later(s, c))
<1>1. Len(s) \in Nat \ {0} /\ DOMAIN s = 1 .. Len(s) /\ Head(s) = s[1]
  OBVIOUS
<1>2. 1 \notin Later(s, c)
  BY DEF Later
<1>3. CASE Head(s) = c
  <2>1. Places(s, c) = Later(s, c) \cup {1}
    BY <1>1, <1>3 DEF Places, Later
  <2> QED
    BY <1>2, <1>3, <2>1, PlacesFinite, FS_AddElement DEF Count
<1>4. CASE Head(s) # c
  <2>1. Places(s, c) = Later(s, c)
    BY <1>1, <1>4 DEF Places, Later
  <2> QED
    BY <1>4, <2>1 DEF Count
<1> QED
  BY <1>3, <1>4

LEMMA CountTail ==
  ASSUME NEW s \in Seq(Calls), s # <<>>, NEW c
  PROVE  Count(Tail(s), c) = Cardinality(Later(s, c))
<1> DEFINE shift == [i \in Later(s, c) |-> i - 1]
<1>1. /\ Len(s) \in Nat \ {0} /\ Len(Tail(s)) = Len(s) - 1
      /\ DOMAIN Tail(s) = 1 .. Len(s) - 1
      /\ \A i \in 1 .. Len(s) - 1 : Tail(s)[i] = s[i + 1]
  OBVIOUS
<1>2. \A i \in Later(s, c) : i \in Int
  BY DEF Later
<1>3. shift \in Injection(Later(s, c), Places(Tail(s), c))
  <2>1. \A i \in Later(s, c) : i - 1 \in Places(Tail(s), c)
    <3> TAKE i \in Later(s, c)
    <3>1. i - 1 \in 1 .. Len(s) - 1 /\ (i - 1) + 1 = i /\ s[i] = c
      BY <1>1 DEF Later
    <3> QED
      BY <1>1, <3>1 DEF Places
  <2>2. shift \in [Later(s, c) -> Places(Tail(s), c)]
    BY <2>1
  <2>3. \A i, j \in Later(s, c) : shift[i] = shift[j] => i = j
    BY <1>2
  <2> QED
    BY <2>2, <2>3 DEF Injection, IsInjective
<1>4. \A j \in Places(Tail(s), c) : \E i \in Later(s, c) : shift[i] = j
  <2> TAKE j \in Places(Tail(s), c)
  <2>1. j + 1 \in Later(s, c) /\ shift[j + 1] = j
    BY <1>1 DEF Later, Places
  <2> QED
    BY <2>1
<1>5. shift \in Bijection(Later(s, c), Places(Tail(s), c))
  BY <1>3, <1>4 DEF Bijection, Surjection, Injection
<1>6. ExistsBijection(Later(s, c), Places(Tail(s), c))
  BY <1>5 DEF ExistsBijection
<1> QED
  BY <1>6, PlacesFinite, FS_Bijection DEF Count

-----------------------------------------------------------------------------
(* What becomes of the copies of a command.                                *)

LEMMA PendingType ==
  ASSUME TypeOK, NEW c \in Calls
  PROVE  Pending(c) = Count(requests, c) /\ Pending(c) \in Nat /\ Copies(c) \in Nat
<1>1. Pending(c) = Count(requests, c)
  BY DEF Pending, Count, Places
<1>2. Count(requests, c) \in Nat /\ lost[c] \in Nat /\ executed[c] \in Nat
  BY PlacesFinite DEF TypeOK
<1> QED
  BY <1>1, <1>2 DEF Copies

LEMMA PendingTypePrime ==
  ASSUME TypeOK', NEW c \in Calls
  PROVE  Copies(c)' \in Nat
<1>1. Count(requests', c) \in Nat /\ lost'[c] \in Nat /\ executed'[c] \in Nat
  BY PlacesFinite DEF TypeOK
<1> QED
  BY <1>1 DEF Copies, Pending, Count, Places

LEMMA PendingPrime ==
  ASSUME NEW c \in Calls
  PROVE  Pending(c)' = Count(requests', c)
  BY DEF Pending, Count, Places

(* A connection that goes takes its requests to the lost ones.             *)
LEMMA LosingKeeps ==
  ASSUME TypeOK, requests' = <<>>, lost' = [c \in Calls |-> lost[c] + Pending(c)]
  PROVE  /\ lost' \in [Calls -> Nat]
         /\ executed' = executed => \A c \in Calls : Copies(c)' = Copies(c)
<1>1. ASSUME NEW c \in Calls
      PROVE  /\ lost'[c] = lost[c] + Pending(c) /\ lost'[c] \in Nat
             /\ executed' = executed => Copies(c)' = Copies(c)
  <2>1. lost'[c] = lost[c] + Pending(c) /\ lost[c] \in Nat /\ executed[c] \in Nat
    BY DEF TypeOK
  <2>2. Pending(c)' = 0
    BY PendingPrime, CountEmpty
  <2>3. Pending(c) \in Nat
    BY PendingType
  <2>4. Copies(c)' = executed'[c] + lost'[c] + Pending(c)'
    BY DEF Copies
  <2> QED
    BY <2>1, <2>2, <2>3, <2>4 DEF Copies
<1> QED
  BY <1>1

LEMMA DisconnectKeeps ==
  ASSUME TypeOK, Disconnect
  PROVE  /\ up' = FALSE /\ requests' = <<>> /\ replies' = <<>>
         /\ lost' \in [Calls -> Nat] /\ busy' = FALSE /\ unread' = FALSE /\ piece' = FALSE
         /\ executed' = executed
         /\ \A c \in Calls : Copies(c)' = Copies(c)
<1>1. requests' = <<>> /\ lost' = [c \in Calls |-> lost[c] + Pending(c)]
      /\ executed' = executed
  BY DEF Disconnect
<1>2. lost' \in [Calls -> Nat] /\ \A c \in Calls : Copies(c)' = Copies(c)
  BY <1>1, LosingKeeps
<1> QED
  BY <1>1, <1>2 DEF Disconnect

LEMMA UnchangedKeeps ==
  ASSUME UNCHANGED <<requests, lost, executed>>
  PROVE  \A c \in Calls : Copies(c)' = Copies(c)
  BY DEF Copies, Pending

(* Sending adds a copy, if the connection is up.                           *)
LEMMA SendCopies ==
  ASSUME TypeOK, call \in Calls, Send
  PROVE  /\ requests' \in Seq(Calls)
         /\ \A c \in Calls :
              Copies(c)' = IF up /\ c = call THEN Copies(c) + 1 ELSE Copies(c)
<1>1. requests \in Seq(Calls) /\ UNCHANGED <<lost, executed>>
      /\ requests' = IF up THEN Append(requests, call) ELSE requests
  BY DEF Send, TypeOK
<1>2. requests' \in Seq(Calls)
  BY <1>1
<1>3. ASSUME NEW c \in Calls
      PROVE  Copies(c)' = IF up /\ c = call THEN Copies(c) + 1 ELSE Copies(c)
  <2>1. Pending(c)' = IF up /\ c = call THEN Pending(c) + 1 ELSE Pending(c)
    BY <1>1, PendingPrime, PendingType, CountAppend
  <2>2. Pending(c) \in Nat /\ lost[c] \in Nat /\ executed[c] \in Nat
    BY PendingType DEF TypeOK
  <2>3. Copies(c)' = executed[c] + lost[c] + Pending(c)'
    BY <1>1 DEF Copies
  <2> QED
    BY <2>1, <2>2, <2>3 DEF Copies
<1> QED
  BY <1>2, <1>3

(* An answer, the end of a connection and a late execution add none.       *)
LEMMA PeerCopies ==
  ASSUME TypeOK, (\E a \in Answers : PeerAnswers(a)) \/ PeerCloses
                   \/ \E c \in Calls : PeerExecutesLate(c)
  PROVE  /\ requests' \in Seq(Calls) /\ lost' \in [Calls -> Nat]
         /\ executed' \in [Calls -> Nat]
         /\ \A c \in Calls : executed'[c] >= executed[c]
         /\ \A c \in Calls : Copies(c)' <= Copies(c)
<1>1. CASE PeerCloses
  <2>1. requests' = <<>> /\ executed' = executed
        /\ lost' = [c \in Calls |-> lost[c] + Pending(c)]
    BY <1>1 DEF PeerCloses
  <2>2. lost' \in [Calls -> Nat] /\ \A c \in Calls : Copies(c)' = Copies(c)
    BY <2>1, LosingKeeps
  <2>3. requests' \in Seq(Calls) /\ executed \in [Calls -> Nat]
    BY <2>1 DEF TypeOK
  <2>4. \A c \in Calls : Copies(c) \in Nat
    BY PendingType
  <2>5. \A c \in Calls : executed'[c] >= executed[c] /\ Copies(c)' <= Copies(c)
    BY <2>1, <2>2, <2>3, <2>4
  <2> QED
    BY <2>1, <2>2, <2>3, <2>5
<1>2. ASSUME NEW d \in Calls, PeerExecutesLate(d)
      PROVE  /\ requests' \in Seq(Calls) /\ lost' \in [Calls -> Nat]
             /\ executed' \in [Calls -> Nat]
             /\ \A c \in Calls : executed'[c] >= executed[c]
             /\ \A c \in Calls : Copies(c)' <= Copies(c)
  <2>1. /\ lost[d] > 0 /\ lost' = [lost EXCEPT ![d] = @ - 1]
        /\ executed' = [executed EXCEPT ![d] = @ + 1] /\ requests' = requests
    BY <1>2 DEF PeerExecutesLate
  <2>2. lost \in [Calls -> Nat] /\ executed \in [Calls -> Nat] /\ requests \in Seq(Calls)
    BY DEF TypeOK
  <2>3. ASSUME NEW c \in Calls
        PROVE  Copies(c)' = Copies(c) /\ executed'[c] >= executed[c]
    <3>1. executed'[c] + lost'[c] = executed[c] + lost[c] /\ executed'[c] >= executed[c]
      BY <2>1, <2>2
    <3>2. Pending(c)' = Pending(c)
      BY <2>1 DEF Pending
    <3> QED
      BY <3>1, <3>2 DEF Copies
  <2>4. lost' \in [Calls -> Nat] /\ executed' \in [Calls -> Nat]
    BY <2>1, <2>2
  <2> QED
    BY <2>1, <2>2, <2>3, <2>4, PendingType
<1>3. ASSUME NEW a \in Answers, PeerAnswers(a)
      PROVE  /\ requests' \in Seq(Calls) /\ lost' \in [Calls -> Nat]
             /\ executed' \in [Calls -> Nat]
             /\ \A c \in Calls : executed'[c] >= executed[c]
             /\ \A c \in Calls : Copies(c)' <= Copies(c)
  <2> DEFINE d == Head(requests)
  <2>1. requests \in Seq(Calls) /\ requests # <<>>
    BY <1>3 DEF PeerAnswers, TypeOK
  <2>9. d \in Calls /\ Tail(requests) \in Seq(Calls) /\ <<>> \in Seq(Calls)
    BY <2>1
  <2>2. lost \in [Calls -> Nat] /\ executed \in [Calls -> Nat]
    BY DEF TypeOK
  <2>3. \/ executed' = [executed EXCEPT ![d] = @ + 1]
        \/ executed' = executed
    BY <1>3 DEF PeerAnswers
  <2>4. \/ requests' = Tail(requests) /\ lost' = lost
        \/ requests' = <<>> /\ lost' = [c \in Calls |-> lost[c] + Cardinality(Later(requests, c))]
    BY <1>3 DEF PeerAnswers, Later
  <2> HIDE DEF d
  <2>5. requests' \in Seq(Calls)
    BY <2>4, <2>9
  <2>6. executed' \in [Calls -> Nat]
    <3>1. CASE executed' = [executed EXCEPT ![d] = @ + 1]
      <4>1. executed[d] + 1 \in Nat
        BY <2>2, <2>9
      <4> QED
        BY <2>2, <3>1, <4>1
    <3> QED
      BY <2>2, <2>3, <3>1
  <2>7. ASSUME NEW c \in Calls
        PROVE  /\ executed'[c] >= executed[c] /\ Copies(c)' <= Copies(c) /\ lost'[c] \in Nat
    <3>1. Cardinality(Later(requests, c)) \in Nat
      BY <2>1, PlacesFinite
    <3>2. lost'[c] + Pending(c)' = lost[c] + Cardinality(Later(requests, c))
          /\ lost'[c] \in Nat /\ Pending(c)' \in Nat
      <4>1. CASE requests' = Tail(requests) /\ lost' = lost
        <5>1. Pending(c)' = Cardinality(Later(requests, c))
          BY <2>1, <4>1, PendingPrime, CountTail
        <5> QED
          BY <2>2, <3>1, <4>1, <5>1
      <4>2. CASE requests' = <<>>
              /\ lost' = [e \in Calls |-> lost[e] + Cardinality(Later(requests, e))]
        <5>1. Pending(c)' = 0
          BY <4>2, PendingPrime, CountEmpty
        <5>2. lost[c] \in Nat
          BY <2>2
        <5> QED
          BY <3>1, <4>2, <5>1, <5>2
      <4> QED
        BY <2>4, <4>1, <4>2
    <3>3. Pending(c) = IF d = c THEN Cardinality(Later(requests, c)) + 1
                       ELSE Cardinality(Later(requests, c))
      BY <2>1, PendingType, CountHead DEF d
    <3>4. /\ executed'[c] >= executed[c]
          /\ executed'[c] <= IF d = c THEN executed[c] + 1 ELSE executed[c]
          /\ executed[c] \in Nat /\ executed'[c] \in Nat /\ lost[c] \in Nat
      <4>1. executed[c] \in Nat /\ executed'[c] \in Nat /\ lost[c] \in Nat
        BY <2>2, <2>6
      <4>2. executed'[c] = executed[c] \/ (d = c /\ executed'[c] = executed[c] + 1)
        BY <2>2, <2>3
      <4> QED
        BY <4>1, <4>2
    <3>5. Copies(c)' = executed'[c] + (lost'[c] + Pending(c)')
      BY <3>2, <3>4 DEF Copies
    <3>6. Copies(c) = executed[c] + lost[c] + Pending(c)
      BY DEF Copies
    <3> QED
      BY <3>1, <3>2, <3>3, <3>4, <3>5, <3>6
  <2>8. lost' \in [Calls -> Nat]
    BY <2>2, <2>4, <2>7
  <2> QED
    BY <2>5, <2>6, <2>7, <2>8
<1> QED
  BY <1>1, <1>2, <1>3

-----------------------------------------------------------------------------
(* The invariant, step by step.                                            *)

LEMMA CopyInvKept ==
  ASSUME TypeOK, CopyInv, \A c \in Calls : Copies(c)' <= Copies(c) /\ Copies(c)' \in Nat,
         call' = call, repeated' = repeated,
         pc' \in {"request", "send"} => pc \in {"request", "send"}
  PROVE  CopyInv'
<1>1. \A c \in Calls : Copies(c) \in Nat
  BY PendingType
<1>2. ASSUME NEW c \in Calls, c > call
      PROVE  Copies(c)' = 0
  BY <1>1, <1>2 DEF CopyInv
<1>3. ASSUME pc' \in {"request", "send"}, NEW c \in Calls, c = call
      PROVE  Copies(c)' <= IF c \in repeated THEN 1 ELSE 0
  BY <1>1, <1>3 DEF CopyInv
<1>4. SentAtMostTwice'
  BY <1>1 DEF CopyInv, SentAtMostTwice
<1> QED
  BY <1>2, <1>3, <1>4 DEF CopyInv

(* Steps that leave the requests alone.                                    *)
LEMMA CopyInvUnchanged ==
  ASSUME TypeOK, CopyInv, UNCHANGED <<requests, lost, executed>>,
         call' = call, repeated' = repeated,
         pc' \in {"request", "send"} => pc \in {"request", "send"}
  PROVE  CopyInv'
<1>1. \A c \in Calls : Copies(c)' = Copies(c) /\ Copies(c) \in Nat
  BY UnchangedKeeps, PendingType
<1> QED
  BY <1>1, CopyInvKept

LEMMA InitInv == Init => IInv
<1> SUFFICES ASSUME Init PROVE IInv
  OBVIOUS
<1>1. TypeOK
  <2>1. requests \in Seq(Calls) /\ replies \in Seq(Reply)
    BY DEF Init
  <2>2. result \in [Calls -> Results] /\ source \in [Calls -> 0 .. MaxCalls]
    BY CallsAssumption DEF Init, Results
  <2>3. lost \in [Calls -> Nat] /\ executed \in [Calls -> Nat] /\ call \in 0 .. MaxCalls
    BY CallsAssumption DEF Init
  <2> QED
    BY <2>1, <2>2, <2>3 DEF Init, TypeOK
<1>2. ControlInv /\ QueueInv /\ AnswerIsOwn
  BY DEF Init, ControlInv, QueueInv, AnswersInv, AnswerIsOwn
<1>3. \A c \in Calls : Copies(c) = 0
  BY CountEmpty, <1>1, PendingType DEF Init, Copies
<1>4. CopyInv
  BY <1>3 DEF Init, CopyInv, SentAtMostTwice
<1> QED
  BY <1>1, <1>2, <1>4 DEF IInv

LEMMA SendCommandStep ==
  ASSUME IInv, SendCommand
  PROVE  IInv'
<1>1. TypeOK /\ call \in 0 .. MaxCalls /\ call' \in Calls /\ call' = call + 1 /\ MaxCalls \in Nat
  BY CallsAssumption DEF IInv, TypeOK, SendCommand, Calls
<1>2. TypeOK'
  BY <1>1 DEF TypeOK, SendCommand, peerVars, Calls
<1>3. ControlInv'
  BY <1>1 DEF IInv, ControlInv, SendCommand, peerVars, TypeOK, Calls
<1>4. QueueInv'
  BY <1>1 DEF IInv, ControlInv, QueueInv, AnswersInv, SendCommand, peerVars, TypeOK
<1>5. CopyInv'
  <2>1. \A c \in Calls : Copies(c)' = Copies(c) /\ Copies(c) \in Nat
    BY <1>1, UnchangedKeeps, PendingType DEF SendCommand, peerVars
  <2>2. \A c \in Calls : c > call => Copies(c)' = 0
    BY <2>1 DEF IInv, CopyInv
  <2>3. \A c \in Calls : c \in Nat
    BY DEF Calls
  <2>4. SentAtMostTwice'
    BY <2>1 DEF IInv, CopyInv, SentAtMostTwice, SendCommand
  <2> QED
    BY <1>1, <2>2, <2>3, <2>4 DEF CopyInv
<1>6. AnswerIsOwn'
  BY DEF IInv, AnswerIsOwn, SendCommand, peerVars
<1> QED
  BY <1>2, <1>3, <1>4, <1>5, <1>6 DEF IInv

(* The end of an attempt.                                                  *)
LEMMA AttemptFailsStep ==
  ASSUME IInv, AttemptFails, pc # "idle", pc # "parse"
  PROVE  IInv'
<1>1. TypeOK /\ call \in Calls
  BY DEF IInv, ControlInv
<1>2. /\ up' = FALSE /\ requests' = <<>> /\ replies' = <<>>
      /\ lost' \in [Calls -> Nat] /\ busy' = FALSE /\ unread' = FALSE /\ piece' = FALSE
      /\ executed' = executed
      /\ \A c \in Calls : Copies(c)' = Copies(c)
  BY <1>1, DisconnectKeeps DEF AttemptFails
<1>3. \A c \in Calls : Copies(c) \in Nat
  BY <1>1, PendingType
<1>4. /\ call' = call /\ closed' = closed /\ source' = source /\ body' = body
      /\ \/ /\ reused /\ pc' = "request" /\ conn' = "closed" /\ reused' = FALSE
            /\ repeated' = repeated \cup {call} /\ result' = result
         \/ /\ ~reused /\ conn' = "none" /\ pc' = "idle" /\ reused' = reused
            /\ repeated' = repeated /\ result' = [result EXCEPT ![call] = "conn_failed"]
  BY DEF AttemptFails, Finish
<1>5. TypeOK'
  <2>1. repeated' \subseteq Calls /\ result' \in [Calls -> Results]
    BY <1>1, <1>4 DEF TypeOK, Results
  <2>2. requests' \in Seq(Calls) /\ replies' \in Seq(Reply)
    BY <1>2
  <2> QED
    BY <1>1, <1>2, <1>4, <2>1, <2>2 DEF TypeOK
<1>6. ControlInv'
  <2>1. \A c \in repeated' : c <= call'
    <3>1. call \in Nat
      BY <1>1 DEF Calls
    <3> QED
      BY <1>4, <3>1 DEF IInv, ControlInv
  <2> QED
    BY <1>1, <1>2, <1>4, <2>1 DEF IInv, ControlInv
<1>7. QueueInv'
  BY <1>2, <1>4 DEF QueueInv, AnswersInv
<1>8. CopyInv'
  <2>1. CASE reused
    <3>1. call \notin repeated
      BY <2>1 DEF IInv, ControlInv
    <3>2. \A c \in Calls : c > call => Copies(c)' = 0
      BY <1>2 DEF IInv, CopyInv
    <3>3. \A c \in Calls : c = call => Copies(c)' <= 1
      BY <1>2, <3>1 DEF IInv, CopyInv, SentAtMostTwice
    <3>4. ASSUME NEW c \in Calls
          PROVE  Copies(c)' <= IF c \in repeated' THEN 2 ELSE 1
      BY <1>2, <1>3, <1>4, <2>1, <3>1 DEF IInv, CopyInv, SentAtMostTwice
    <3> QED
      BY <1>4, <2>1, <3>2, <3>3, <3>4 DEF CopyInv, SentAtMostTwice
  <2>2. CASE ~reused
    BY <1>1, <1>2, <1>3, <1>4, <2>2, CopyInvKept DEF IInv
  <2> QED
    BY <2>1, <2>2
<1>9. AnswerIsOwn'
  BY <1>2, <1>4 DEF IInv, AnswerIsOwn, TypeOK
<1> QED
  BY <1>5, <1>6, <1>7, <1>8, <1>9 DEF IInv

LEMMA ConnectStep ==
  ASSUME IInv, Connect
  PROVE  IInv'
<1>1. TypeOK /\ call \in Calls /\ ~up /\ ~unread /\ requests = <<>>
  BY DEF IInv, ControlInv, QueueInv, Connect
<1>2. TypeOK'
  <2>1. replies' \in Seq(Reply)
    BY DEF Connect
  <2> QED
    BY <1>1, <2>1 DEF TypeOK, Connect
<1>3. ControlInv'
  BY DEF IInv, ControlInv, Connect
<1>4. QueueInv'
  BY <1>1 DEF IInv, QueueInv, AnswersInv, Connect
<1>5. CopyInv'
  BY <1>1, CopyInvUnchanged DEF IInv, Connect
<1>6. AnswerIsOwn'
  BY DEF IInv, AnswerIsOwn, Connect
<1> QED
  BY <1>2, <1>3, <1>4, <1>5, <1>6 DEF IInv

LEMMA ReuseStep ==
  ASSUME IInv, Reuse
  PROVE  IInv'
<1>1. TypeOK
  BY DEF IInv
<1>2. TypeOK'
  BY DEF IInv, TypeOK, Reuse, peerVars
<1>3. ControlInv'
  BY DEF IInv, ControlInv, Reuse, peerVars
<1>4. QueueInv'
  BY DEF IInv, QueueInv, AnswersInv, Reuse, peerVars
<1>5. CopyInv'
  BY <1>1, CopyInvUnchanged DEF IInv, Reuse, peerVars
<1>6. AnswerIsOwn'
  BY DEF IInv, AnswerIsOwn, Reuse, peerVars
<1> QED
  BY <1>2, <1>3, <1>4, <1>5, <1>6 DEF IInv

LEMMA SendStep ==
  ASSUME IInv, Send
  PROVE  IInv'
<1>1. TypeOK /\ call \in Calls /\ conn = "open" /\ busy /\ pc = "send"
  BY DEF IInv, ControlInv, Send
<1>2. /\ pc' = "wait" /\ requests' = IF up THEN Append(requests, call) ELSE requests
      /\ UNCHANGED <<call, reused, repeated, closed, result, source, body>>
      /\ UNCHANGED <<conn, busy, unread, up, replies, piece, lost, executed>>
  BY DEF Send, connVars
<1>3. requests' \in Seq(Calls)
  BY <1>1, SendCopies
<1>4. TypeOK'
  BY <1>1, <1>2, <1>3 DEF TypeOK
<1>5. ControlInv'
  BY <1>1, <1>2 DEF IInv, ControlInv
<1>6. QueueInv'
  <2>1. ~unread => requests = <<>> /\ replies = <<>>
    BY <1>1 DEF IInv, QueueInv
  <2>2. Append(<<>>, call) = <<call>>
    BY <1>1
  <2>3. ~unread => OwnExchange'
    BY <1>2, <2>1, <2>2 DEF OwnExchange
  <2>4. ~up => requests' = <<>>
    BY <1>2 DEF IInv, QueueInv
  <2> QED
    BY <1>1, <1>2, <2>3, <2>4 DEF IInv, QueueInv, AnswersInv
<1>7. CopyInv'
  <2>1. \A c \in Calls :
          Copies(c)' <= (IF c = call THEN Copies(c) + 1 ELSE Copies(c)) /\ Copies(c) \in Nat
    BY <1>1, SendCopies, PendingType
  <2>2. ASSUME NEW c \in Calls, c = call
        PROVE  Copies(c)' <= IF c \in repeated THEN 2 ELSE 1
    <3>1. Copies(c) <= IF c \in repeated THEN 1 ELSE 0
      BY <1>1, <2>2 DEF IInv, CopyInv
    <3>2. Copies(c)' = Copies(c) \/ Copies(c)' = Copies(c) + 1
      BY <1>1, SendCopies
    <3>3. Copies(c) \in Nat
      BY <2>1
    <3> QED
      BY <3>1, <3>2, <3>3
  <2>3. \A c \in Calls : c # call => Copies(c)' = Copies(c)
    BY <1>1, SendCopies
  <2>4. SentAtMostTwice'
    BY <1>2, <2>2, <2>3 DEF IInv, CopyInv, SentAtMostTwice
  <2>5. \A c \in Calls : c > call => Copies(c)' = 0
    <3>1. call \in Nat /\ \A c \in Calls : c \in Nat
      BY <1>1 DEF Calls
    <3> QED
      BY <2>3, <3>1 DEF IInv, CopyInv
  <2> QED
    BY <1>2, <2>4, <2>5 DEF CopyInv
<1>8. AnswerIsOwn'
  BY <1>2 DEF IInv, AnswerIsOwn
<1> QED
  BY <1>4, <1>5, <1>6, <1>7, <1>8 DEF IInv

LEMMA GetResponseStep ==
  ASSUME IInv, GetResponse
  PROVE  IInv'
<1>1. TypeOK /\ call \in Calls /\ conn = "open" /\ pc = "wait" /\ ~unread /\ body' = Head(replies)
  BY DEF IInv, ControlInv, GetResponse
<1>2. PICK r \in Reply : requests = <<>> /\ replies = <<r>> /\ r.of = call
  BY DEF IInv, QueueInv, OwnExchange, GetResponse
<1>3. body' = r /\ DOMAIN replies = {1} /\ replies[1] = r
  BY <1>1, <1>2
<1>4. /\ r.ok => executed[call] > 0
      /\ r.closing => ~up
  BY <1>2, <1>3 DEF IInv, QueueInv, AnswersInv
<1>5. CASE r.ok
  <2>1. /\ pc' = "read" /\ busy' = FALSE /\ unread' = ~r.closing
        /\ conn' = IF r.closing THEN "closed" ELSE conn
        /\ UNCHANGED <<call, reused, repeated, closed, result, source>>
        /\ UNCHANGED <<up, requests, replies, piece, lost, executed>>
    BY <1>3, <1>5 DEF GetResponse, peerVars
  <2>2. TypeOK'
    BY <1>1, <1>2, <1>3, <2>1 DEF TypeOK, Reply
  <2>3. ControlInv'
    BY <1>1, <1>4, <2>1 DEF IInv, ControlInv
  <2>4. QueueInv'
    BY <1>1, <1>2, <1>3, <1>4, <1>5, <2>1 DEF IInv, QueueInv, AnswersInv
  <2>5. CopyInv'
    BY <1>1, <2>1, CopyInvUnchanged DEF IInv
  <2>6. AnswerIsOwn'
    BY <2>1 DEF IInv, AnswerIsOwn
  <2> QED
    BY <2>2, <2>3, <2>4, <2>5, <2>6 DEF IInv
<1>6. CASE ~r.ok
  <2>1. /\ Disconnect /\ conn' = "none" /\ pc' = "idle"
        /\ result' = [result EXCEPT ![call] = "http_error"]
        /\ UNCHANGED <<call, reused, repeated, closed, source>>
    BY <1>3, <1>6 DEF GetResponse, Finish
  <2>2. /\ up' = FALSE /\ requests' = <<>> /\ replies' = <<>>
        /\ lost' \in [Calls -> Nat] /\ busy' = FALSE /\ unread' = FALSE /\ piece' = FALSE
        /\ executed' = executed
        /\ \A c \in Calls : Copies(c)' = Copies(c)
    BY <1>1, <2>1, DisconnectKeeps
  <2>3. TypeOK'
    <3>1. result' \in [Calls -> Results]
      BY <1>1, <2>1 DEF TypeOK, Results
    <3>2. requests' \in Seq(Calls) /\ replies' \in Seq(Reply)
      BY <2>2
    <3> QED
      BY <1>1, <1>2, <1>3, <2>1, <2>2, <3>1, <3>2 DEF TypeOK
  <2>4. ControlInv'
    BY <2>1, <2>2 DEF IInv, ControlInv
  <2>5. QueueInv'
    BY <2>1, <2>2 DEF QueueInv, AnswersInv
  <2>6. CopyInv'
    <3>1. \A c \in Calls : Copies(c)' <= Copies(c) /\ Copies(c)' \in Nat
      BY <1>1, <2>2, PendingType
    <3> QED
      BY <1>1, <2>1, <3>1, CopyInvKept DEF IInv
  <2>7. AnswerIsOwn'
    BY <2>1, <2>2 DEF IInv, AnswerIsOwn, TypeOK
  <2> QED
    BY <2>3, <2>4, <2>5, <2>6, <2>7 DEF IInv
<1> QED
  BY <1>5, <1>6

LEMMA ReadBodyStep ==
  ASSUME IInv, ReadBody
  PROVE  IInv'
<1>1. TypeOK /\ call \in Calls /\ replies = <<body>> /\ requests = <<>> /\ ~busy
      /\ body.of = call /\ executed[call] > 0 /\ pc = "read"
  BY DEF IInv, ControlInv, QueueInv, ReadBody
<1>2. /\ pc' = "parse" /\ unread' = FALSE /\ replies' = <<>>
      /\ UNCHANGED <<call, reused, repeated, closed, result, source, body>>
      /\ UNCHANGED <<conn, busy, up, requests, piece, lost, executed>>
  BY <1>1 DEF ReadBody
<1>3. TypeOK'
  <2>1. replies' \in Seq(Reply)
    BY <1>2
  <2> QED
    BY <1>1, <1>2, <2>1 DEF TypeOK
<1>4. ControlInv'
  BY <1>1, <1>2 DEF IInv, ControlInv
<1>5. QueueInv'
  BY <1>1, <1>2 DEF QueueInv, AnswersInv
<1>6. CopyInv'
  BY <1>1, <1>2, CopyInvUnchanged DEF IInv
<1>7. AnswerIsOwn'
  BY <1>2 DEF IInv, AnswerIsOwn
<1> QED
  BY <1>3, <1>4, <1>5, <1>6, <1>7 DEF IInv

LEMMA ParseCodeStep ==
  ASSUME IInv, ParseCode
  PROVE  IInv'
<1>1. /\ TypeOK /\ call \in Calls /\ ~busy /\ ~unread
      /\ body.of = call /\ executed[call] > 0 /\ pc = "parse"
  BY DEF IInv, ControlInv, QueueInv, ParseCode
<1>2. PICK r \in {"ok", "type_error", "response_error"} :
        /\ result' = [result EXCEPT ![call] = r]
        /\ \/ r = "ok" /\ source' = [source EXCEPT ![call] = body.of]
           \/ r # "ok" /\ source' = source
  BY DEF ParseCode, Finish
<1>3. /\ pc' = "idle"
      /\ UNCHANGED <<call, reused, repeated, closed, body, conn, busy, unread>>
      /\ UNCHANGED <<up, requests, replies, piece, lost, executed>>
  BY DEF ParseCode, Finish, connVars, peerVars
<1>4. TypeOK'
  <2>1. result' \in [Calls -> Results]
    BY <1>1, <1>2 DEF TypeOK, Results
  <2>2. call \in 0 .. MaxCalls
    BY <1>1 DEF TypeOK
  <2>3. source' \in [Calls -> 0 .. MaxCalls]
    BY <1>1, <1>2, <2>2 DEF TypeOK
  <2> QED
    BY <1>1, <1>3, <2>1, <2>3 DEF TypeOK
<1>5. ControlInv'
  BY <1>1, <1>3 DEF IInv, ControlInv
<1>6. QueueInv'
  BY <1>1, <1>3 DEF IInv, QueueInv, AnswersInv
<1>7. CopyInv'
  BY <1>1, <1>3, CopyInvUnchanged DEF IInv
<1>8. AnswerIsOwn'
  BY <1>1, <1>2, <1>3 DEF IInv, AnswerIsOwn, TypeOK
<1> QED
  BY <1>4, <1>5, <1>6, <1>7, <1>8 DEF IInv

(* Whatever a command was doing, an interrupted one gives nothing back.    *)
LEMMA InterruptStep ==
  ASSUME IInv, Interrupt
  PROVE  IInv'
<1>1. TypeOK /\ call \in Calls /\ call \in Nat /\ call > 0
  <2>1. TypeOK /\ call \in Calls
    BY DEF IInv, ControlInv, Interrupt
  <2> QED
    BY <2>1 DEF Calls
<1>2. /\ pc' = "idle" /\ result' = [result EXCEPT ![call] = "interrupted"]
      /\ busy' = (busy \/ pc = "request")
      /\ UNCHANGED <<call, reused, repeated, closed, source, body, conn, unread>>
      /\ UNCHANGED <<up, requests, replies, piece, lost, executed>>
  BY DEF Interrupt, Finish, peerVars
<1>3. result'[call] = "interrupted"
  BY <1>1, <1>2 DEF TypeOK
<1>4. TypeOK'
  <2>1. result' \in [Calls -> Results] /\ busy' \in BOOLEAN
    BY <1>1, <1>2 DEF TypeOK, Results
  <2> QED
    BY <1>1, <1>2, <2>1 DEF TypeOK
<1>5. ControlInv'
  BY <1>1, <1>2, <1>3 DEF IInv, ControlInv
<1>6. QueueInv'
  <2>1. conn = "open" /\ ~unread => busy'
    BY <1>2 DEF IInv, ControlInv, QueueInv, Interrupt
  <2>2. AnswersInv' /\ (~up' => requests' = <<>>)
    BY <1>2 DEF IInv, QueueInv, AnswersInv
  <2> QED
    BY <1>2, <2>1, <2>2 DEF QueueInv
<1>7. CopyInv'
  BY <1>1, <1>2, CopyInvUnchanged DEF IInv
<1>8. AnswerIsOwn'
  BY <1>1, <1>2 DEF IInv, AnswerIsOwn, TypeOK
<1> QED
  BY <1>4, <1>5, <1>6, <1>7, <1>8 DEF IInv

LEMMA CloseStep ==
  ASSUME IInv, Close
  PROVE  IInv'
<1>1. TypeOK
  BY DEF IInv
<1>2. /\ up' = FALSE /\ requests' = <<>> /\ replies' = <<>>
      /\ lost' \in [Calls -> Nat] /\ busy' = FALSE /\ unread' = FALSE /\ piece' = FALSE
      /\ executed' = executed
      /\ \A c \in Calls : Copies(c)' = Copies(c)
  BY <1>1, DisconnectKeeps DEF Close
<1>3. /\ pc = "idle" /\ conn' = "none" /\ closed' = TRUE
      /\ UNCHANGED <<pc, call, reused, repeated, result, source, body>>
  BY DEF Close
<1>4. TypeOK'
  <2>1. requests' \in Seq(Calls) /\ replies' \in Seq(Reply)
    BY <1>2
  <2> QED
    BY <1>1, <1>2, <1>3, <2>1 DEF TypeOK
<1>5. ControlInv'
  BY <1>2, <1>3 DEF IInv, ControlInv
<1>6. QueueInv'
  BY <1>2, <1>3 DEF QueueInv, AnswersInv
<1>7. CopyInv'
  <2>1. \A c \in Calls : Copies(c)' <= Copies(c) /\ Copies(c)' \in Nat
    BY <1>1, <1>2, PendingType
  <2> QED
    BY <1>1, <1>3, <2>1, CopyInvKept DEF IInv
<1>8. AnswerIsOwn'
  BY <1>2, <1>3 DEF IInv, AnswerIsOwn
<1> QED
  BY <1>4, <1>5, <1>6, <1>7, <1>8 DEF IInv

(* The server's steps: it may answer only what is on the connection.       *)
LEMMA PeerAnswersStep ==
  ASSUME IInv, NEW a \in Answers, PeerAnswers(a)
  PROVE  IInv'
<1> DEFINE r == [of |-> Head(requests), ok |-> a.ok, full |-> a.full,
                 code |-> a.code, closing |-> a.closing]
<1>1. TypeOK /\ requests \in Seq(Calls) /\ replies \in Seq(Reply) /\ a \in Answer
  BY AnswersAssumption DEF IInv, TypeOK
<1>2. Head(requests) \in Calls /\ requests # <<>> /\ up
  BY <1>1 DEF PeerAnswers
<1>3. r \in Reply
  BY <1>1, <1>2 DEF Answer, Reply
<1>4. replies' = Append(replies, r)
  BY DEF PeerAnswers
<1>5. /\ UNCHANGED <<pc, call, reused, repeated, closed, result, source, body>>
      /\ UNCHANGED <<conn, busy, unread, piece>>
      /\ up' = (a.full /\ ~a.closing)
  BY DEF PeerAnswers, clientVars, connVars
<1>6. /\ requests' \in Seq(Calls) /\ lost' \in [Calls -> Nat]
      /\ executed' \in [Calls -> Nat]
      /\ \A c \in Calls : executed'[c] >= executed[c]
      /\ \A c \in Calls : Copies(c)' <= Copies(c)
  BY <1>1, PeerCopies
<1>7. r.ok => executed'[r.of] > 0
  <2>1. r.ok => executed' = [executed EXCEPT ![Head(requests)] = @ + 1]
    BY DEF PeerAnswers
  <2>2. executed[Head(requests)] \in Nat /\ executed \in [Calls -> Nat]
    BY <1>1, <1>2 DEF TypeOK
  <2> QED
    BY <1>2, <2>1, <2>2
<1>8. ~up' => requests' = <<>>
  BY DEF PeerAnswers
<1>9. requests = <<call>> => requests' = <<>>
  BY DEF PeerAnswers
<1> HIDE DEF r
<1>10. TypeOK'
  <2>1. replies' \in Seq(Reply)
    BY <1>1, <1>3, <1>4
  <2>2. up' \in BOOLEAN
    BY <1>5
  <2> QED
    BY <1>1, <1>5, <1>6, <2>1, <2>2 DEF TypeOK
<1>11. ControlInv'
  BY <1>2, <1>5 DEF IInv, ControlInv
<1>12. QueueInv'
  <2>1. AnswersInv'
    <3>1. \A i \in DOMAIN replies : ~replies[i].closing
            /\ (replies[i].ok => executed'[replies[i].of] > 0)
      <4> TAKE i \in DOMAIN replies
      <4>1. replies[i] \in Reply
        BY <1>1
      <4>2. replies[i].of \in Calls
        BY <4>1 DEF Reply
      <4>3. executed[replies[i].of] \in Nat /\ executed'[replies[i].of] \in Nat
            /\ executed'[replies[i].of] >= executed[replies[i].of]
        BY <1>1, <1>6, <4>2 DEF TypeOK
      <4> QED
        BY <1>2, <4>3 DEF IInv, QueueInv, AnswersInv
    <3>2. r.closing => ~up'
      BY <1>5 DEF r
    <3>3. \A i \in DOMAIN replies' : replies'[i] = r \/
            (i \in DOMAIN replies /\ replies'[i] = replies[i])
      BY <1>1, <1>3, <1>4
    <3> QED
      BY <1>7, <3>1, <3>2, <3>3 DEF AnswersInv
  <2>2. pc = "wait" /\ ~unread => OwnExchange'
    <3>1. SUFFICES ASSUME pc = "wait", ~unread PROVE OwnExchange'
      OBVIOUS
    <3>2. requests = <<call>> /\ replies = <<>>
      BY <1>2, <3>1 DEF IInv, QueueInv, OwnExchange
    <3>3. r.of = call
      BY <3>2 DEF r
    <3>4. replies' = <<r>>
      BY <1>4, <3>2
    <3> QED
      BY <1>3, <1>5, <1>9, <3>2, <3>3, <3>4 DEF OwnExchange
  <2>3. pc \in {"read", "parse"} => body.of = call /\ executed'[call] > 0
    <3>1. pc # "idle" => executed[call] \in Nat /\ executed'[call] \in Nat
                         /\ executed'[call] >= executed[call]
      BY <1>1, <1>6 DEF IInv, ControlInv, TypeOK
    <3> QED
      BY <3>1 DEF IInv, QueueInv
  <2>4. pc # "read" /\ ~(conn = "open" /\ ~unread /\ (busy => pc = "send"))
    BY <1>2 DEF IInv, QueueInv
  <2> QED
    BY <1>5, <1>8, <2>1, <2>2, <2>3, <2>4 DEF QueueInv
<1>13. CopyInv'
  <2>1. \A c \in Calls : Copies(c)' \in Nat
    BY <1>10, PendingTypePrime
  <2> QED
    BY <1>1, <1>5, <1>6, <2>1, CopyInvKept DEF IInv
<1>14. AnswerIsOwn'
  BY <1>5, <1>6, <1>1 DEF IInv, AnswerIsOwn, TypeOK
<1> QED
  BY <1>10, <1>11, <1>12, <1>13, <1>14 DEF IInv

LEMMA PeerClosesStep ==
  ASSUME IInv, PeerCloses
  PROVE  IInv'
<1>1. TypeOK
  BY DEF IInv
<1>2. /\ UNCHANGED <<pc, call, reused, repeated, closed, result, source, body>>
      /\ UNCHANGED <<conn, busy, unread, replies, piece, executed>>
      /\ up' = FALSE /\ requests' = <<>>
  BY DEF PeerCloses, clientVars, connVars
<1>3. /\ requests' \in Seq(Calls) /\ lost' \in [Calls -> Nat]
      /\ \A c \in Calls : Copies(c)' <= Copies(c)
  BY <1>1, PeerCopies
<1>4. TypeOK'
  BY <1>1, <1>2, <1>3 DEF TypeOK
<1>5. ControlInv'
  BY <1>2 DEF IInv, ControlInv, PeerCloses
<1>6. QueueInv'
  <2>1. AnswersInv'
    BY <1>2 DEF IInv, QueueInv, AnswersInv
  <2>2. OwnExchange => OwnExchange'
    BY <1>2 DEF OwnExchange
  <2> QED
    BY <1>2, <2>1, <2>2 DEF IInv, QueueInv
<1>7. CopyInv'
  <2>1. \A c \in Calls : Copies(c)' \in Nat
    BY <1>4, PendingTypePrime
  <2> QED
    BY <1>1, <1>2, <1>3, <2>1, CopyInvKept DEF IInv
<1>8. AnswerIsOwn'
  BY <1>2 DEF IInv, AnswerIsOwn
<1> QED
  BY <1>4, <1>5, <1>6, <1>7, <1>8 DEF IInv

LEMMA PeerExecutesLateStep ==
  ASSUME IInv, NEW d \in Calls, PeerExecutesLate(d)
  PROVE  IInv'
<1>1. TypeOK
  BY DEF IInv
<1>2. /\ UNCHANGED <<pc, call, reused, repeated, closed, result, source, body>>
      /\ UNCHANGED <<conn, busy, unread, up, requests, replies, piece>>
  BY DEF PeerExecutesLate, clientVars, connVars
<1>3. /\ lost' \in [Calls -> Nat] /\ executed' \in [Calls -> Nat]
      /\ \A c \in Calls : executed'[c] >= executed[c]
      /\ \A c \in Calls : Copies(c)' <= Copies(c)
  BY <1>1, PeerCopies
<1>4. \A c \in Calls : executed[c] > 0 => executed'[c] > 0
  BY <1>1, <1>3 DEF TypeOK
<1>5. TypeOK'
  BY <1>1, <1>2, <1>3 DEF TypeOK
<1>6. ControlInv'
  BY <1>2 DEF IInv, ControlInv
<1>7. QueueInv'
  <2>1. AnswersInv'
    <3>1. \A i \in DOMAIN replies : replies[i].of \in Calls
      <4>1. \A i \in DOMAIN replies : replies[i] \in Reply
        BY <1>1 DEF TypeOK
      <4> QED
        BY <4>1 DEF Reply
    <3> QED
      BY <1>2, <1>4, <3>1 DEF IInv, QueueInv, AnswersInv
  <2>2. OwnExchange => OwnExchange'
    BY <1>2 DEF OwnExchange
  <2>3. pc \in {"read", "parse"} => body.of = call /\ executed'[call] > 0
    BY <1>4 DEF IInv, ControlInv, QueueInv
  <2> QED
    BY <1>2, <2>1, <2>2, <2>3 DEF IInv, QueueInv
<1>8. CopyInv'
  <2>1. \A c \in Calls : Copies(c)' \in Nat
    BY <1>5, PendingTypePrime
  <2> QED
    BY <1>1, <1>2, <1>3, <2>1, CopyInvKept DEF IInv
<1>9. AnswerIsOwn'
  BY <1>2, <1>4 DEF IInv, AnswerIsOwn
<1> QED
  BY <1>5, <1>6, <1>7, <1>8, <1>9 DEF IInv

(* A piece of an answer comes or is read: the exchange is where it was.    *)
LEMMA PieceStep ==
  ASSUME IInv, RecvPiece \/ PeerSendsPiece
  PROVE  IInv'
<1>1. /\ UNCHANGED <<pc, call, reused, repeated, closed, result, source, body>>
      /\ UNCHANGED <<conn, busy, unread, up, requests, replies, lost, executed>>
      /\ piece' \in BOOLEAN
  BY DEF RecvPiece, PeerSendsPiece, clientVars, connVars
<1>2. TypeOK'
  BY <1>1 DEF IInv, TypeOK
<1>3. ControlInv'
  BY <1>1 DEF IInv, ControlInv
<1>4. QueueInv'
  BY <1>1 DEF IInv, QueueInv, AnswersInv, OwnExchange
<1>5. CopyInv'
  BY <1>1, CopyInvUnchanged DEF IInv
<1>6. AnswerIsOwn'
  BY <1>1 DEF IInv, AnswerIsOwn
<1> QED
  BY <1>2, <1>3, <1>4, <1>5, <1>6 DEF IInv

(* A step that is none.                                                    *)
LEMMA StutterStep ==
  ASSUME IInv, UNCHANGED vars
  PROVE  IInv'
<1>1. /\ UNCHANGED <<pc, call, reused, repeated, closed, result, source, body>>
      /\ UNCHANGED <<conn, busy, unread, up, requests, replies, piece, lost, executed>>
  BY DEF vars, clientVars, connVars, peerVars
<1>2. TypeOK'
  BY <1>1 DEF IInv, TypeOK
<1>3. ControlInv'
  BY <1>1 DEF IInv, ControlInv
<1>4. QueueInv'
  BY <1>1 DEF IInv, QueueInv, AnswersInv, OwnExchange
<1>5. CopyInv'
  BY <1>1, CopyInvUnchanged DEF IInv
<1>6. AnswerIsOwn'
  BY <1>1 DEF IInv, AnswerIsOwn
<1> QED
  BY <1>2, <1>3, <1>4, <1>5, <1>6 DEF IInv

LEMMA NextInv == IInv /\ [Next]_vars => IInv'
<1> SUFFICES ASSUME IInv, [Next]_vars PROVE IInv'
  OBVIOUS
<1>1. CASE SendCommand
  BY <1>1, SendCommandStep
<1>2. CASE ClientStep
  <2>1. CASE RequestRefused
    BY <2>1, AttemptFailsStep DEF RequestRefused
  <2>2. CASE Connect
    BY <2>2, ConnectStep
  <2>3. CASE ConnectFails
    BY <2>3, AttemptFailsStep DEF ConnectFails
  <2>4. CASE Reuse
    BY <2>4, ReuseStep
  <2>5. CASE Send
    BY <2>5, SendStep
  <2>6. CASE SocketFails
    BY <2>6, AttemptFailsStep DEF SocketFails
  <2>7. CASE ResponseNotReady
    BY <2>7, AttemptFailsStep DEF ResponseNotReady
  <2>8. CASE GetResponse
    BY <2>8, GetResponseStep
  <2>9. CASE ReadBody
    BY <2>9, ReadBodyStep
  <2>10. CASE ReadCut
    BY <2>10, AttemptFailsStep DEF ReadCut
  <2>11. CASE ParseCode
    BY <2>11, ParseCodeStep
  <2>12. CASE RecvPiece
    BY <2>12, PieceStep
  <2> QED
    BY <1>2, <2>1, <2>2, <2>3, <2>4, <2>5, <2>6, <2>7, <2>8, <2>9, <2>10, <2>11, <2>12
    DEF ClientStep
<1>3. CASE Interrupt
  BY <1>3, InterruptStep
<1>4. CASE Close
  BY <1>4, CloseStep
<1>5. CASE \E a \in Answers : PeerAnswers(a)
  BY <1>5, PeerAnswersStep
<1>6. CASE PeerCloses
  BY <1>6, PeerClosesStep
<1>7. CASE \E c \in Calls : PeerExecutesLate(c)
  BY <1>7, PeerExecutesLateStep
<1>8. CASE PeerSendsPiece
  BY <1>8, PieceStep
<1>9. CASE UNCHANGED vars
  BY <1>9, StutterStep
<1> QED
  BY <1>1, <1>2, <1>3, <1>4, <1>5, <1>6, <1>7, <1>8, <1>9 DEF Next

-----------------------------------------------------------------------------
(* The theorems.                                                           *)

(* The invariant holds throughout: what is on the kept connection, how     *)
(* many copies of each command there are, and whose answer each one got.   *)
THEOREM Invariance == Spec => []IInv
<1> QED
  BY InitInv, NextInv, PTL DEF Spec

(* Every variable of the client, of http.client and of the server keeps    *)
(* its type, however often the connection changes.                         *)
THEOREM TypeCorrect == Spec => []TypeOK
<1>1. IInv => TypeOK
  BY DEF IInv
<1> QED
  BY <1>1, Invariance, PTL

(* _send_rds_command's repetition of a command on a new connection is its  *)
(* only one: however the attempts fail and however late the server works,  *)
(* at most two copies exist of a repeated command and one of any other.    *)
THEOREM CommandsSentAtMostTwice == Spec => []SentAtMostTwice
<1>1. IInv => SentAtMostTwice
  BY DEF IInv, CopyInv
<1> QED
  BY <1>1, Invariance, PTL

(* A command that succeeds has read the answer to its own request, which   *)
(* the server executed, although connections are kept, commands repeated   *)
(* and exchanges interrupted half way.                                     *)
THEOREM AnswersAreOwn == Spec => []AnswerIsOwn
<1>1. IInv => AnswerIsOwn
  BY DEF IInv
<1> QED
  BY <1>1, Invariance, PTL

(* The connection the Server object keeps after a command that was not     *)
(* interrupted has no request and no answer left on it.                    *)
THEOREM KeptConnectionsAreClean == Spec => []KeptConnectionIsClean
<1>1. IInv => KeptConnectionIsClean
  <2> SUFFICES ASSUME IInv, pc = "idle", conn = "open",
                      call > 0 => result[call] # "interrupted"
               PROVE  ~busy /\ ~unread /\ requests = <<>> /\ replies = <<>>
    BY DEF KeptConnectionIsClean
  <2>1. ~busy /\ ~unread
    BY DEF IInv, ControlInv
  <2> QED
    BY <2>1 DEF IInv, QueueInv
<1> QED
  BY <1>1, Invariance, PTL

(* A closed client sends nothing: no step makes a copy of a command.       *)
LEMMA ClosedSendsNothing ==
  ASSUME IInv, [Next]_vars, closed, NEW c \in Calls
  PROVE  Copies(c)' <= Copies(c)
<1>1. TypeOK /\ Copies(c) \in Nat
  BY PendingType DEF IInv
<1>2. ASSUME UNCHANGED <<requests, lost, executed>>
      PROVE  Copies(c)' <= Copies(c)
  BY <1>1, <1>2, UnchangedKeeps
<1>3. ASSUME Disconnect
      PROVE  Copies(c)' <= Copies(c)
  BY <1>1, <1>3, DisconnectKeeps
<1>4. ~Send
  BY DEF IInv, ControlInv, Send
<1>5. CASE SendCommand
  BY <1>2, <1>5 DEF SendCommand, peerVars
<1>6. CASE RequestRefused \/ ConnectFails \/ SocketFails \/ ResponseNotReady \/ ReadCut
  BY <1>3, <1>6 DEF RequestRefused, ConnectFails, SocketFails, ResponseNotReady,
                    ReadCut, AttemptFails
<1>7. CASE Connect
  BY <1>2, <1>7 DEF Connect
<1>8. CASE Reuse
  BY <1>2, <1>8 DEF Reuse, peerVars
<1>9. CASE GetResponse
  BY <1>2, <1>3, <1>9 DEF GetResponse, peerVars
<1>10. CASE ReadBody
  BY <1>2, <1>10 DEF ReadBody
<1>11. CASE ParseCode \/ Interrupt
  BY <1>2, <1>11 DEF ParseCode, Interrupt, peerVars
<1>12. CASE Close
  BY <1>3, <1>12 DEF Close
<1>13. CASE (\E a \in Answers : PeerAnswers(a)) \/ PeerCloses
              \/ \E d \in Calls : PeerExecutesLate(d)
  BY <1>1, <1>13, PeerCopies
<1>14. CASE UNCHANGED vars
  BY <1>2, <1>14 DEF vars, peerVars
<1>15. CASE RecvPiece \/ PeerSendsPiece
  BY <1>2, <1>15 DEF RecvPiece, PeerSendsPiece
<1> QED
  BY <1>4, <1>5, <1>6, <1>7, <1>8, <1>9, <1>10, <1>11, <1>12, <1>13, <1>14, <1>15
  DEF Next, ClientStep

(* After Server.close() the server receives no command any more, although  *)
(* the object still accepts them: what it executes later it had before.    *)
THEOREM NothingSentOnceClosed == Spec => NothingSentAfterClose
<1>1. IInv /\ [Next]_vars => [closed => \A c \in Calls : Copies(c)' <= Copies(c)]_vars
  BY ClosedSendsNothing
<1> QED
  BY <1>1, Invariance, PTL DEF Spec, NothingSentAfterClose
=============================================================================
