--------------------------- MODULE RdsReplyProofs ---------------------------
(***************************************************************************)
(* Theorems about RdsReply, for every reply, every way it is split over    *)
(* recv() calls, and every size_t.                                         *)
(*                                                                         *)
(* The parsers read a text by recursion.  Its induction is a lemma about   *)
(* sets of numbers, which the well-foundedness of < gives.                 *)
(***************************************************************************)
EXTENDS RdsReply, CfrdsBufferProofs, FiniteSetTheorems, WellFoundedInduction

-----------------------------------------------------------------------------
(* Induction over the numbers                                              *)

Below == {ss \in Nat \X Nat : ss[1] < ss[2]}

\* A set of numbers has a least one.
LEMMA Least ==
  ASSUME NEW T \in SUBSET Nat, T # {}
  PROVE  \E x \in T : \A y \in T : x <= y
<1>0. IsWellFoundedOn(Below, Nat)
  BY NatLessThanWellFounded DEF OpToRel, Below
<1>1. PICK x \in T : \A y \in T : ~(<<y, x>> \in Below)
  BY <1>0, WFMin
<1>2. \A y \in T : <<y, x>> \in Below <=> y < x
  BY DEF Below
<1>3. \A y \in T : ~(y < x) /\ y \in Nat
  BY <1>1, <1>2
<1>4. \A y \in T : x <= y
  BY <1>3
<1> QED
  BY <1>4

\* Induction, over a set of numbers.
LEMMA NatSetInduction ==
  ASSUME NEW T, 0 \in T, \A n \in Nat : n \in T => n + 1 \in T
  PROVE  \A n \in Nat : n \in T
<1> SUFFICES ASSUME NEW m \in Nat, m \notin T PROVE FALSE
  OBVIOUS
<1> DEFINE U == {n \in Nat : n \notin T}
<1>1. PICK x \in U : \A y \in U : x <= y
  BY Least
<1>2. x # 0 /\ x - 1 \in Nat /\ x - 1 # x /\ ~(x <= x - 1)
  OBVIOUS
<1>3. x - 1 \in T
  BY <1>1, <1>2
<1> QED
  BY <1>1, <1>2, <1>3

-----------------------------------------------------------------------------
(* Reading item by item                                                    *)

\* The first n values of the recursion of Repeated.
Steps(what, start, n, f) ==
  /\ DOMAIN f = 0 .. n /\ f[0] = start
  /\ \A i \in 1 .. n : f[i] = ReadNext(what, f[i - 1])

\* There are such values for every n.
LEMMA StepsExist ==
  ASSUME NEW what, NEW start
  PROVE  \A n \in Nat : \E f : Steps(what, start, n, f)
<1> DEFINE T == {n \in Nat : \E f : Steps(what, start, n, f)}
<1>1. 0 \in T
  <2> DEFINE f == [i \in 0 .. 0 |-> start]
  <2>1. Steps(what, start, 0, f)
    BY DEF Steps
  <2> QED BY <2>1
<1>2. ASSUME NEW n \in Nat, n \in T PROVE n + 1 \in T
  <2>1. PICK f : Steps(what, start, n, f)
    BY <1>2
  <2> DEFINE g == [i \in 0 .. n + 1 |-> IF i <= n THEN f[i] ELSE ReadNext(what, f[n])]
  <2>2. DOMAIN g = 0 .. n + 1 /\ g[0] = start
    BY <2>1 DEF Steps
  <2>3. ASSUME NEW i \in 1 .. n + 1 PROVE g[i] = ReadNext(what, g[i - 1])
    <3>1. CASE i <= n
      <4>1. i \in 1 .. n /\ i - 1 \in 0 .. n /\ i \in 0 .. n + 1 /\ i - 1 \in 0 .. n + 1
        BY <3>1
      <4>2. g[i] = f[i] /\ g[i - 1] = f[i - 1]
        BY <3>1, <4>1
      <4> QED BY <2>1, <4>1, <4>2 DEF Steps
    <3>2. CASE i = n + 1
      <4>1. g[n + 1] = ReadNext(what, f[n]) /\ g[n] = f[n] /\ i - 1 = n
        BY <3>2
      <4> QED BY <3>2, <4>1
    <3> QED BY <3>1, <3>2
  <2>4. Steps(what, start, n + 1, g)
    <3> HIDE DEF g
    <3> QED BY <2>2, <2>3 DEF Steps
  <2> QED BY <2>4
<1> HIDE DEF T
<1>3. \A n \in Nat : n \in T
  BY <1>1, <1>2, NatSetInduction
<1> QED BY <1>3 DEF T

\* They are the same, however far they go.
LEMMA StepsAgree ==
  ASSUME NEW what, NEW start, NEW n \in Nat, NEW m \in Nat, NEW f, NEW g,
         Steps(what, start, n, f), Steps(what, start, m, g)
  PROVE  \A i \in Nat : i <= n /\ i <= m => f[i] = g[i]
<1> DEFINE T == {i \in Nat : i <= n /\ i <= m => f[i] = g[i]}
<1>1. 0 \in T
  BY DEF Steps
<1>2. ASSUME NEW i \in Nat, i \in T PROVE i + 1 \in T
  <2> SUFFICES ASSUME i + 1 <= n, i + 1 <= m PROVE f[i + 1] = g[i + 1]
    OBVIOUS
  <2>1. i + 1 \in 1 .. n /\ i + 1 \in 1 .. m /\ (i + 1) - 1 = i /\ f[i] = g[i]
    BY <1>2
  <2> QED BY <2>1 DEF Steps
<1> HIDE DEF T
<1>3. \A i \in Nat : i \in T
  BY <1>1, <1>2, NatSetInduction
<1> QED BY <1>3 DEF T

\* So there is a function of which they are the values.
LEMMA RecursionExists ==
  ASSUME NEW what, NEW start
  PROVE  \E f : f = [i \in Nat |-> IF i = 0 THEN start ELSE ReadNext(what, f[i - 1])]
<1> DEFINE part(n) == CHOOSE f : Steps(what, start, n, f)
           whole == [n \in Nat |-> part(n)[n]]
<1>1. \A n \in Nat : Steps(what, start, n, part(n))
  BY StepsExist
<1> HIDE DEF part
<1>2. ASSUME NEW n \in Nat
      PROVE  whole[n] = IF n = 0 THEN start ELSE ReadNext(what, whole[n - 1])
  <2>1. CASE n = 0
    BY <1>1, <2>1 DEF Steps
  <2>2. CASE n # 0
    <3>1. n - 1 \in Nat /\ n \in 1 .. n
      BY <2>2
    <3>2. part(n)[n] = ReadNext(what, part(n)[n - 1])
      BY <1>1, <3>1 DEF Steps
    <3>3. part(n)[n - 1] = part(n - 1)[n - 1]
      <4>1. Steps(what, start, n, part(n)) /\ Steps(what, start, n - 1, part(n - 1))
        BY <1>1, <3>1
      <4>2. n - 1 <= n /\ n - 1 <= n - 1
        BY <3>1
      <4> QED BY <3>1, <4>1, <4>2, StepsAgree
    <3>4. whole[n] = part(n)[n] /\ whole[n - 1] = part(n - 1)[n - 1]
      BY <3>1
    <3> QED BY <2>2, <3>2, <3>3, <3>4
  <2> QED BY <2>1, <2>2
<1>3. whole = [i \in Nat |-> IF i = 0 THEN start ELSE ReadNext(what, whole[i - 1])]
  <2>1. DOMAIN whole = Nat
    OBVIOUS
  <2>2. whole = [i \in Nat |-> whole[i]]
    OBVIOUS
  <2> HIDE DEF whole
  <2> QED BY <1>2, <2>2
<1> QED BY <1>3

\* What n readers make of a text, one after another.
LEMMA RepeatedIs ==
  ASSUME NEW text, NEW what
  PROVE  /\ \A n \in Int : n <= 0 => Repeated(n, text, what) = Nothing(text)
         /\ \A n \in Nat : Repeated(n + 1, text, what)
                             = ReadNext(what, Repeated(n, text, what))
<1> DEFINE read == CHOOSE f : f = [i \in Nat |-> IF i = 0 THEN Nothing(text)
                                                ELSE ReadNext(what, f[i - 1])]
<1>1. read = [i \in Nat |-> IF i = 0 THEN Nothing(text) ELSE ReadNext(what, read[i - 1])]
  BY RecursionExists
<1>2. \A n \in Int : Repeated(n, text, what) = read[IF n > 0 THEN n ELSE 0]
  BY DEF Repeated
<1> HIDE DEF read
<1>3. read[0] = Nothing(text)
  BY <1>1
<1>4. ASSUME NEW n \in Nat PROVE read[n + 1] = ReadNext(what, read[n])
  <2>1. n + 1 \in Nat /\ n + 1 # 0 /\ (n + 1) - 1 = n
    OBVIOUS
  <2> QED BY <1>1, <2>1
<1>5. ASSUME NEW n \in Nat
      PROVE  Repeated(n + 1, text, what) = read[n + 1] /\ Repeated(n, text, what) = read[n]
  BY <1>2
<1>6. ASSUME NEW n \in Int, n <= 0 PROVE Repeated(n, text, what) = read[0]
  BY <1>2, <1>6
<1> QED BY <1>3, <1>4, <1>5, <1>6

-----------------------------------------------------------------------------
(* The readers                                                             *)

\* The first place of a unit in a text, 0 if it is not there.
LEMMA PlaceFinds ==
  ASSUME NEW text \in Seq(Unit), NEW unit
  PROVE  \/ Place(unit, text) = 0 /\ \A i \in 1 .. Len(text) : text[i] # unit
         \/ /\ Place(unit, text) \in 1 .. Len(text)
            /\ text[Place(unit, text)] = unit
            /\ \A i \in 1 .. Len(text) : text[i] = unit => Place(unit, text) <= i
<1> DEFINE found == {i \in 1 .. Len(text) : text[i] = unit}
<1>1. Place(unit, text) = IF found # {} THEN Min(found) ELSE 0
  BY DEF Place, SelectInSeq
<1>2. CASE found = {}
  BY <1>1, <1>2
<1>3. CASE found # {}
  <2>1. found \in SUBSET Nat
    OBVIOUS
  <2>2. PICK x \in found : \A y \in found : x <= y
    BY <1>3, <2>1, Least
  <2>3. Min(found) \in found /\ \A y \in found : Min(found) <= y
    BY <2>2 DEF Min
  <2> QED BY <1>1, <1>3, <2>3
<1> QED BY <1>2, <1>3

\* There are k units of a text from its a-th to its b-th; these units.
Fits(text, a, b, k) ==
  /\ text \in Seq(Unit) /\ a \in Nat \ {0} /\ b \in Nat /\ k \in Nat
  /\ b <= Len(text) /\ a + k = b + 1
Part(part, text, a, k) ==
  part \in Seq(Unit) /\ Len(part) = k /\ \A i \in 1 .. k : part[i] = text[a + i - 1]

\* SubSeq and From give such parts.
LEMMA SubIs ==
  ASSUME NEW text, NEW a, NEW b, NEW k, Fits(text, a, b, k)
  PROVE  Part(SubSeq(text, a, b), text, a, k)
<1> USE DEF Fits
<1>1. /\ SubSeq(text, a, b) \in Seq(Unit) /\ Len(SubSeq(text, a, b)) = k
      /\ \A i \in 1 .. k : SubSeq(text, a, b)[i] = text[a + i - 1]
  OBVIOUS
<1> QED BY <1>1 DEF Part

LEMMA FromIs ==
  ASSUME NEW text, NEW a, NEW k, Fits(text, a, Len(text), k)
  PROVE  Part(From(text, a), text, a, k)
  BY SubIs, Zenon DEF From

\* The units of a part are the part.
LEMMA SamePart ==
  ASSUME NEW s, NEW t, NEW text, NEW a, NEW k, k \in Nat,
         Part(s, text, a, k), Part(t, text, a, k)
  PROVE  s = t
<1>1. s \in Seq(Unit) /\ t \in Seq(Unit) /\ Len(s) = k /\ Len(t) = k
  BY Zenon DEF Part
<1>2. \A i \in 1 .. k : s[i] = t[i]
  BY DEF Part
<1> QED BY <1>1, <1>2

\* A part of a part: unit b of the one is unit c of the text.
Inside(a, k, b, l, c) ==
  /\ a \in Nat \ {0} /\ k \in Nat /\ b \in Nat \ {0} /\ l \in Nat /\ c \in Nat \ {0}
  /\ c = a + b - 1 /\ b + l <= k + 1

LEMMA PartOfPart ==
  ASSUME NEW s, NEW t, NEW text, NEW a, NEW k, NEW b, NEW l, NEW c,
         Inside(a, k, b, l, c), Part(s, text, a, k), Part(t, s, b, l)
  PROVE  Part(t, text, c, l)
<1> USE DEF Inside
<1>1. ASSUME NEW i \in 1 .. l PROVE t[i] = text[c + i - 1]
  <2>1. b + i - 1 \in 1 .. k /\ a + (b + i - 1) - 1 = c + i - 1
    OBVIOUS
  <2>2. t[i] = s[b + i - 1]
    BY DEF Part
  <2>3. s[b + i - 1] = text[a + (b + i - 1) - 1]
    BY <2>1 DEF Part
  <2> QED BY <2>1, <2>2, <2>3
<1>2. t \in Seq(Unit) /\ Len(t) = l
  BY Zenon DEF Part
<1> QED BY <1>1, <1>2, Zenon DEF Part

\* The end of an end.
LEMMA FromFrom ==
  ASSUME NEW text \in Seq(Unit), NEW m \in Nat, Len(text) = m,
         NEW a \in Nat \ {0}, a <= m + 1, NEW b \in Nat \ {0}, NEW c \in Nat \ {0},
         c = a + b - 1, c <= m + 1
  PROVE  From(From(text, a), b) = From(text, c)
<1> DEFINE k == m + 1 - a
           l == m + 1 - c
           s == From(text, a)
           t == From(s, b)
           u == From(text, c)
<1>1. k \in Nat /\ l \in Nat /\ a + k = m + 1 /\ c + l = m + 1 /\ b + l = k + 1
  OBVIOUS
<1> HIDE DEF k, l
<1>2. Fits(text, a, Len(text), k) /\ Fits(text, c, Len(text), l)
  BY <1>1 DEF Fits
<1>3. Part(s, text, a, k) /\ Part(u, text, c, l)
  BY <1>2, FromIs
<1> HIDE DEF s, u
<1>4. s \in Seq(Unit) /\ Len(s) = k
  BY <1>3, Zenon DEF Part
<1>5. Fits(s, b, Len(s), l)
  BY <1>1, <1>4 DEF Fits
<1>6. Part(t, s, b, l)
  BY <1>5, FromIs
<1> HIDE DEF t
<1>7. Part(t, text, c, l)
  <2>1. Inside(a, k, b, l, c)
    BY <1>1 DEF Inside
  <2> QED BY <1>3, <1>6, <2>1, PartOfPart
<1>8. t = u
  BY <1>1, <1>3, <1>7, SamePart
<1> QED BY <1>8 DEF s, t, u

\* The beginning of an end.
Start(text, n) == SubSeq(text, 1, n)

LEMMA StartOfEnd ==
  ASSUME NEW text, NEW a, NEW n, NEW b, Fits(text, a, b, n),
         NEW s, s = From(text, a), NEW t, t = Start(s, n)
  PROVE  t = SubSeq(text, a, b)
<1>0. PICK m \in Nat : Len(text) = m
  BY DEF Fits
<1> DEFINE k == m + 1 - a
           u == SubSeq(text, a, b)
<1>1. /\ text \in Seq(Unit) /\ n \in Nat /\ a \in Nat \ {0}
      /\ k \in Nat /\ a + k = m + 1 /\ a + n = b + 1 /\ n <= k /\ 1 + n = n + 1
  BY <1>0 DEF Fits
<1> HIDE DEF k
<1>2. Fits(text, a, Len(text), k)
  BY <1>0, <1>1 DEF Fits
<1>3. Part(s, text, a, k) /\ Part(u, text, a, n)
  BY <1>2, FromIs, SubIs
<1> HIDE DEF u
<1>4. s \in Seq(Unit) /\ Len(s) = k
  BY <1>3, Zenon DEF Part
<1>5. Fits(s, 1, n, n)
  BY <1>1, <1>4 DEF Fits
<1>6. Part(t, s, 1, n)
  BY <1>5, SubIs DEF Start
<1>7. Part(t, text, a, n)
  <2>1. Inside(a, k, 1, n, a)
    BY <1>1 DEF Inside
  <2> QED BY <1>3, <1>6, <2>1, PartOfPart
<1>8. t = u
  BY <1>1, <1>3, <1>7, SamePart
<1> QED BY <1>8 DEF u

\* A numeral and a colon are a number.
LEMMA NumberRead ==
  ASSUME NEW text \in Seq(Unit), NEW m \in Nat, Len(text) = m, m >= 2,
         text[1] \in DOMAIN Value, text[2] = ":"
  PROVE  ParseNumber(text) = [ok |-> TRUE, n |-> Value[text[1]], rest |-> From(text, 3)]
<1>1. text[1] # ":"
  BY ValueAssumption
<1>2. Place(":", text) = 2
  BY <1>1, PlaceFinds
<1>3. SubSeq(text, 1, 1) \in Seq(Unit) /\ Len(SubSeq(text, 1, 1)) = 1
      /\ SubSeq(text, 1, 1)[1] = text[1]
  OBVIOUS
<1>4. PICK s \in Seq(Unit) : s = SubSeq(text, 1, 1) /\ Len(s) = 1 /\ s[1] = text[1]
  BY <1>3
<1>5. IsNumeral(s) /\ Number(s)[1] = text[1]
  BY <1>4 DEF IsNumeral, Number
<1>6. 2 > 0 /\ 2 - 1 = 1 /\ 2 + 1 = 3
  OBVIOUS
<1> QED BY <1>2, <1>4, <1>5, <1>6, Zenon DEF ParseNumber, NumberBefore

\* What does not begin with a numeral or a colon is none.
LEMMA NumberMissing ==
  ASSUME NEW text \in Seq(Unit), NEW m \in Nat, Len(text) = m,
         \/ m = 0
         \/ m = 1 /\ text[1] # ":"
         \/ text[1] \notin DOMAIN Value \cup {":"}
  PROVE  ParseNumber(text) = NoNumber
<1>1. Place(":", text) \in Nat
  BY PlaceFinds
<1>2. CASE Place(":", text) = 0
  <2>1. ~(0 > 0)
    OBVIOUS
  <2> QED BY <1>2, <2>1, Zenon DEF ParseNumber, NumberBefore
<1>3. CASE Place(":", text) # 0
  <2>1. PICK colon \in 2 .. m : colon = Place(":", text)
    BY <1>1, <1>3, PlaceFinds
  <2>2. text[1] \notin DOMAIN Value
    BY <2>1, PlaceFinds
  <2>3. PICK k \in Nat : k = colon - 1 /\ k >= 1 /\ k <= m
    <3>1. colon - 1 \in Nat /\ colon - 1 >= 1 /\ colon - 1 <= m
      BY <2>1
    <3> QED BY <3>1
  <2>5. PICK s \in Seq(Unit) : s = SubSeq(text, 1, k) /\ Len(s) = k /\ s[1] = text[1]
    <3> DEFINE s == SubSeq(text, 1, k)
    <3>1. Fits(text, 1, k, k)
      BY <2>3 DEF Fits
    <3>2. Part(s, text, 1, k)
      BY <3>1, SubIs
    <3> HIDE DEF s
    <3>3. s \in Seq(Unit) /\ Len(s) = k /\ s[1] = text[1]
      BY <2>3, <3>2 DEF Part
    <3> QED BY <3>3 DEF s
  <2>4. ~IsNumeral(s) /\ colon # 1
    BY <2>1, <2>2, <2>5 DEF IsNumeral
  <2> QED BY <2>1, <2>3, <2>4, <2>5, Zenon DEF ParseNumber, NumberBefore
<1> QED BY <1>2, <1>3

-----------------------------------------------------------------------------
(* The strings of a reply                                                  *)

\* A text received of a reply: all of it, or its beginning.
Received(text, whole, at, spare) ==
  /\ Framed(whole, at, spare) /\ spare \in Nat
  /\ text \in Seq(Unit) /\ Len(text) <= Len(whole)
  /\ \A i \in 1 .. Len(text) : text[i] = whole[i]

\* Where string k begins, and where the next would.
LEMMA StringsAt ==
  ASSUME NEW text, NEW whole, NEW at, NEW spare, Received(text, whole, at, spare)
  PROVE  /\ Len(at) \in Nat \ {0} /\ DOMAIN at = 1 .. Len(at) /\ at[1] = 3
         /\ \A k \in 1 .. Len(at) : at[k] \in Nat /\ at[k] >= 3
         /\ \A k \in 1 .. Len(at) - 1 : at[k + 1] >= at[k] + 2
         /\ at[Len(at)] + spare = Len(whole) + 1
<1>1. /\ Len(at) \in Nat \ {0} /\ DOMAIN at = 1 .. Len(at) /\ at[1] = 3
      /\ \A k \in 1 .. Len(at) : at[k] \in Nat
      /\ \A k \in 1 .. Len(at) - 1 : at[k + 1] >= at[k] + 2
      /\ at[Len(at)] + spare = Len(whole) + 1
  BY SMTT(30) DEF Received, Framed
<1> DEFINE T == {k \in Nat : k + 1 <= Len(at) => at[k + 1] >= 3}
<1>2. 0 \in T
  BY <1>1
<1>3. ASSUME NEW k \in Nat, k \in T PROVE k + 1 \in T
  <2> SUFFICES ASSUME (k + 1) + 1 <= Len(at) PROVE at[(k + 1) + 1] >= 3
    OBVIOUS
  <2>1. k + 1 \in 1 .. Len(at) - 1 /\ k + 1 \in 1 .. Len(at) /\ (k + 1) + 1 \in 1 .. Len(at)
        /\ at[k + 1] >= 3
    BY <1>1, <1>3
  <2>2. at[k + 1] \in Nat /\ at[(k + 1) + 1] \in Nat /\ at[(k + 1) + 1] >= at[k + 1] + 2
    BY <1>1, <2>1
  <2> QED BY <2>1, <2>2
<1> HIDE DEF T
<1>4. \A k \in Nat : k \in T
  BY <1>2, <1>3, NatSetInduction
<1>5. ASSUME NEW k \in 1 .. Len(at) PROVE at[k] >= 3
  <2>1. k - 1 \in T /\ (k - 1) + 1 = k
    BY <1>1, <1>4
  <2> QED BY <2>1 DEF T
<1> QED BY <1>1, <1>5

\* The count of the strings is read once it and its colon have arrived.
LEMMA CountRead ==
  ASSUME NEW text, NEW whole, NEW at, NEW spare, Received(text, whole, at, spare)
  PROVE  ParseNumber(text) = IF Len(text) >= 2
                               THEN [ok |-> TRUE, n |-> Len(at) - 1, rest |-> From(text, 3)]
                               ELSE NoNumber
<1>0. PICK m \in Nat : m = Len(text)
  BY DEF Received
<1>1. /\ text \in Seq(Unit) /\ m <= Len(whole)
      /\ \A i \in 1 .. m : text[i] = whole[i]
      /\ whole[1] \in DOMAIN Value /\ Value[whole[1]] = Len(at) - 1 /\ whole[2] = ":"
  BY <1>0 DEF Received, Framed
<1>2. CASE m >= 2
  <2>1. text[1] = whole[1] /\ text[2] = whole[2]
    BY <1>1, <1>2
  <2>2. ParseNumber(text) = [ok |-> TRUE, n |-> Value[text[1]], rest |-> From(text, 3)]
    BY <1>0, <1>1, <1>2, <2>1, NumberRead
  <2> QED BY <1>0, <1>1, <1>2, <2>1, <2>2
<1>3. CASE m < 2
  <2>1. m = 0 \/ (m = 1 /\ text[1] # ":")
    <3>1. m = 0 \/ m = 1
      BY <1>3
    <3>2. ASSUME m = 1 PROVE text[1] # ":"
      <4>1. text[1] = whole[1]
        BY <1>1, <3>2
      <4> QED BY <1>1, <4>1, ValueAssumption
    <3> QED BY <3>1, <3>2
  <2>2. ParseNumber(text) = NoNumber
    BY <1>0, <1>1, <2>1, NumberMissing
  <2> QED BY <1>0, <1>3, <2>2
<1> QED BY <1>2, <1>3

\* String k is read, and the text after it is left, once all of it has arrived.
LEMMA StringRead ==
  ASSUME NEW text, NEW whole, NEW at, NEW spare, Received(text, whole, at, spare),
         NEW k \in 1 .. Len(at) - 1, at[k] <= Len(text) + 1
  PROVE  ParseString(From(text, at[k]))
           = IF at[k + 1] <= Len(text) + 1
               THEN [ok |-> TRUE, text |-> SubSeq(text, at[k] + 2, at[k + 1] - 1),
                     rest |-> From(text, at[k + 1])]
               ELSE NoText
<1>1. PICK m \in Nat : m = Len(text) /\ text \in Seq(Unit)
  BY DEF Received
<1>2. PICK a \in Nat \ {0}, b \in Nat, n \in Nat :
        a = at[k] /\ b = at[k + 1] /\ n = b - a - 2
  <2>1. Len(at) \in Nat
    BY StringsAt
  <2>2. k \in 1 .. Len(at) /\ k + 1 \in 1 .. Len(at)
    BY <2>1
  <2>3. at[k] \in Nat /\ at[k + 1] \in Nat /\ at[k] >= 3 /\ at[k + 1] >= at[k] + 2
    BY <2>2, StringsAt
  <2>4. at[k] \in Nat \ {0} /\ at[k + 1] - at[k] - 2 \in Nat
    BY <2>3
  <2> QED BY <2>3, <2>4
<1>3. /\ whole[a] \in DOMAIN Value /\ Value[whole[a]] = n /\ whole[a + 1] = ":"
      /\ \A i \in 1 .. m : text[i] = whole[i]
  BY <1>1, <1>2 DEF Received, Framed
<1> DEFINE tail == From(text, a)
           l == m + 1 - a
<1>4. l \in Nat /\ a + l = m + 1
  <2>1. a <= m + 1
    BY <1>1, <1>2
  <2> QED BY <2>1
<1> HIDE DEF l
<1>5. Part(tail, text, a, l)
  <2>1. Fits(text, a, Len(text), l)
    BY <1>1, <1>4 DEF Fits
  <2> QED BY <2>1, FromIs
<1> HIDE DEF tail
<1>6. tail \in Seq(Unit) /\ Len(tail) = l /\ \A i \in 1 .. l : tail[i] = text[a + i - 1]
  BY <1>5, Zenon DEF Part
<1>7. CASE l < 2
  <2>1. l = 0 \/ (l = 1 /\ tail[1] # ":")
    <3>1. l = 0 \/ l = 1
      BY <1>4, <1>7
    <3>2. ASSUME l = 1 PROVE tail[1] # ":"
      <4>1. 1 \in 1 .. l /\ a + 1 - 1 = a /\ a \in 1 .. m
        BY <1>1, <1>4, <3>2
      <4>2. tail[1] = whole[a]
        BY <1>3, <1>6, <4>1
      <4> QED BY <1>3, <4>2, ValueAssumption
    <3> QED BY <3>1, <3>2
  <2>2. ParseNumber(tail) = NoNumber
    BY <1>4, <1>6, <2>1, NumberMissing
  <2>3. ~(b <= m + 1)
    BY <1>2, <1>4, <1>7, SMTT(30)
  <2>4. ParseString(tail) = NoText
    <3>1. ~NoNumber.ok
      BY DEF NoNumber
    <3> QED BY <2>2, <3>1, Zenon DEF ParseString, StringOf
  <2> QED BY <1>1, <1>2, <2>3, <2>4, Zenon DEF tail
<1>8. CASE l >= 2
  <2>1. tail[1] = whole[a] /\ tail[2] = whole[a + 1]
    <3>1. 1 \in 1 .. l /\ a + 1 - 1 = a /\ a \in 1 .. m
      BY <1>4, <1>8
    <3>2. 2 \in 1 .. l /\ a + 2 - 1 = a + 1 /\ a + 1 \in 1 .. m
      BY <1>4, <1>8
    <3>3. tail[1] = text[a] /\ tail[2] = text[a + 1]
      BY <1>6, <3>1, <3>2
    <3> QED BY <1>3, <3>1, <3>2, <3>3
  <2> DEFINE body == From(tail, 3)
  <2>2. ParseNumber(tail) = [ok |-> TRUE, n |-> n, rest |-> body]
    <3>1. ParseNumber(tail) = [ok |-> TRUE, n |-> Value[tail[1]], rest |-> body]
      BY <1>3, <1>4, <1>6, <1>8, <2>1, NumberRead
    <3> QED BY <1>3, <2>1, <3>1
  <2> DEFINE c == a + 2
  <2>3. c \in Nat \ {0} /\ c = a + 3 - 1 /\ c <= m + 1 /\ a <= m + 1 /\ 3 \in Nat \ {0}
    BY <1>4, <1>8
  <2>4. body = From(text, c)
    <3> HIDE DEF c
    <3> QED BY <1>1, <2>3, FromFrom DEF tail
  <2> DEFINE r == m + 1 - c
  <2>5. r \in Nat /\ c + r = m + 1
    BY <2>3
  <2> HIDE DEF r
  <2>6. Len(body) = r /\ body \in Seq(Unit)
    <3>1. Fits(text, c, Len(text), r)
      BY <1>1, <2>3, <2>5 DEF Fits
    <3> HIDE DEF c, body
    <3>2. Part(body, text, c, r)
      BY <2>4, <3>1, FromIs
    <3> QED BY <3>2, Zenon DEF Part
  <2>7. (b <= m + 1) <=> (n <= r)
    <3>1. n = b - a - 2
      BY <1>2
    <3>2. a + 2 + r = m + 1
      BY <2>5
    <3> QED BY <2>5, <3>1, <3>2
  <2> HIDE DEF body
  <2>8. /\ ParseNumber(tail).ok /\ ParseNumber(tail).n = n /\ ParseNumber(tail).rest = body
    BY <2>2
  <2>9. CASE n <= r
    <3>0. b = a + n + 2 /\ b <= m + 1
      <4>1. b <= m + 1
        BY <2>7, <2>9
      <4>2. n = b - a - 2
        BY <1>2
      <4>3. b = a + n + 2
        BY <4>2
      <4> QED BY <4>1, <4>3, Zenon
    <3>1. ParseString(tail) = [ok |-> TRUE, text |-> SubSeq(body, 1, n),
                               rest |-> From(body, n + 1)]
      <4>1. n >= 0 /\ n <= Len(body)
        BY <2>6, <2>9
      <4> QED BY <2>8, <4>1, Zenon DEF ParseString, StringOf
    <3>2. SubSeq(body, 1, n) = SubSeq(text, c, b - 1)
      <4> DEFINE e == b - 1
      <4>1. e \in Nat /\ e = c + n - 1 /\ e <= m
        BY <3>0
      <4> HIDE DEF c, e
      <4>2. Fits(text, c, e, n)
        BY <1>1, <2>3, <4>1 DEF Fits
      <4>3. Start(body, n) = SubSeq(text, c, e)
        BY <2>4, <4>2, StartOfEnd
      <4> QED BY <4>3, Zenon DEF e, Start
    <3>3. From(body, n + 1) = From(text, b)
      <4> DEFINE e == n + 1
      <4>1. e \in Nat \ {0} /\ b = c + e - 1 /\ b \in Nat \ {0} /\ b <= m + 1
        BY <3>0
      <4> HIDE DEF c, e
      <4>2. From(body, e) = From(text, b)
        BY <1>1, <2>3, <2>4, <4>1, FromFrom
      <4> QED BY <4>2 DEF e
    <3>4. b <= m + 1
      BY <2>7, <2>9
    <3> QED BY <1>1, <1>2, <3>1, <3>2, <3>3, <3>4, Zenon DEF tail
  <2>10. CASE ~(n <= r)
    <3>1. ParseString(tail) = NoText
      <4>1. ~(n <= Len(body))
        BY <2>6, <2>10
      <4> QED BY <2>8, <4>1, Zenon DEF ParseString, StringOf
    <3>2. ~(b <= m + 1)
      BY <2>7, <2>10
    <3> QED BY <1>1, <1>2, <3>1, <3>2, Zenon DEF tail
  <2> QED BY <2>9, <2>10
<1> QED BY <1>4, <1>7, <1>8

\* A string read, with the text up to its zero.
LEMMA TextReplaced ==
  ASSUME NEW b, NEW r, NEW c, NEW p, p = [ok |-> TRUE, text |-> b, rest |-> r],
         NEW q, q = [p EXCEPT !.text = c]
  PROVE  q.ok /\ q.text = c /\ q.rest = r
  OBVIOUS

\* What string k reads as.
StringAt(text, at, k) == CString(SubSeq(text, at[k] + 2, at[k + 1] - 1))
ListAt(text, at, s, n) == [j \in 1 .. n |-> StringAt(text, at, s + j - 1)]

\* One string more.
LEMMA ListGrows ==
  ASSUME NEW text, NEW at, NEW s \in Nat, NEW n \in Nat
  PROVE  Append(ListAt(text, at, s, n), StringAt(text, at, s + n)) = ListAt(text, at, s, n + 1)
<1> DEFINE item(j) == StringAt(text, at, s + j - 1)
           S == {item(j) : j \in 1 .. n + 1}
<1>1. ListAt(text, at, s, n) = [j \in 1 .. n |-> item(j)]
      /\ ListAt(text, at, s, n + 1) = [j \in 1 .. n + 1 |-> item(j)]
  BY DEF ListAt
<1>2. s + (n + 1) - 1 = s + n
  OBVIOUS
<1>3. StringAt(text, at, s + n) = item(n + 1)
  BY <1>2, Zenon
<1>4. \A j \in 1 .. n : item(j) \in S
  OBVIOUS
<1>5. item(n + 1) \in S
  OBVIOUS
<1> HIDE DEF item, S
<1>6. Append([j \in 1 .. n |-> item(j)], item(n + 1)) = [j \in 1 .. n + 1 |-> item(j)]
  BY <1>4, <1>5
<1> QED BY <1>1, <1>3, <1>6

\* As many strings are read as have arrived.
StringsAre(text, at, s, n) ==
  IF at[s + n] <= Len(text) + 1
    THEN /\ Strings(From(text, at[s]), n).ok
         /\ Strings(From(text, at[s]), n).list = ListAt(text, at, s, n)
         /\ Strings(From(text, at[s]), n).rest = From(text, at[s + n])
    ELSE ~Strings(From(text, at[s]), n).ok

\* By induction on the number of strings.
LEMMA StringsRead ==
  ASSUME NEW text, NEW whole, NEW at, NEW spare, Received(text, whole, at, spare),
         NEW s \in 1 .. Len(at), at[s] <= Len(text) + 1
  PROVE  \A n \in Nat : s + n <= Len(at) => StringsAre(text, at, s, n)
<1> DEFINE T == {n \in Nat : s + n <= Len(at) => StringsAre(text, at, s, n)}
           tail == From(text, at[s])
<1>0. Len(at) \in Nat /\ s \in Nat /\ s >= 1
  BY StringsAt
<1>1. 0 \in T
  <2>1. Strings(tail, 0) = Nothing(tail)
    <3>1. 0 \in Int /\ 0 <= 0
      OBVIOUS
    <3> QED BY <3>1, RepeatedIs, Zenon DEF Strings
  <2>2. s + 0 = s /\ 0 \in Nat
    BY <1>0
  <2>3. ListAt(text, at, s, 0) = <<>>
    BY DEF ListAt
  <2>4. StringsAre(text, at, s, 0)
    <3>1. /\ Nothing(tail).ok /\ Nothing(tail).list = <<>> /\ Nothing(tail).rest = tail
      BY DEF Nothing
    <3> QED BY <2>1, <2>2, <2>3, <3>1, Zenon DEF StringsAre
  <2> QED BY <2>2, <2>4
<1>2. ASSUME NEW n \in Nat, n \in T PROVE n + 1 \in T
  <2> SUFFICES ASSUME s + (n + 1) <= Len(at) PROVE StringsAre(text, at, s, n + 1)
    OBVIOUS
  <2>1. PICK k \in Nat : k = s + n
    BY <1>0
  <2>2. k \in 1 .. Len(at) - 1 /\ s + (n + 1) = k + 1 /\ s + n <= Len(at)
    BY <1>0, <2>1
  <2>3. StringsAre(text, at, s, n)
    BY <1>2, <2>2
  <2> DEFINE read == Strings(tail, n)
             next == Strings(tail, n + 1)
  <2>4. next = NextString(read)
    <3>1. next = ReadNext("string", read)
      BY RepeatedIs, Zenon DEF Strings
    <3> QED BY <3>1 DEF ReadNext
  <2>5. at[k] \in Nat /\ at[k + 1] \in Nat /\ at[k + 1] >= at[k] + 2 /\ Len(text) \in Nat
    <3>1. k \in 1 .. Len(at) /\ k + 1 \in 1 .. Len(at)
      BY <1>0, <2>2
    <3>2. Len(text) \in Nat
      BY DEF Received
    <3> QED BY <2>2, <3>1, <3>2, StringsAt
  <2> HIDE DEF read, next
  <2>6. CASE at[k] <= Len(text) + 1
    <3>2. read.ok /\ read.rest = From(text, at[k]) /\ read.list = ListAt(text, at, s, n)
      BY <2>1, <2>3, <2>6, Zenon DEF StringsAre, read
    <3>3. next = Then(read, ParseCString(From(text, at[k])))
      BY <2>4, <3>2, Zenon DEF NextString
    <3>4. CASE at[k + 1] <= Len(text) + 1
      <4>1. ParseString(From(text, at[k]))
              = [ok |-> TRUE, text |-> SubSeq(text, at[k] + 2, at[k + 1] - 1),
                 rest |-> From(text, at[k + 1])]
        BY <2>2, <2>6, <3>4, StringRead
      <4>2. PICK item : item = ParseCString(From(text, at[k]))
        OBVIOUS
      <4>3. item.ok /\ item.text = StringAt(text, at, k) /\ item.rest = From(text, at[k + 1])
        <5> DEFINE string == SubSeq(text, at[k] + 2, at[k + 1] - 1)
                   parsed == ParseString(From(text, at[k]))
        <5> HIDE DEF string
        <5>1. parsed = [ok |-> TRUE, text |-> string, rest |-> From(text, at[k + 1])]
          BY <4>1 DEF string
        <5> HIDE DEF parsed
        <5>2. parsed.text = string
          BY <5>1
        <5>3. item = [parsed EXCEPT !.text = CString(string)]
          BY <4>2, <5>2, Zenon DEF ParseCString, parsed
        <5>4. item.ok /\ item.text = CString(string) /\ item.rest = From(text, at[k + 1])
          BY <5>1, <5>3, TextReplaced
        <5> QED BY <5>4, Zenon DEF StringAt, string
      <4>5. /\ next.ok /\ next.list = Append(read.list, StringAt(text, at, k))
            /\ next.rest = From(text, at[k + 1])
        BY <3>3, <4>2, <4>3 DEF Then
      <4>4. Append(read.list, StringAt(text, at, k)) = ListAt(text, at, s, n + 1)
        BY <1>0, <2>1, <3>2, ListGrows
      <4> QED BY <2>2, <3>4, <4>4, <4>5, Zenon DEF StringsAre, next
    <3>5. CASE ~(at[k + 1] <= Len(text) + 1)
      <4>1. ParseString(From(text, at[k])) = NoText
        BY <2>2, <2>6, <3>5, StringRead
      <4>2. ~ParseCString(From(text, at[k])).ok
        BY <4>1 DEF ParseCString, NoText
      <4>3. ~next.ok
        BY <3>3, <4>2 DEF Then
      <4> QED BY <2>2, <3>5, <4>3, Zenon DEF StringsAre, next
    <3> QED BY <3>4, <3>5
  <2>7. CASE ~(at[k] <= Len(text) + 1)
    <3>1. ~read.ok
      BY <2>1, <2>3, <2>7, Zenon DEF StringsAre, read
    <3>2. ~next.ok
      BY <2>4, <3>1, Zenon DEF NextString
    <3>3. ~(at[k + 1] <= Len(text) + 1)
      BY <2>5, <2>7
    <3> QED BY <2>2, <3>2, <3>3, Zenon DEF StringsAre, next
  <2> QED BY <2>6, <2>7
<1> HIDE DEF T
<1>3. \A n \in Nat : n \in T
  BY <1>1, <1>2, NatSetInduction
<1> QED BY <1>3 DEF T

-----------------------------------------------------------------------------
(* What the parsers refuse                                                 *)

\* The parsers by their names.
LEMMA ParserResultIs ==
  ASSUME NEW text
  PROVE  /\ ParserResult("browse_dir", text) = BrowseDir(text)
         /\ ParserResult("file_content", text) = FileContent(text)
         /\ ParserResult("dsninfo", text) = DsnInfo(text)
         /\ ParserResult("tableinfo", text) = TableInfo(text)
         /\ ParserResult("columninfo", text) = ColumnInfo(text)
         /\ ParserResult("primarykeys", text) = PrimaryKeys(text)
         /\ ParserResult("keyinfo", text) = KeyInfo(text)
         /\ ParserResult("sqlstmnt", text) = SqlStmnt(text)
         /\ ParserResult("metadata", text) = Metadata(text)
         /\ ParserResult("supportedcommands", text) = SupportedCommands(text)
         /\ ParserResult("dbdescription", text) = DbDescription(text)
         /\ ParserResult("debugger_start", text) = DebuggerStart(text)
         /\ ParserResult("debugger_stop", text) = DebuggerStop(text)
         /\ ParserResult("debugger_info", text) = DebuggerInfo(text)
         /\ ParserResult("debugger_event", text) = DebuggerEvent(text)
  BY DEF ParserResult

\* A reply whose count or whose strings could not be read is no table.
Unreadable(reply) == reply.count = -1 \/ ~reply.strings.ok

\* A parser of rows refuses such a reply,
LEMMA RowsRefused ==
  ASSUME NEW reply, NEW read, Unreadable(reply)
  PROVE  RowsIn(reply, read) = Null
<1>1. ~(reply.count \in 0 .. MaxItems /\ reply.strings.ok)
  BY LimitAssumption DEF Unreadable
<1> QED BY <1>1, Zenon DEF RowsIn, ReadIf

RowParsers == {"browse_dir", "dsninfo", "tableinfo", "columninfo", "primarykeys", "keyinfo",
               "sqlstmnt", "metadata", "dbdescription"}

\* whichever of them it is.
LEMMA TableRefused ==
  ASSUME NEW text, Unreadable(ParseStrings(text)), NEW parser \in RowParsers
  PROVE  ParserResult(parser, text) = Null
<1>1. BrowseDir(text) = Null
  <2>1. ASSUME NEW reply, NEW entries, Unreadable(reply) PROVE Directory(reply, entries) = Null
    <3>1. ~(reply.count >= 0 /\ reply.strings.ok)
      BY <2>1 DEF Unreadable
    <3> QED BY <3>1, Zenon DEF Directory, ReadIf
  <2> QED BY <2>1, Zenon DEF BrowseDir
<1>2. DsnInfo(text) = Null
  BY RowsRefused, Zenon DEF DsnInfo, Rows, RowsOf
<1>3. TableInfo(text) = Null
  BY RowsRefused, Zenon DEF TableInfo, Rows, RowsOf
<1>4. ColumnInfo(text) = Null
  BY RowsRefused, Zenon DEF ColumnInfo, Rows, RowsOf
<1>5. PrimaryKeys(text) = Null
  BY RowsRefused, Zenon DEF PrimaryKeys, Rows, RowsOf
<1>6. KeyInfo(text) = Null
  BY RowsRefused, Zenon DEF KeyInfo, Rows, RowsOf
<1>7. Metadata(text) = Null
  BY RowsRefused, Zenon DEF Metadata, Rows, RowsOf
<1>8. SqlStmnt(text) = Null
  <2>1. ASSUME NEW reply, NEW columns, Unreadable(reply) PROVE SqlRows(reply, columns) = Null
    BY <2>1, RowsRefused, Zenon DEF SqlRows, RowsOf
  <2>2. ASSUME NEW reply, NEW header, Unreadable(reply) PROVE SqlTable(reply, header) = Null
    BY <2>1, <2>2, Zenon DEF SqlTable
  <2> QED BY <2>2, Zenon DEF SqlStmnt
<1>9. DbDescription(text) = Null
  BY RowsRefused, Zenon DEF DbDescription, Rows, RowsOf
<1> QED BY <1>1, <1>2, <1>3, <1>4, <1>5, <1>6, <1>7, <1>8, <1>9, ParserResultIs, Zenon
        DEF RowParsers

\* Nor is one without the packet that it should be.
LEMMA PacketRefused ==
  ASSUME NEW text, PacketOf(text) = NUL,
         NEW parser \in {"debugger_stop", "debugger_info", "debugger_event"}
  PROVE  ParserResult(parser, text) = Null
<1>1. ~Accepted(NUL) /\ NUL \notin DOMAIN Packet
  BY ValueAssumption DEF Accepted
<1>2. DebuggerStop(text) = Null
  BY <1>1, Zenon DEF DebuggerStop, ReadIf
<1>3. DebuggerInfo(text) = Null
  BY <1>1, Zenon DEF DebuggerInfo, ReadIf
<1>4. DebuggerEvent(text) = Null
  BY <1>1, Zenon DEF DebuggerEvent, ReadIf
<1> QED BY <1>2, <1>3, <1>4, ParserResultIs, Zenon

\* NULL is no table.
LEMMA NullIsRefused == Null.status # "read"
  BY DEF Null

\* What is no number is refused by every parser.
LEMMA HeaderRefused ==
  ASSUME NEW text, ParseNumber(text) = NoNumber, NEW parser \in Parsers
  PROVE  ParserResult(parser, text).status # "read"
<1>1. ~ParseNumber(text).ok /\ ParseNumber(text).n = 0
  BY DEF NoNumber
<1>2. Unreadable(ParseStrings(text))
  BY <1>1 DEF Unreadable, ParseStrings, Counted
<1>3. PacketOf(text) = NUL
  <2>1. ~(ParseNumber(text).n = 1)
    BY <1>1
  <2> QED BY <2>1, Zenon DEF PacketOf
<1>4. FileContent(text) = Null
  BY <1>1, Zenon DEF FileContent, ReadIf
<1>5. SupportedCommands(text) = Null
  BY <1>1, Zenon DEF SupportedCommands
<1>6. DebuggerStart(text) = Null
  <2>1. ~(ParseNumber(text).n = 2)
    BY <1>1
  <2> QED BY <2>1, Zenon DEF DebuggerStart, ReadIf
<1>7. \/ parser \in RowParsers
      \/ parser \in {"debugger_stop", "debugger_info", "debugger_event"}
      \/ parser = "file_content"
      \/ parser = "supportedcommands"
      \/ parser = "debugger_start"
  BY DEF Parsers, RowParsers
<1>8. ParserResult(parser, text) = Null
  BY <1>2, <1>3, <1>4, <1>5, <1>6, <1>7, TableRefused, PacketRefused, ParserResultIs, Zenon
<1> QED BY <1>8, NullIsRefused

\* The last string of a reply that was cut short is not all there.
LEMMA StringsCut ==
  ASSUME NEW text, NEW whole, NEW at, Received(text, whole, at, 0), Len(text) < Len(whole),
         NEW s \in 1 .. Len(at), at[s] <= Len(text) + 1, NEW n \in Nat, s + n = Len(at)
  PROVE  ~Strings(From(text, at[s]), n).ok
<1>1. StringsAre(text, at, s, n)
  <2>1. s + n <= Len(at)
    BY StringsAt
  <2> QED BY <2>1, StringsRead
<1>2. ~(at[s + n] <= Len(text) + 1)
  <2>1. at[Len(at)] + 0 = Len(whole) + 1 /\ at[Len(at)] \in Nat
    BY StringsAt
  <2>2. Len(text) \in Nat /\ Len(whole) \in Nat
    BY DEF Received, Framed
  <2>3. ~(at[Len(at)] <= Len(text) + 1)
    BY <2>1, <2>2
  <2> QED BY <2>3
<1> QED BY <1>1, <1>2, Zenon DEF StringsAre

\* So a reply that was cut short has no strings.
LEMMA CutUnreadable ==
  ASSUME NEW text, NEW whole, NEW at, Received(text, whole, at, 0), Len(text) < Len(whole)
  PROVE  Unreadable(ParseStrings(text))
<1>0. Len(text) \in Nat
  BY DEF Received
<1>1. CASE Len(text) < 2
  <2>1. ParseNumber(text) = NoNumber
    BY <1>0, <1>1, CountRead
  <2> QED BY <2>1 DEF Unreadable, ParseStrings, Counted, NoNumber
<1>2. CASE Len(text) >= 2
  <2>1. ParseNumber(text) = [ok |-> TRUE, n |-> Len(at) - 1, rest |-> From(text, 3)]
    BY <1>2, CountRead
  <2>2. PICK number : number = ParseNumber(text)
    OBVIOUS
  <2>3. number.n = Len(at) - 1 /\ number.rest = From(text, 3)
    BY <2>1, <2>2
  <2>4. 1 \in 1 .. Len(at) /\ at[1] = 3 /\ 3 <= Len(text) + 1
        /\ Len(at) - 1 \in Nat /\ 1 + (Len(at) - 1) = Len(at)
    BY <1>0, <1>2, StringsAt
  <2>5. ~Strings(From(text, at[1]), Len(at) - 1).ok
    BY <2>4, StringsCut
  <2>6. ~Strings(number.rest, number.n).ok
    BY <2>3, <2>4, <2>5, Zenon
  <2>7. ParseStrings(text).strings = Strings(number.rest, number.n)
    BY <2>2 DEF ParseStrings, Counted
  <2> QED BY <2>6, <2>7, Zenon DEF Unreadable
<1> QED BY <1>0, <1>1, <1>2

\* A count that was read is the number of strings.
LEMMA CountArrived ==
  ASSUME NEW text, NEW whole, NEW at, NEW spare, Received(text, whole, at, spare),
         ParseNumber(text).ok \/ ParseNumber(text).n # 0
  PROVE  /\ Len(text) >= 2 /\ Len(text) \in Nat
         /\ ParseNumber(text).ok /\ ParseNumber(text).n = Len(at) - 1
         /\ ParseNumber(text).rest = From(text, at[1])
         /\ Len(at) \in Nat \ {0} /\ at[1] = 3 /\ at[1] <= Len(text) + 1
<1>0. Len(text) \in Nat
  BY DEF Received
<1>1. Len(text) >= 2
  <2> SUFFICES ASSUME ~(Len(text) >= 2) PROVE FALSE
    OBVIOUS
  <2>1. ParseNumber(text) = NoNumber
    BY CountRead
  <2> QED BY <2>1 DEF NoNumber
<1>2. ParseNumber(text) = [ok |-> TRUE, n |-> Len(at) - 1, rest |-> From(text, 3)]
  BY <1>1, CountRead
<1>3. Len(at) \in Nat \ {0} /\ at[1] = 3
  BY StringsAt
<1>4. /\ ParseNumber(text).ok /\ ParseNumber(text).n = Len(at) - 1
      /\ ParseNumber(text).rest = From(text, 3)
  BY <1>2
<1> QED BY <1>0, <1>1, <1>3, <1>4

\* Of a file, its content or one of the two other strings is missing.
LEMMA FileCut ==
  ASSUME NEW text, NEW whole, NEW at, Received(text, whole, at, 0), Len(text) < Len(whole)
  PROVE  FileContent(text) = Null
<1> DEFINE count == ParseNumber(text)
           content == ParseString(count.rest)
           others == Strings(content.rest, 2)
<1>1. ASSUME count.ok, count.n = 3, content.ok PROVE ~others.ok
  <2>1. /\ Len(text) \in Nat /\ Len(at) = 4 /\ at[1] = 3 /\ at[1] <= Len(text) + 1
        /\ count.rest = From(text, at[1])
    <3>1. /\ Len(text) >= 2 /\ Len(text) \in Nat
          /\ ParseNumber(text).ok /\ ParseNumber(text).n = Len(at) - 1
          /\ ParseNumber(text).rest = From(text, at[1])
          /\ Len(at) \in Nat \ {0} /\ at[1] = 3 /\ at[1] <= Len(text) + 1
      BY <1>1, CountArrived
    <3>2. PICK k \in Nat : k = Len(at)
      BY <3>1
    <3>3. count.n = k - 1
      BY <3>1, <3>2
    <3> QED BY <1>1, <3>1, <3>2, <3>3
  <2>2. 1 \in 1 .. Len(at) - 1 /\ 2 \in 1 .. Len(at) /\ 2 + 2 = Len(at) /\ 1 + 1 = 2
    BY <2>1
  <2>3. content = IF at[2] <= Len(text) + 1
                    THEN [ok |-> TRUE, text |-> SubSeq(text, at[1] + 2, at[2] - 1),
                          rest |-> From(text, at[2])]
                    ELSE NoText
    <3>1. ParseString(From(text, at[1]))
            = IF at[1 + 1] <= Len(text) + 1
                THEN [ok |-> TRUE, text |-> SubSeq(text, at[1] + 2, at[1 + 1] - 1),
                      rest |-> From(text, at[1 + 1])]
                ELSE NoText
      BY <2>1, <2>2, StringRead
    <3> QED BY <2>1, <2>2, <3>1, Zenon
  <2> HIDE DEF count, content
  <2>4. at[2] <= Len(text) + 1
    <3> SUFFICES ASSUME ~(at[2] <= Len(text) + 1) PROVE FALSE
      OBVIOUS
    <3>1. ~NoText.ok
      BY DEF NoText
    <3> QED BY <1>1, <2>3, <3>1, Zenon
  <2>5. content.rest = From(text, at[2])
    BY <2>3, <2>4
  <2>6. ~Strings(From(text, at[2]), 2).ok
    BY <2>2, <2>4, StringsCut
  <2> QED BY <2>5, <2>6, Zenon
<1> QED BY <1>1, Zenon DEF FileContent, ReadIf

\* Of the commands, the size test finds a unit missing.
LEMMA SupportedCut ==
  ASSUME NEW text, NEW whole, NEW at, Received(text, whole, at, 1), Len(text) < Len(whole)
  PROVE  SupportedCommands(text) = Null
<1> DEFINE count == ParseNumber(text)
           length == ParseNumber(count.rest)
<1>1. ASSUME count.ok, count.n = 1, length.ok PROVE Len(length.rest) # length.n + 1
  <2>1. /\ Len(text) \in Nat /\ Len(at) = 2 /\ at[1] = 3 /\ Len(text) >= 2
        /\ count.rest = From(text, at[1])
    <3>1. /\ Len(text) >= 2 /\ Len(text) \in Nat
          /\ ParseNumber(text).ok /\ ParseNumber(text).n = Len(at) - 1
          /\ ParseNumber(text).rest = From(text, at[1])
          /\ Len(at) \in Nat \ {0} /\ at[1] = 3 /\ at[1] <= Len(text) + 1
      BY <1>1, CountArrived
    <3>2. PICK k \in Nat : k = Len(at)
      BY <3>1
    <3>3. count.n = k - 1
      BY <3>1, <3>2
    <3> QED BY <1>1, <3>1, <3>2, <3>3
  <2>2. PICK m \in Nat : m = Len(text) /\ text \in Seq(Unit)
    BY DEF Received
  <2>3. PICK b \in Nat : b = at[2] /\ b = Len(whole) /\ m < b /\ b >= 5 /\ at[1 + 1] = b
    <3>1. at[2] \in Nat /\ at[2] + 1 = Len(whole) + 1
      <4>1. at[Len(at)] + 1 = Len(whole) + 1
        BY StringsAt
      <4>0. Len(at) \in 1 .. Len(at)
        BY <2>1
      <4>2. at[Len(at)] \in Nat
        BY <4>0, StringsAt
      <4> QED BY <2>1, <4>1, <4>2
    <3>2. 1 \in 1 .. Len(at) - 1 /\ 1 + 1 = 2
      BY <2>1
    <3>3. at[1 + 1] >= at[1] + 2
      BY <3>2, StringsAt
    <3>4. Len(whole) \in Nat
      BY DEF Received, Framed
    <3> QED BY <2>1, <2>2, <3>1, <3>2, <3>3, <3>4
  <2>4. /\ whole[3] \in DOMAIN Value /\ Value[whole[3]] = b - 5 /\ whole[4] = ":"
        /\ \A i \in 1 .. m : text[i] = whole[i]
    <3>1. 1 \in 1 .. Len(at) - 1
      BY <2>1
    <3>2. /\ whole[at[1]] \in DOMAIN Value /\ Value[whole[at[1]]] = at[1 + 1] - at[1] - 2
          /\ whole[at[1] + 1] = ":"
      BY <3>1 DEF Received, Framed
    <3>3. \A i \in 1 .. m : text[i] = whole[i]
      BY <2>2 DEF Received
    <3> QED BY <2>1, <2>3, <3>2, <3>3
  <2> DEFINE tail == From(text, at[1])
             l == m - 2
  <2>5. l \in Nat /\ 3 + l = m + 1 /\ 3 \in Nat \ {0}
    BY <2>1, <2>2
  <2> HIDE DEF l
  <2>6. Part(tail, text, 3, l)
    <3>1. Fits(text, 3, Len(text), l)
      BY <2>2, <2>5 DEF Fits
    <3> QED BY <2>1, <3>1, FromIs
  <2> HIDE DEF tail
  <2>7. tail \in Seq(Unit) /\ Len(tail) = l /\ \A i \in 1 .. l : tail[i] = text[3 + i - 1]
    BY <2>6, Zenon DEF Part
  <2>8. tail[1] = whole[3] \/ l = 0
    <3>1. ASSUME l # 0 PROVE tail[1] = whole[3]
      <4>1. 1 \in 1 .. l /\ 3 \in 1 .. m /\ 3 + 1 - 1 = 3
        BY <2>5, <3>1
      <4> QED BY <2>4, <2>7, <4>1
    <3> QED BY <3>1
  <2>9. l >= 2
    <3> SUFFICES ASSUME ~(l >= 2) PROVE FALSE
      OBVIOUS
    <3>1. l = 0 \/ l = 1
      BY <2>5
    <3>2. l = 0 \/ (l = 1 /\ tail[1] # ":")
      BY <2>4, <2>8, <3>1, ValueAssumption
    <3>3. ParseNumber(tail) = NoNumber
      BY <2>5, <2>7, <3>2, NumberMissing
    <3>4. ~NoNumber.ok
      BY DEF NoNumber
    <3> QED BY <1>1, <2>1, <3>3, <3>4, Zenon DEF tail
  <2>10. tail[1] = whole[3] /\ tail[2] = ":"
    <3>1. 2 \in 1 .. l /\ 4 \in 1 .. m /\ 3 + 2 - 1 = 4 /\ l # 0
      BY <2>5, <2>9
    <3>2. tail[2] = text[4]
      BY <2>7, <3>1
    <3> QED BY <2>4, <2>8, <3>1, <3>2
  <2>11. ParseNumber(tail) = [ok |-> TRUE, n |-> Value[tail[1]], rest |-> From(tail, 3)]
    BY <2>4, <2>5, <2>7, <2>9, <2>10, NumberRead
  <2>12. length.n = b - 5 /\ length.rest = From(tail, 3)
    <3>1. length = ParseNumber(tail)
      BY <2>1, Zenon DEF tail
    <3> HIDE DEF length
    <3> QED BY <2>4, <2>10, <2>11, <3>1
  <2> DEFINE r == l - 2
  <2>13. r \in Nat /\ 3 + r = l + 1
    BY <2>5, <2>9
  <2> HIDE DEF r
  <2>14. Part(From(tail, 3), tail, 3, r)
    <3>1. Fits(tail, 3, Len(tail), r)
      BY <2>5, <2>7, <2>13 DEF Fits
    <3> QED BY <3>1, FromIs
  <2>15. Len(From(tail, 3)) = r
    BY <2>14, Zenon DEF Part
  <2> HIDE DEF length
  <2> QED BY <2>3, <2>5, <2>12, <2>13, <2>15
<1>2. \/ ~count.ok \/ count.n # 1 \/ ~length.ok
      \/ Len(length.rest) # length.n + 1
  BY <1>1, Zenon
<1> QED BY <1>2, Zenon DEF SupportedCommands

\* Of a WDDX packet, the packet.
LEMMA PacketCut ==
  ASSUME NEW text, NEW whole, NEW at, Received(text, whole, at, 0), Len(text) < Len(whole)
  PROVE  PacketOf(text) = NUL
<1> DEFINE count == ParseNumber(text)
           xml == ParseCString(count.rest)
<1>1. ASSUME count.n = 1 PROVE ~xml.ok
  <2>0. count.n # 0
    BY <1>1
  <2>1. /\ Len(text) \in Nat /\ Len(at) = 2 /\ at[1] = 3 /\ at[1] <= Len(text) + 1
        /\ count.rest = From(text, at[1])
    <3>1. /\ Len(text) >= 2 /\ Len(text) \in Nat
          /\ ParseNumber(text).ok /\ ParseNumber(text).n = Len(at) - 1
          /\ ParseNumber(text).rest = From(text, at[1])
          /\ Len(at) \in Nat \ {0} /\ at[1] = 3 /\ at[1] <= Len(text) + 1
      BY <2>0, CountArrived
    <3>2. PICK k \in Nat : k = Len(at)
      BY <3>1
    <3>3. count.n = k - 1
      BY <3>1, <3>2
    <3> QED BY <1>1, <3>1, <3>2, <3>3
  <2>2. 1 \in 1 .. Len(at) - 1 /\ 1 + 1 = 2
    BY <2>1
  <2>3. ~(at[1 + 1] <= Len(text) + 1)
    <3>1. at[Len(at)] + 0 = Len(whole) + 1 /\ at[Len(at)] \in Nat
      BY StringsAt
    <3>2. Len(whole) \in Nat
      BY DEF Received, Framed
    <3> QED BY <2>1, <2>2, <3>1, <3>2
  <2>4. ParseString(From(text, at[1])) = NoText
    BY <2>1, <2>2, <2>3, StringRead
  <2>5. ~ParseCString(From(text, at[1])).ok
    BY <2>4 DEF ParseCString, NoText
  <2> QED BY <2>1, <2>5, Zenon
<1> QED BY <1>1, Zenon DEF PacketOf

\* A reply that was cut short is refused by every parser that reads all of it.
LEMMA CutRefused ==
  ASSUME NEW parser \in Parsers \ {"debugger_start"},
         NEW text, NEW whole, NEW at, Received(text, whole, at, Spare(parser)),
         Len(text) < Len(whole)
  PROVE  ParserResult(parser, text).status # "read"
<1>1. CASE parser = "supportedcommands"
  <2>1. Spare(parser) = 1
    BY <1>1 DEF Spare
  <2>2. SupportedCommands(text) = Null
    BY <2>1, SupportedCut
  <2> QED BY <1>1, <2>2, ParserResultIs, NullIsRefused, Zenon
<1>2. CASE parser # "supportedcommands"
  <2>1. Received(text, whole, at, 0)
    BY <1>2, Zenon DEF Spare
  <2>2. \/ parser \in RowParsers
        \/ parser \in {"debugger_stop", "debugger_info", "debugger_event"}
        \/ parser = "file_content"
    BY <1>2 DEF Parsers, RowParsers
  <2>3. Unreadable(ParseStrings(text)) /\ PacketOf(text) = NUL /\ FileContent(text) = Null
    BY <2>1, CutUnreadable, PacketCut, FileCut
  <2>4. ParserResult(parser, text) = Null
    BY <2>2, <2>3, TableRefused, PacketRefused, ParserResultIs, Zenon
  <2> QED BY <2>4, NullIsRefused
<1> QED BY <1>1, <1>2

-----------------------------------------------------------------------------
(* Receiving a reply                                                       *)

\* Until it is parsed, what the buffer holds, what is being appended to it and what
\* has still to come are the reply; the result is the parser's, of all of the reply.
Arriving ==
  /\ ~live => todo = <<>> /\ wire = case.text
  /\ live /\ todo = <<>> /\ ret \in {"none", "true"} => Text \o wire = case.text
  /\ live /\ todo # <<>> => Len(todo) = 1 /\ (Text \o Head(todo)) \o wire = case.text
Results == {NoResult, NoMemory, ParserResult(case.parser, case.text)}
ReplyInv ==
  /\ Terminated /\ case \in Cases /\ wire \in Seq(Unit)
  /\ case.how # "build" =>
       /\ result \in Results
       /\ result = NoResult => Arriving

\* One text after another.
LEMMA Concat ==
  ASSUME NEW s \in Seq(Unit), NEW t \in Seq(Unit)
  PROVE  /\ s \o t \in Seq(Unit) /\ Len(s \o t) = Len(s) + Len(t)
         /\ \A i \in 1 .. Len(s) : (s \o t)[i] = s[i]
         /\ \A i \in 1 .. Len(t) : (s \o t)[Len(s) + i] = t[i]
         /\ <<>> \o s = s /\ s \o <<>> = s
  OBVIOUS

LEMMA ConcatAssociates ==
  ASSUME NEW s \in Seq(Unit), NEW t \in Seq(Unit), NEW u \in Seq(Unit)
  PROVE  (s \o t) \o u = s \o (t \o u)
  OBVIOUS

\* A text taken apart and put together again.
LEMMA SplitJoins ==
  ASSUME NEW text \in Seq(Unit), NEW n \in Nat, n <= Len(text)
  PROVE  /\ SubSeq(text, 1, n) \in Seq(Unit) /\ From(text, n + 1) \in Seq(Unit)
         /\ SubSeq(text, 1, n) \o From(text, n + 1) = text
<1>1. PICK m \in Nat : m = Len(text)
  OBVIOUS
<1> DEFINE s == SubSeq(text, 1, n)
           c == n + 1
           t == From(text, c)
           k == m - n
<1>2. k \in Nat /\ c + k = m + 1 /\ c \in Nat \ {0} /\ 1 + n = n + 1 /\ n + k = m
  BY <1>1
<1> HIDE DEF k, c
<1>3. Fits(text, 1, n, n) /\ Fits(text, c, Len(text), k)
  BY <1>1, <1>2 DEF Fits
<1>4. Part(s, text, 1, n) /\ Part(t, text, c, k)
  BY <1>3, SubIs, FromIs
<1> HIDE DEF s, t
<1>5. /\ s \in Seq(Unit) /\ Len(s) = n /\ t \in Seq(Unit) /\ Len(t) = k
  BY <1>4, Zenon DEF Part
<1>6. Len(s \o t) = m /\ s \o t \in Seq(Unit)
  BY <1>2, <1>5
<1>7. ASSUME NEW i \in 1 .. m PROVE (s \o t)[i] = text[i]
  <2>1. CASE i <= n
    <3>1. i \in 1 .. n /\ 1 + i - 1 = i
      BY <2>1
    <3>2. (s \o t)[i] = s[i] /\ s[i] = text[1 + i - 1]
      BY <1>4, <1>5, <3>1 DEF Part
    <3> QED BY <3>1, <3>2
  <2>2. CASE ~(i <= n)
    <3>1. PICK j \in 1 .. k : i = n + j
      <4>1. i - n \in 1 .. k /\ i = n + (i - n)
        BY <1>1, <1>2, <2>2
      <4> QED BY <4>1
    <3>2. (s \o t)[n + j] = t[j]
      BY <1>5, Concat
    <3>3. t[j] = text[c + j - 1] /\ c + j - 1 = n + j
      BY <1>4, <1>2 DEF Part, c
    <3> QED BY <3>1, <3>2, <3>3
  <2> QED BY <2>1, <2>2
<1>8. s \o t = text
  <2> DEFINE joined == s \o t
  <2> HIDE DEF joined
  <2>1. /\ joined \in Seq(Unit) /\ text \in Seq(Unit) /\ Len(joined) = m /\ Len(text) = m
        /\ \A i \in 1 .. m : joined[i] = text[i]
    BY <1>1, <1>6, <1>7 DEF joined
  <2>2. joined = text
    BY <2>1
  <2> QED BY <2>2 DEF joined
<1> QED BY <1>5, <1>8 DEF s, t, c

\* What the buffer holds.
LEMMA TextIs ==
  ASSUME Terminated
  PROVE  /\ Text \in Seq(Unit) /\ Len(Text) = size
         /\ \A i \in 1 .. size : Text[i] = data[i - 1]
<1>1. size \in Nat /\ \A i \in 1 .. size : data[i - 1] \in Unit
  <2>1. size \in Nat /\ allocated \in Nat /\ size <= allocated /\ data \in [Block -> Unit]
    BY DEF Terminated
  <2>2. ASSUME NEW i \in 1 .. size PROVE i - 1 \in Block
    BY <2>1 DEF Block
  <2> QED BY <2>1, <2>2
<1> QED BY <1>1 DEF Text

\* An append adds its part to the text.
LEMMA AppendAdds ==
  ASSUME Terminated, AppendInPlace \/ AppendGrowing
  PROVE  Terminated' /\ Text' = Text \o Head(todo) /\ Head(todo) \in Seq(Unit)
<1> DEFINE part == Head(todo)
<1>1. /\ todo # <<>> /\ part \in Seq(Unit) /\ size \in Nat /\ allocated \in Nat
      /\ data \in [Block -> Unit]
  BY DEF Terminated, AppendInPlace, AppendGrowing
<1>2. /\ Terminated' /\ \A i \in 0 .. size - 1 : data'[i] = data[i]
  BY AppendInPlaceStep, AppendGrowingStep
<1>3. size' = size + Len(part)
  BY DEF AppendInPlace, AppendGrowing, Stored
<1> HIDE DEF part
<1>4. Len(part) \in Nat
  BY <1>1
<1>5. \A i \in size .. size + Len(part) - 1 : data'[i] = part[i - size + 1]
  <2>1. CASE AppendInPlace
    <3>1. data' = Written(data, part) /\ size + Len(part) <= allocated
      BY <2>1, Zenon DEF AppendInPlace, Enough, part
    <3>2. ASSUME NEW i \in size .. size + Len(part) - 1 PROVE i \in DOMAIN data
      <4>1. i \in Block
        BY <1>1, <1>4, <3>1 DEF Block
      <4> QED BY <1>1, <4>1
    <3> QED BY <1>1, <1>4, <3>1, <3>2 DEF Written
  <2>2. CASE AppendGrowing
    <3>1. PICK newsize : /\ newsize = NewSize(size + Len(part))
                         /\ data' = Written(Reallocated(newsize), part)
                         /\ ~Enough(Len(part)) /\ ~Refuses(Len(part))
      BY <2>2, Zenon DEF AppendGrowing, part
    <3>2. size + Len(part) \in Nat
      BY <1>1, <1>4
    <3>3. newsize \in 0 .. SizeMax
      BY <1>1, <3>1, <3>2, NewSizeBounds
    <3>4. size + Len(part) <= newsize
      <4>1. ~(SizeMax - size < Len(part))
        BY <3>1, Zenon DEF Refuses
      <4>2. size + Len(part) > allocated
        BY <1>1, <1>4, <3>1, <4>1, SizeAssumption DEF Enough
      <4>3. ~(NewSize(size + Len(part)) < size + Len(part))
        BY <3>1, <4>2, Zenon DEF Refuses
      <4> QED BY <3>1, <3>2, <3>3, <4>3, SizeAssumption
    <3>5. DOMAIN Reallocated(newsize) = 0 .. newsize
      BY DEF Reallocated
    <3> DEFINE block == Reallocated(newsize)
    <3> HIDE DEF block
    <3>6. \A i \in size .. size + Len(part) - 1 : i \in DOMAIN block
      BY <1>1, <1>4, <3>3, <3>4, <3>5, SizeAssumption DEF block
    <3>7. data' = Written(block, part)
      BY <3>1 DEF block
    <3> QED BY <1>1, <1>4, <3>6, <3>7 DEF Written
  <2> QED BY <2>1, <2>2
<1>6. /\ Text \in Seq(Unit) /\ Len(Text) = size /\ \A i \in 1 .. size : Text[i] = data[i - 1]
  BY TextIs
<1>7. /\ Text' \in Seq(Unit) /\ Len(Text') = size'
      /\ \A i \in 1 .. size' : Text'[i] = data'[i - 1]
  <2>1. size' \in Nat /\ allocated' \in Nat /\ size' <= allocated'
        /\ data' \in [Block' -> Unit]
    BY <1>2 DEF Terminated
  <2>2. ASSUME NEW i \in 1 .. size' PROVE i - 1 \in Block'
    BY <2>1 DEF Block
  <2>3. \A i \in 1 .. size' : data'[i - 1] \in Unit
    BY <2>1, <2>2
  <2> QED BY <2>1, <2>3 DEF Text
<1>8. PICK old \in Seq(Unit) : old = Text /\ Len(old) = size
                              /\ \A i \in 1 .. size : old[i] = data[i - 1]
  BY <1>6
<1>9. PICK new \in Seq(Unit) : new = Text' /\ Len(new) = size + Len(part)
                              /\ \A i \in 1 .. size + Len(part) : new[i] = data'[i - 1]
  BY <1>3, <1>7
<1>10. ASSUME NEW i \in 1 .. size + Len(part) PROVE new[i] = (old \o part)[i]
  <2>1. CASE i <= size
    <3>1. i \in 1 .. size /\ i - 1 \in 0 .. size - 1
      BY <1>1, <1>4, <2>1
    <3>2. (old \o part)[i] = old[i]
      BY <1>1, <1>8, <3>1, Concat
    <3> QED BY <1>2, <1>8, <1>9, <3>1, <3>2
  <2>2. CASE ~(i <= size)
    <3>1. PICK j \in 1 .. Len(part) : i = size + j
      <4>1. i - size \in 1 .. Len(part) /\ i = size + (i - size)
        BY <1>1, <1>4, <2>2
      <4> QED BY <4>1
    <3>2. (old \o part)[size + j] = part[j]
      BY <1>1, <1>8, Concat
    <3>3. i - 1 \in size .. size + Len(part) - 1 /\ (i - 1) - size + 1 = j
      BY <1>1, <1>4, <3>1
    <3>4. data'[i - 1] = part[j]
      BY <1>5, <3>3
    <3> QED BY <1>9, <3>1, <3>2, <3>4
  <2> QED BY <2>1, <2>2
<1>11. new = old \o part
  <2> DEFINE joined == old \o part
  <2>1. joined \in Seq(Unit) /\ Len(joined) = size + Len(part)
    BY <1>1, <1>8, Concat
  <2>2. \A i \in 1 .. size + Len(part) : new[i] = joined[i]
    BY <1>10
  <2> HIDE DEF joined
  <2>3. new = joined
    BY <1>1, <1>4, <1>9, <2>1, <2>2
  <2> QED BY <2>3 DEF joined
<1> QED BY <1>1, <1>2, <1>8, <1>9, <1>11 DEF part

-----------------------------------------------------------------------------
(* The invariant                                                           *)

\* The invariant when a reply begins to arrive.
LEMMA ReplyInit == Init => ReplyInv
<1> SUFFICES ASSUME Init PROVE ReplyInv
  OBVIOUS
<1>1. case \in Cases /\ wire = case.text /\ result = NoResult /\ ~live /\ todo = <<>>
  BY Zenon DEF Init, BufferInit
<1>2. wire \in Seq(Unit)
  BY <1>1, CasesAssumption
<1>3. Terminated
  BY BufferStarts, Zenon DEF Init
<1>4. result \in Results
  BY <1>1, Zenon DEF Results
<1>5. Arriving
  BY <1>1, Zenon DEF Arriving
<1> QED BY <1>1, <1>2, <1>3, <1>4, <1>5, Zenon DEF ReplyInv

\* After the only part of a call there is no other.
LEMMA OnlyPart ==
  ASSUME NEW S, NEW s \in Seq(S), Len(s) = 1, NEW t, t = Tail(s)
  PROVE  t = <<>>
<1>1. t \in Seq(S) /\ Len(t) = 0
  OBVIOUS
<1> QED BY <1>1

\* An append, of a reply or of anything else.
LEMMA ReplyAppend ==
  ASSUME ReplyInv, AppendInPlace \/ AppendGrowing, UNCHANGED replyVars
  PROVE  ReplyInv'
<1>1. Terminated' /\ Text' = Text \o Head(todo)
  BY AppendAdds, Zenon DEF ReplyInv
<1>2. UNCHANGED <<case, wire, result>>
  BY Zenon DEF replyVars
<1>3. /\ todo # <<>> /\ todo' = Tail(todo) /\ live' = live
  BY DEF AppendInPlace, AppendGrowing, Stored
<1>4. ASSUME case.how # "build", result = NoResult PROVE Arriving'
  <2>1. Arriving
    BY <1>4, Zenon DEF ReplyInv
  <2>2. live /\ Len(todo) = 1 /\ (Text \o Head(todo)) \o wire = case.text
    BY <1>3, <2>1, Zenon DEF Arriving
  <2>3. todo \in Seq(Seq(Unit))
    BY Zenon DEF ReplyInv, Terminated
  <2>4. todo' = <<>>
    BY <1>3, <2>2, <2>3, OnlyPart
  <2>5. Text' \o wire' = case'.text
    BY <1>1, <1>2, <2>2, Zenon
  <2>6. live'
    BY <1>3, <2>2, Zenon
  <2> QED BY <2>4, <2>5, <2>6, Zenon DEF Arriving
<1>5. case' \in Cases /\ wire' \in Seq(Unit)
  BY <1>2, Zenon DEF ReplyInv
<1>6. case'.how # "build" => result' \in Results' /\ (result' = NoResult => Arriving')
  <2> SUFFICES ASSUME case'.how # "build"
               PROVE  result' \in Results' /\ (result' = NoResult => Arriving')
    OBVIOUS
  <2>1. case.how # "build"
    BY <1>2, Zenon
  <2>2. result' \in Results'
    BY <1>2, <2>1, Zenon DEF ReplyInv, Results
  <2> QED BY <1>2, <1>4, <2>1, <2>2, Zenon
<1> QED BY <1>1, <1>5, <1>6, Zenon DEF ReplyInv

\* The steps that receive nothing and parse nothing: what they leave of a reply.
LEMMA ReplyKept ==
  ASSUME ReplyInv, Terminated', UNCHANGED replyVars,
         case.how # "build" /\ result = NoResult => Arriving'
  PROVE  ReplyInv'
<1>1. UNCHANGED <<case, wire, result>>
  BY Zenon DEF replyVars
<1>2. case' \in Cases /\ wire' \in Seq(Unit)
  BY <1>1, Zenon DEF ReplyInv
<1>3. ASSUME case'.how # "build" PROVE result' \in Results' /\ (result' = NoResult => Arriving')
  <2>1. case.how # "build"
    BY <1>1, <1>3, Zenon
  <2>2. result' \in Results'
    BY <1>1, <2>1, Zenon DEF ReplyInv, Results
  <2> QED BY <1>1, <2>1, <2>2, Zenon
<1> QED BY <1>2, <1>3, Zenon DEF ReplyInv

\* An append that fails leaves a buffer that is not parsed.
LEMMA ReplyAppendFails ==
  ASSUME ReplyInv, AppendFails, UNCHANGED replyVars
  PROVE  ReplyInv'
<1>1. PICK how \in {"refused", "no_memory"} : Failed(how)
  BY DEF AppendFails
<1>2. Terminated'
  BY <1>1, FailedKeeps, Zenon DEF ReplyInv
<1>3. todo # <<>> /\ todo' = <<>> /\ ret' \notin {"none", "true"} /\ live' = live
  BY <1>1 DEF AppendFails, Failed
<1>4. ASSUME case.how # "build", result = NoResult PROVE Arriving'
  <2>1. Arriving
    BY <1>4, Zenon DEF ReplyInv
  <2>2. live'
    BY <1>3, <2>1, Zenon DEF Arriving
  <2> QED BY <1>3, <2>2, Zenon DEF Arriving
<1> QED BY <1>2, <1>4, ReplyKept

\* A new buffer holds nothing of the reply.
LEMMA ReplyCreate ==
  ASSUME ReplyInv, Create, UNCHANGED replyVars
  PROVE  ReplyInv'
<1>1. Terminated'
  <2>1. Terminated /\ [BufferNext]_bufferVars
    BY Zenon DEF ReplyInv, BufferNext, BufferCalls
  <2> QED BY <2>1, NextStep
<1>2. ~live /\ todo' = <<>> /\ live' /\ size' = 0
  BY DEF Create
<1>3. ASSUME case.how # "build", result = NoResult PROVE Arriving'
  <2>1. wire = case.text /\ wire \in Seq(Unit)
    BY <1>2, <1>3, Zenon DEF ReplyInv, Arriving
  <2>2. Text' = <<>>
    BY <1>2 DEF Text
  <2>3. <<>> \o wire = wire
    BY <2>1, Concat
  <2>4. wire' = wire /\ case' = case
    BY Zenon DEF replyVars
  <2>5. Text' \o wire' = case'.text
    BY <2>1, <2>2, <2>3, <2>4, Zenon
  <2> QED BY <1>2, <2>5, Zenon DEF Arriving
<1> QED BY <1>1, <1>3, ReplyKept

\* A buffer that holds a reply is freed after it was parsed.
LEMMA ReplyFree ==
  ASSUME ReplyInv, BufferCalls, case.how = "build" \/ result # NoResult, UNCHANGED replyVars
  PROVE  ReplyInv'
<1>1. Terminated'
  <2>1. Terminated /\ [BufferNext]_bufferVars
    BY Zenon DEF ReplyInv, BufferNext
  <2> QED BY <2>1, NextStep
<1> QED BY <1>1, ReplyKept

\* What one recv() returns is the next part of the reply.
LEMMA ReplyReceive ==
  ASSUME ReplyInv, Receive
  PROVE  ReplyInv'
<1> DEFINE n == IF Len(wire) < ReadSize THEN Len(wire) ELSE ReadSize
<1>1. /\ live /\ todo = <<>> /\ case.how # "build" /\ result = NoResult /\ ret \in {"none", "true"}
      /\ wire # <<>> /\ UNCHANGED <<calls, case, result>>
  BY Zenon DEF Receive, Receiving
<1>2. Begin(<<SubSeq(wire, 1, n)>>) /\ wire' = From(wire, n + 1)
  BY Zenon DEF Receive
<1>3. Terminated /\ wire \in Seq(Unit) /\ case \in Cases /\ Arriving /\ result \in Results
  BY <1>1, Zenon DEF ReplyInv
<1>4. n \in Nat /\ n <= Len(wire)
  BY <1>3, LimitAssumption
<1> HIDE DEF n
<1> DEFINE part == SubSeq(wire, 1, n)
<1>5. part \in Seq(Unit) /\ wire' \in Seq(Unit) /\ part \o wire' = wire
  BY <1>2, <1>3, <1>4, SplitJoins
<1> HIDE DEF part
<1>6. /\ live' = live /\ UNCHANGED <<allocated, size, data>>
      /\ todo' = <<part>> /\ ret' = "pending"
  BY <1>2 DEF Begin, part
<1>7. Terminated'
  <2>1. todo' \in Seq(Seq(Unit)) /\ ret' \in Returns
    BY <1>5, <1>6 DEF Returns
  <2> QED BY <1>3, <1>6, <2>1 DEF Terminated, Block
<1>8. Text' = Text
  BY <1>6, Zenon DEF Text
<1>9. todo' # <<>> /\ Len(todo') = 1 /\ Head(todo') = part
  BY <1>5, <1>6
<1>10. (Text' \o Head(todo')) \o wire' = case'.text
  <2>1. Text \in Seq(Unit)
    BY <1>3, TextIs
  <2>2. (Text \o part) \o wire' = Text \o (part \o wire')
    BY <1>5, <2>1, ConcatAssociates
  <2>3. Text \o wire = case.text
    BY <1>1, <1>3, Zenon DEF Arriving
  <2>4. (Text \o part) \o wire' = case.text
    BY <1>5, <2>2, <2>3, Zenon
  <2> QED BY <1>1, <1>8, <1>9, <2>4, Zenon
<1>11. Arriving'
  BY <1>1, <1>6, <1>9, <1>10, Zenon DEF Arriving
<1>12. result' \in Results' /\ case' \in Cases
  BY <1>1, <1>3, Zenon DEF Results
<1> QED BY <1>5, <1>7, <1>11, <1>12, Zenon DEF ReplyInv

\* What is parsed is the whole reply.
LEMMA ReplyParse ==
  ASSUME ReplyInv, Parse \/ ReceiveFails
  PROVE  ReplyInv'
<1>1. /\ live /\ todo = <<>> /\ case.how # "build" /\ result = NoResult
      /\ UNCHANGED <<bufferVars, case, wire>>
  BY Zenon DEF Parse, ReceiveFails, Receiving
<1>2. Terminated /\ wire \in Seq(Unit) /\ case \in Cases /\ Arriving
  BY <1>1, Zenon DEF ReplyInv
<1>3. Terminated' /\ Arriving'
  <2>1. UNCHANGED <<live, allocated, size, data, todo, ret>>
    BY <1>1, Zenon DEF bufferVars
  <2>2. Block' = Block /\ Text' = Text
    BY <2>1, Zenon DEF Block, Text
  <2>3. Terminated'
    BY <1>2, <2>1, <2>2, Zenon DEF Terminated
  <2>4. Arriving'
    BY <1>1, <1>2, <2>1, <2>2, Zenon DEF Arriving
  <2> QED BY <2>3, <2>4
<1>4. result' \in {NoMemory, ParserResult(case.parser, case.text)}
  <2>1. CASE Parse
    <3>1. wire = <<>> /\ ret \in {"none", "true"}
          /\ result' \in {NoMemory, ParserResult(case.parser, Text)}
      BY <2>1, Zenon DEF Parse
    <3>2. Text \o <<>> = case.text
      BY <1>1, <1>2, <3>1, Zenon DEF Arriving
    <3>3. Text \in Seq(Unit)
      BY <1>2, TextIs
    <3>4. Text = case.text
      BY <3>2, <3>3, Concat
    <3> QED BY <3>1, <3>4, Zenon
  <2>2. CASE ReceiveFails
    BY <2>2, Zenon DEF ReceiveFails
  <2> QED BY <2>1, <2>2
<1>5. result' \in Results' /\ case' \in Cases /\ wire' \in Seq(Unit)
  BY <1>1, <1>2, <1>4, Zenon DEF Results
<1> QED BY <1>3, <1>5, Zenon DEF ReplyInv

\* Every step.
LEMMA ReplyNext ==
  ASSUME ReplyInv, [Next]_allVars
  PROVE  ReplyInv'
<1>1. CASE BufferUse
  <2>0. UNCHANGED replyVars
    BY <1>1, Zenon DEF BufferUse
  <2>1. CASE BufferStep
    BY <2>0, <2>1, ReplyAppend, ReplyAppendFails, Zenon DEF BufferStep
  <2>2. CASE case.how = "build" /\ BufferCalls
    BY <2>0, <2>2, ReplyFree, Zenon
  <2>3. CASE Create
    BY <2>0, <2>3, ReplyCreate, Zenon
  <2>4. CASE result # NoResult /\ Free
    <3>1. BufferCalls
      BY <2>4, Zenon DEF BufferCalls
    <3> QED BY <2>0, <2>4, <3>1, ReplyFree, Zenon
  <2> QED BY <1>1, <2>1, <2>2, <2>3, <2>4, Zenon DEF BufferUse
<1>2. CASE UNCHANGED allVars
  <2>1. UNCHANGED bufferVars /\ UNCHANGED replyVars
    BY <1>2, Zenon DEF allVars
  <2>2. UNCHANGED <<live, todo, ret>> /\ Text' = Text /\ UNCHANGED <<case, wire>>
    BY <2>1, Zenon DEF bufferVars, replyVars, Text
  <2>3. Terminated'
    BY <2>1, NextStep, Zenon DEF ReplyInv
  <2>4. case.how # "build" /\ result = NoResult => Arriving'
    BY <2>2, Zenon DEF ReplyInv, Arriving
  <2> QED BY <2>1, <2>3, <2>4, ReplyKept
<1> QED BY <1>1, <1>2, ReplyReceive, ReplyParse, Zenon DEF Next

(* However a reply is split over recv() calls, the buffer holds the units      *)
(* received, in order, and what is parsed is all of the reply.                 *)
THEOREM ReplyInvariance == Spec => []ReplyInv
<1>1. Init => ReplyInv
  BY ReplyInit
<1>2. ReplyInv /\ [Next]_allVars => ReplyInv'
  BY ReplyNext
<1> QED BY <1>1, <1>2, PTL DEF Spec

(* Also while a reply is received, the block holds its text and a zero.        *)
THEOREM ReplyIsTerminated == Spec => []Terminated
<1>1. ReplyInv => Terminated
  BY Zenon DEF ReplyInv
<1> QED BY <1>1, ReplyInvariance, PTL

(* Also while a reply is received, no step changes the text already there.     *)
THEOREM ReplyKeepsItsText == Spec => TextIsKept
<1>1. ASSUME Terminated, [Next]_allVars
      PROVE  [live /\ live' => /\ size' >= size
                              /\ \A i \in 0 .. size - 1 : data'[i] = data[i]]_bufferVars
  <2>1. CASE [BufferNext]_bufferVars
    BY <1>1, <2>1, NextStep
  <2>2. CASE UNCHANGED <<size, data>>
    <3>1. size' >= size
      BY <1>1, <2>2 DEF Terminated
    <3> QED BY <2>2, <3>1
  <2>3. [BufferNext]_bufferVars \/ UNCHANGED <<size, data>>
    <3>1. CASE BufferUse
      BY <3>1, Zenon DEF BufferUse, BufferNext, BufferCalls
    <3>2. CASE Receive
      BY <3>2, Zenon DEF Receive, Begin
    <3>3. CASE Parse \/ ReceiveFails \/ UNCHANGED allVars
      BY <3>3, Zenon DEF Parse, ReceiveFails, allVars
    <3> QED BY <1>1, <3>1, <3>2, <3>3, Zenon DEF Next
  <2> QED BY <2>1, <2>2, <2>3
<1>2. Terminated /\ [Next]_allVars
        => [live /\ live' => /\ size' >= size
                            /\ \A i \in 0 .. size - 1 : data'[i] = data[i]]_bufferVars
  BY <1>1
<1> QED BY <1>2, ReplyIsTerminated, PTL DEF Spec, TextIsKept

(* Also while a reply is received, a refusal means that SIZE_MAX was near.     *)
THEOREM ReplyRefusedNearTheLimit == Spec => RefusedNearTheLimit
<1>1. ASSUME Terminated, [Next]_allVars
      PROVE  [todo # <<>> /\ ret' = "refused" =>
                size + Len(Head(todo)) + Half + Chunk >= SizeMax]_bufferVars
  <2>1. CASE BufferNext
    BY <1>1, <2>1, RefusalStep
  <2>2. CASE ret' = "pending"
    BY <2>2
  <2>3. BufferNext \/ ret' = "pending" \/ UNCHANGED bufferVars
    <3>1. CASE BufferUse
      BY <3>1, Zenon DEF BufferUse, BufferNext, BufferCalls
    <3>2. CASE Receive
      BY <3>2 DEF Receive, Begin
    <3>3. CASE Parse \/ ReceiveFails \/ UNCHANGED allVars
      BY <3>3, Zenon DEF Parse, ReceiveFails, allVars
    <3> QED BY <1>1, <3>1, <3>2, <3>3, Zenon DEF Next
  <2> QED BY <2>1, <2>2, <2>3
<1>2. Terminated /\ [Next]_allVars
        => [todo # <<>> /\ ret' = "refused" =>
              size + Len(Head(todo)) + Half + Chunk >= SizeMax]_bufferVars
  BY <1>1
<1> QED BY <1>2, ReplyIsTerminated, PTL DEF Spec, RefusedNearTheLimit

(* A reply that was cut short, wherever, and one with its HTTP header in front *)
(* is taken for a table by no parser but debugger_start, which does not look   *)
(* at the last string.                                                         *)
THEOREM BrokenIsRefused == Spec => []BrokenReplyIsRefused
<1>1. ASSUME ReplyInv PROVE BrokenReplyIsRefused
  <2> SUFFICES ASSUME case.how \in {"cut", "header"}, result.status = "read",
                      ~(case.how = "cut" /\ case.parser = "debugger_start")
               PROVE  FALSE
    BY DEF BrokenReplyIsRefused
  <2>1. case \in Cases /\ result \in Results /\ case.how # "build"
    BY <1>1 DEF ReplyInv
  <2>2. case.text \in Seq(Unit) /\ case.parser \in Parsers
    BY <2>1, CasesAssumption
  <2>3. NoResult.status # "read" /\ NoMemory.status # "read"
    BY DEF NoResult, NoMemory
  <2>4. result = ParserResult(case.parser, case.text)
    BY <2>1, <2>3, Zenon DEF Results
  <2>5. CASE case.how = "header"
    <3>1. case.text # <<>> /\ case.text[1] \notin DOMAIN Value \cup {":"}
      BY <2>1, <2>5, CasesAssumption
    <3>2. Len(case.text) \in Nat
      BY <2>2
    <3>3. ParseNumber(case.text) = NoNumber
      BY <2>2, <3>1, <3>2, NumberMissing
    <3>4. ParserResult(case.parser, case.text).status # "read"
      BY <2>2, <3>3, HeaderRefused
    <3> QED BY <2>4, <3>4
  <2>6. CASE case.how = "cut"
    <3>1. /\ Framed(case.whole, case.at, Spare(case.parser))
          /\ Len(case.text) < Len(case.whole)
          /\ \A i \in DOMAIN case.text : case.text[i] = case.whole[i]
      BY <2>1, <2>6, CasesAssumption, Zenon
    <3>2. Spare(case.parser) \in Nat
      BY DEF Spare
    <3>3. Len(case.text) <= Len(case.whole) /\ DOMAIN case.text = 1 .. Len(case.text)
      <4>1. case.whole \in Seq(Unit)
        BY <3>1, Zenon DEF Framed
      <4>2. Len(case.whole) \in Nat /\ Len(case.text) \in Nat
        BY <2>2, <4>1
      <4> QED BY <2>2, <3>1, <4>2
    <3>4. Received(case.text, case.whole, case.at, Spare(case.parser))
      BY <2>2, <3>1, <3>2, <3>3, Zenon DEF Received
    <3>5. case.parser \in Parsers \ {"debugger_start"}
      BY <2>2, <2>6
    <3>6. ParserResult(case.parser, case.text).status # "read"
      BY <3>1, <3>4, <3>5, CutRefused
    <3> QED BY <2>4, <3>6
  <2> QED BY <2>5, <2>6
<1> QED BY <1>1, ReplyInvariance, PTL

-----------------------------------------------------------------------------
(* What the appends of a call make                                         *)

\* Two lists, one after the other.
LEMMA Lists ==
  ASSUME NEW S, NEW s \in Seq(S), NEW t \in Seq(S)
  PROVE  /\ s \o t \in Seq(S) /\ Len(s \o t) = Len(s) + Len(t)
         /\ \A i \in 1 .. Len(s) : (s \o t)[i] = s[i] /\ s[i] \in S
         /\ \A i \in 1 .. Len(t) : (s \o t)[Len(s) + i] = t[i]
  OBVIOUS

\* The text after each of the first n parts of a list.
Grown(parts, n, f) ==
  /\ DOMAIN f = 0 .. n /\ f[0] = <<>>
  /\ \A i \in 0 .. n : f[i] \in Seq(Unit)
  /\ \A i \in 1 .. n : f[i] = f[i - 1] \o parts[i]

\* Parts can be appended one after another, and FlattenSeq is where that ends.
LEMMA PartsGrow ==
  ASSUME NEW parts \in Seq(Seq(Unit))
  PROVE  \E f : Grown(parts, Len(parts), f)
<1>0. PICK m \in Nat : Len(parts) = m
  OBVIOUS
<1>1. \A i \in 1 .. m : parts[i] \in Seq(Unit)
  BY <1>0, Lists
<1> DEFINE T == {n \in Nat : n <= m => \E f : Grown(parts, n, f)}
<1>2. 0 \in T
  <2> DEFINE f == [i \in 0 .. 0 |-> <<>>]
  <2>1. <<>> \in Seq(Unit)
    OBVIOUS
  <2>2. Grown(parts, 0, f)
    BY <2>1 DEF Grown
  <2> QED BY <2>2
<1>3. ASSUME NEW n \in Nat, n \in T PROVE n + 1 \in T
  <2> SUFFICES ASSUME n + 1 <= m PROVE \E f : Grown(parts, n + 1, f)
    OBVIOUS
  <2>0. n <= m /\ n \in 0 .. n /\ n + 1 \in 1 .. m
    OBVIOUS
  <2>1. PICK f : Grown(parts, n, f)
    BY <1>3, <2>0
  <2>2. PICK last \in Seq(Unit) : last = f[n] \o parts[n + 1]
    BY <1>1, <2>0, <2>1, Concat DEF Grown
  <2> DEFINE g == [i \in 0 .. n + 1 |-> IF i <= n THEN f[i] ELSE last]
  <2>3. /\ DOMAIN g = 0 .. n + 1 /\ g[0] = <<>>
        /\ \A i \in 0 .. n + 1 : g[i] \in Seq(Unit)
        /\ \A i \in 0 .. n : g[i] = f[i]
        /\ g[n + 1] = last
    BY <2>1 DEF Grown
  <2> HIDE DEF g
  <2>4. ASSUME NEW i \in 1 .. n + 1 PROVE g[i] = g[i - 1] \o parts[i]
    <3>1. CASE i <= n
      <4>1. i \in 1 .. n /\ i - 1 \in 0 .. n /\ i \in 0 .. n
        BY <3>1
      <4>2. g[i] = f[i] /\ g[i - 1] = f[i - 1]
        BY <2>3, <4>1
      <4> QED BY <2>1, <4>1, <4>2 DEF Grown
    <3>2. CASE ~(i <= n)
      <4>1. i = n + 1 /\ i - 1 = n
        BY <3>2
      <4> QED BY <2>0, <2>2, <2>3, <4>1
    <3> QED BY <3>1, <3>2
  <2>5. Grown(parts, n + 1, g)
    BY <2>3, <2>4, Zenon DEF Grown
  <2> QED BY <2>5
<1> HIDE DEF T
<1>4. \A n \in Nat : n \in T
  BY <1>2, <1>3, NatSetInduction
<1>5. m <= m
  OBVIOUS
<1> QED BY <1>0, <1>4, <1>5 DEF T

LEMMA FlattenGrows ==
  ASSUME NEW parts \in Seq(Seq(Unit)), NEW f, Grown(parts, Len(parts), f)
  PROVE  FlattenSeq(parts) = f[Len(parts)] /\ FlattenSeq(parts) \in Seq(Unit)
<1>0. PICK m \in Nat : Len(parts) = m
  OBVIOUS
<1>1. f[m] \in Seq(Unit)
  <2>1. m \in 0 .. m
    OBVIOUS
  <2> QED BY <1>0, <2>1 DEF Grown
<1>2. CASE m = 0
  <2>1. FlattenSeq(parts) = parts
    BY <1>0, <1>2 DEF FlattenSeq
  <2>2. parts = <<>> /\ f[0] = <<>>
    BY <1>0, <1>2 DEF Grown
  <2> QED BY <1>0, <1>1, <1>2, <2>1, <2>2
<1>3. CASE m # 0
  <2> DEFINE flat == CHOOSE g : g = [i \in 1 .. m |-> IF i = 1 THEN parts[i]
                                                       ELSE g[i - 1] \o parts[i]]
             g0 == [i \in 1 .. m |-> f[i]]
  <2>1. FlattenSeq(parts) = flat[m]
    BY <1>0, <1>3 DEF FlattenSeq
  <2>2. g0 = [i \in 1 .. m |-> IF i = 1 THEN parts[i] ELSE g0[i - 1] \o parts[i]]
    <3>1. ASSUME NEW i \in 1 .. m
          PROVE  g0[i] = IF i = 1 THEN parts[i] ELSE g0[i - 1] \o parts[i]
      <4>1. f[i] = f[i - 1] \o parts[i] /\ f[0] = <<>> /\ parts[i] \in Seq(Unit)
        BY <1>0, Lists DEF Grown
      <4>2. CASE i = 1
        <5>1. i - 1 = 0 /\ <<>> \o parts[i] = parts[i]
          BY <4>1, <4>2, Concat
        <5> QED BY <4>1, <4>2, <5>1
      <4>3. CASE i # 1
        <5>1. i - 1 \in 1 .. m
          BY <4>3
        <5>2. g0[i - 1] = f[i - 1] /\ g0[i] = f[i]
          BY <5>1
        <5> QED BY <4>1, <4>3, <5>2
      <4> QED BY <4>2, <4>3
    <3>2. g0 = [i \in 1 .. m |-> g0[i]]
      OBVIOUS
    <3> HIDE DEF g0
    <3> QED BY <3>1, <3>2
  <2> HIDE DEF g0
  <2>3. flat = [i \in 1 .. m |-> IF i = 1 THEN parts[i] ELSE flat[i - 1] \o parts[i]]
    BY <2>2
  <2> HIDE DEF flat
  <2> DEFINE T == {i \in Nat : i \in 1 .. m => flat[i] = f[i]}
  <2>4. 0 \in T
    OBVIOUS
  <2>5. ASSUME NEW i \in Nat, i \in T PROVE i + 1 \in T
    <3> SUFFICES ASSUME i + 1 \in 1 .. m PROVE flat[i + 1] = f[i + 1]
      OBVIOUS
    <3>0. (i + 1) - 1 = i /\ i + 1 \in 1 .. m
      OBVIOUS
    <3>1. f[i + 1] = f[i] \o parts[i + 1] /\ f[0] = <<>> /\ parts[i + 1] \in Seq(Unit)
      BY <1>0, <3>0, Lists DEF Grown
    <3>2. flat[i + 1] = IF i = 0 THEN parts[i + 1] ELSE flat[i] \o parts[i + 1]
      <4>1. i + 1 = 1 <=> i = 0
        OBVIOUS
      <4> QED BY <2>3, <3>0, <4>1
    <3>3. CASE i = 0
      <4>1. <<>> \o parts[i + 1] = parts[i + 1]
        BY <3>1, Concat
      <4> QED BY <3>1, <3>2, <3>3, <4>1
    <3>4. CASE i # 0
      <4>1. i \in 1 .. m
        BY <3>4
      <4> QED BY <2>5, <3>1, <3>2, <3>4, <4>1
    <3> QED BY <3>3, <3>4
  <2> HIDE DEF T
  <2>6. \A i \in Nat : i \in T
    BY <2>4, <2>5, NatSetInduction
  <2>7. flat[m] = f[m]
    <3>1. m \in 1 .. m
      BY <1>3
    <3> QED BY <2>6, <3>1 DEF T
  <2> QED BY <1>0, <1>1, <2>1, <2>7
<1> QED BY <1>2, <1>3

\* One list of parts after another.
LEMMA FlattenConcat ==
  ASSUME NEW a \in Seq(Seq(Unit)), NEW b \in Seq(Seq(Unit))
  PROVE  FlattenSeq(a \o b) = FlattenSeq(a) \o FlattenSeq(b)
<1>0. PICK m \in Nat, n \in Nat : Len(a) = m /\ Len(b) = n
  OBVIOUS
<1> DEFINE c == a \o b
<1>1. /\ c \in Seq(Seq(Unit)) /\ Len(c) = m + n
      /\ \A i \in 1 .. m : c[i] = a[i]
      /\ \A i \in 1 .. n : c[m + i] = b[i]
  <2> HIDE DEF c
  <2>1. a \o b \in Seq(Seq(Unit)) /\ Len(a \o b) = Len(a) + Len(b)
    BY Lists
  <2>2. /\ \A i \in 1 .. Len(a) : (a \o b)[i] = a[i]
        /\ \A i \in 1 .. Len(b) : (a \o b)[Len(a) + i] = b[i]
    BY Lists
  <2> QED BY <1>0, <2>1, <2>2, Zenon DEF c
<1> HIDE DEF c
<1>2. PICK f, g, h : Grown(a, m, f) /\ Grown(b, n, g) /\ Grown(c, m + n, h)
  BY <1>0, <1>1, PartsGrow
<1>3. /\ FlattenSeq(a) = f[m] /\ FlattenSeq(b) = g[n] /\ FlattenSeq(c) = h[m + n]
  BY <1>0, <1>1, <1>2, FlattenGrows
<1> DEFINE T == {i \in Nat : i <= m => h[i] = f[i]}
<1>4. \A i \in Nat : i \in T
  <2>1. 0 \in T
    BY <1>2 DEF Grown
  <2>2. ASSUME NEW i \in Nat, i \in T PROVE i + 1 \in T
    <3> SUFFICES ASSUME i + 1 <= m PROVE h[i + 1] = f[i + 1]
      OBVIOUS
    <3>1. i + 1 \in 1 .. m /\ i + 1 \in 1 .. m + n /\ (i + 1) - 1 = i /\ i <= m
      OBVIOUS
    <3>2. h[i + 1] = h[i] \o c[i + 1] /\ f[i + 1] = f[i] \o a[i + 1]
      BY <1>0, <1>1, <1>2, <3>1 DEF Grown
    <3> QED BY <1>1, <2>2, <3>1, <3>2
  <2> HIDE DEF T
  <2> QED BY <2>1, <2>2, NatSetInduction
<1>5. h[m] = f[m] /\ f[m] \in Seq(Unit)
  <2>1. m <= m /\ m \in 0 .. m
    OBVIOUS
  <2> QED BY <1>0, <1>2, <1>4, <2>1 DEF Grown
<1> HIDE DEF T
<1> DEFINE U == {i \in Nat : i <= n => h[m + i] = f[m] \o g[i]}
<1>6. \A i \in Nat : i \in U
  <2>1. 0 \in U
    <3>1. g[0] = <<>> /\ f[m] \o <<>> = f[m] /\ m + 0 = m
      BY <1>2, <1>5, Concat DEF Grown
    <3> QED BY <1>5, <3>1
  <2>2. ASSUME NEW i \in Nat, i \in U PROVE i + 1 \in U
    <3>0. i + 1 \in Nat
      OBVIOUS
    <3> SUFFICES ASSUME i + 1 <= n PROVE h[m + (i + 1)] = f[m] \o g[i + 1]
      BY <3>0, Zenon
    <3>1. /\ i + 1 \in 1 .. n /\ (i + 1) - 1 = i /\ i <= n /\ i \in 0 .. n
          /\ m + (i + 1) \in 1 .. m + n /\ (m + (i + 1)) - 1 = m + i
      OBVIOUS
    <3>2. /\ h[m + (i + 1)] = h[m + i] \o c[m + (i + 1)] /\ g[i + 1] = g[i] \o b[i + 1]
      BY <1>0, <1>1, <1>2, <3>1 DEF Grown
    <3>3. h[m + i] = f[m] \o g[i] /\ c[m + (i + 1)] = b[i + 1]
      BY <1>1, <2>2, <3>1
    <3>4. g[i] \in Seq(Unit) /\ b[i + 1] \in Seq(Unit)
      BY <1>0, <1>2, <3>1, SMTT(30) DEF Grown
    <3>5. (f[m] \o g[i]) \o b[i + 1] = f[m] \o (g[i] \o b[i + 1])
      BY <1>5, <3>4, ConcatAssociates
    <3> QED BY <3>2, <3>3, <3>5
  <2> HIDE DEF U
  <2> QED BY <2>1, <2>2, NatSetInduction
<1>7. h[m + n] = f[m] \o g[n]
  <2>1. n <= n
    OBVIOUS
  <2> QED BY <1>6, <2>1 DEF U
<1> QED BY <1>3, <1>7 DEF c

-----------------------------------------------------------------------------
(* What escaping makes of a text                                           *)

\* The characters that escaping is about, in operators: SMT does not read them.
Escape == "\\"
Special(c) == c \in {":", ";"}
Mark(c) == IF Special(c) THEN <<Escape>> ELSE <<>>

\* The escaped text after each of its first n characters.
Spelled(text, n, x) ==
  /\ x[0] = <<>> /\ \A i \in 0 .. n : x[i] \in Seq(Unit)
  /\ \A i \in 1 .. n : x[i] = (x[i - 1] \o Mark(text[i])) \o <<text[i]>>

LEMMA EscapedParts ==
  ASSUME NEW text \in Seq(Unit), NEW n \in Nat, Len(text) = n
  PROVE  /\ Escaped(text) \in Seq(Seq(Unit)) /\ Len(Escaped(text)) = 2 * n
         /\ \A i \in 1 .. n : /\ Escaped(text)[2 * i] = <<text[i]>>
                              /\ Escaped(text)[2 * i - 1] = Mark(text[i])
<1>1. PICK m \in Nat : m = 2 * n
  OBVIOUS
<1>2. Escaped(text) \in Seq(Seq(Unit)) /\ Len(Escaped(text)) = m
  <2>1. ASSUME NEW S, NEW s \in Seq(S), DOMAIN s = 1 .. m
        PROVE  Len(s) = m
    BY <2>1
  <2>2. DOMAIN Escaped(text) = 1 .. m
    BY <1>1 DEF Escaped
  <2>3. Escaped(text) \in Seq(Seq(Unit))
    BY EscapedType
  <2> QED BY <2>1, <2>2, <2>3, Zenon
<1>3. ASSUME NEW k \in 1 .. m
      PROVE  Escaped(text)[k] = IF k % 2 = 0 THEN <<text[(k + 1) \div 2]>>
                                             ELSE Mark(text[(k + 1) \div 2])
  BY <1>1, Zenon DEF Escaped, Mark, Special, Escape
<1>4. ASSUME NEW i \in 1 .. n
      PROVE  Escaped(text)[2 * i] = <<text[i]>> /\ Escaped(text)[2 * i - 1] = Mark(text[i])
  <2>1. PICK k \in 1 .. m, l \in 1 .. m :
          /\ k = 2 * i /\ k % 2 = 0 /\ (k + 1) \div 2 = i
          /\ l = 2 * i - 1 /\ l % 2 # 0 /\ (l + 1) \div 2 = i
    BY <1>1
  <2>2. Escaped(text)[k] = <<text[i]>>
    BY <1>3, <2>1
  <2>3. Escaped(text)[l] = Mark(text[i])
    BY <1>3, <2>1
  <2> QED BY <2>1, <2>2, <2>3
<1> QED BY <1>1, <1>2, <1>4

LEMMA EscapedGrows ==
  ASSUME NEW text \in Seq(Unit), NEW n \in Nat, Len(text) = n
  PROVE  \E x : Spelled(text, n, x) /\ FlattenSeq(Escaped(text)) = x[n]
<1> DEFINE parts == Escaped(text)
<1>1. parts \in Seq(Seq(Unit)) /\ Len(parts) = 2 * n
  BY EscapedParts
<1>2. \A i \in 1 .. n : parts[2 * i] = <<text[i]>> /\ parts[2 * i - 1] = Mark(text[i])
  BY EscapedParts
<1> HIDE DEF parts
<1>3. PICK f : Grown(parts, 2 * n, f)
  BY <1>1, PartsGrow
<1>4. FlattenSeq(parts) = f[2 * n]
  BY <1>1, <1>3, FlattenGrows
<1> DEFINE x == [i \in 0 .. n |-> f[2 * i]]
<1>5. ASSUME NEW i \in 0 .. n PROVE x[i] = f[2 * i] /\ 2 * i \in 0 .. 2 * n
  OBVIOUS
<1>6. x[0] = <<>> /\ x[n] = f[2 * n]
  <2>1. 0 \in 0 .. n /\ n \in 0 .. n /\ 2 * 0 = 0
    OBVIOUS
  <2> QED BY <1>3, <1>5, <2>1 DEF Grown
<1> HIDE DEF x
<1>7. ASSUME NEW i \in 0 .. n PROVE x[i] \in Seq(Unit)
  BY <1>3, <1>5 DEF Grown
<1>8. ASSUME NEW i \in 1 .. n PROVE x[i] = (x[i - 1] \o Mark(text[i])) \o <<text[i]>>
  <2>1. i \in 0 .. n /\ i - 1 \in 0 .. n /\ 2 * (i - 1) = 2 * i - 2
    OBVIOUS
  <2>2. x[i] = f[2 * i] /\ x[i - 1] = f[2 * i - 2]
    BY <1>5, <2>1
  <2>3. /\ 2 * i \in 1 .. 2 * n /\ 2 * i - 1 \in 1 .. 2 * n
        /\ (2 * i - 1) - 1 = 2 * i - 2
    OBVIOUS
  <2>4. f[2 * i] = f[2 * i - 1] \o parts[2 * i] /\ f[2 * i - 1] = f[2 * i - 2] \o parts[2 * i - 1]
    BY <1>3, <2>3 DEF Grown
  <2> QED BY <1>2, <2>2, <2>4
<1>9. Spelled(text, n, x)
  BY <1>6, <1>7, <1>8, Zenon DEF Spelled
<1> QED BY <1>4, <1>6, <1>9 DEF parts

LEMMA MarksAreUnits == Escape \in Unit /\ Escape # ":" /\ Special(":")
  BY TextAssumption, Zenon DEF Escape, Special

\* One more unit.
LEMMA UnitAdded ==
  ASSUME NEW u \in Seq(Unit), NEW c \in Unit, NEW a \in Nat, Len(u) = a
  PROVE  /\ u \o <<c>> \in Seq(Unit) /\ Len(u \o <<c>>) = a + 1
         /\ (u \o <<c>>)[a + 1] = c /\ \A i \in 1 .. a : (u \o <<c>>)[i] = u[i]
<1>0. <<c>> \in Seq(Unit) /\ Len(<<c>>) = 1 /\ <<c>>[1] = c
  OBVIOUS
<1>1. PICK t \in Seq(Unit) : t = <<c>> /\ Len(t) = 1 /\ t[1] = c
  BY <1>0, Zenon
<1>2. /\ u \o t \in Seq(Unit) /\ Len(u \o t) = a + 1
      /\ \A i \in 1 .. a : (u \o t)[i] = u[i]
  BY <1>1, Concat
<1>3. (u \o t)[a + 1] = c
  <2>1. 1 \in 1 .. Len(t)
    BY <1>1
  <2> QED BY <1>1, <2>1, Concat
<1> QED BY <1>1, <1>2, <1>3

\* One more character: w is u and, last of all, c behind its mark.
Follows(u, a, c, w, b) ==
  /\ u \in Seq(Unit) /\ Len(u) = a /\ w \in Seq(Unit) /\ Len(w) = b /\ w[b] = c
  /\ \A i \in 1 .. a : w[i] = u[i]
  /\ a \in Nat /\ b \in Nat
  /\ Special(c) => b = a + 2 /\ w[a + 1] = Escape
  /\ ~Special(c) => b = a + 1

LEMMA CharacterSpelled ==
  ASSUME NEW u \in Seq(Unit), NEW c \in Unit, NEW w, w = (u \o Mark(c)) \o <<c>>
  PROVE  \E a \in Nat, b \in Nat : Follows(u, a, c, w, b)
<1>0. PICK a \in Nat : Len(u) = a
  OBVIOUS
<1>1. CASE Special(c)
  <2>1. Mark(c) = <<Escape>> /\ Escape \in Unit
    BY <1>1, MarksAreUnits DEF Mark
  <2> DEFINE v == u \o <<Escape>>
             b == a + 1
  <2>2. b \in Nat /\ b = a + 1
    OBVIOUS
  <2>3. v \in Seq(Unit) /\ Len(v) = b /\ v[b] = Escape /\ \A i \in 1 .. a : v[i] = u[i]
    BY <1>0, <2>1, UnitAdded
  <2>4. w = v \o <<c>>
    BY <2>1
  <2> HIDE DEF v, b
  <2>5. w \in Seq(Unit) /\ Len(w) = b + 1 /\ w[b + 1] = c /\ \A i \in 1 .. b : w[i] = v[i]
    <3>1. /\ v \o <<c>> \in Seq(Unit) /\ Len(v \o <<c>>) = b + 1 /\ (v \o <<c>>)[b + 1] = c
          /\ \A i \in 1 .. b : (v \o <<c>>)[i] = v[i]
      <4>1. /\ b \in Nat /\ v \in Seq(Unit) /\ Len(v) = b
        BY <2>2, <2>3, Zenon
      <4> QED BY <4>1, UnitAdded, ZenonT(30)
    <3> QED BY <2>4, <3>1, Zenon
  <2>6. /\ b \in 1 .. b /\ b + 1 = a + 2 /\ b + 1 \in Nat /\ \A i \in 1 .. a : i \in 1 .. b
    BY <2>2
  <2>7. Follows(u, a, c, w, b + 1)
    BY <1>0, <1>1, <2>2, <2>3, <2>5, <2>6 DEF Follows
  <2> QED BY <2>6, <2>7
<1>2. CASE ~Special(c)
  <2>1. Mark(c) = <<>> /\ u \o <<>> = u
    BY <1>2, Concat DEF Mark
  <2>2. w = u \o <<c>>
    BY <2>1
  <2> DEFINE v == u \o <<c>>
  <2>3. v \in Seq(Unit) /\ Len(v) = a + 1 /\ v[a + 1] = c /\ \A i \in 1 .. a : v[i] = u[i]
    BY <1>0, UnitAdded
  <2> HIDE DEF v
  <2>4. Follows(u, a, c, w, a + 1)
    <3>1. w = v
      BY <2>2 DEF v
    <3>2. a + 1 \in Nat
      OBVIOUS
    <3> QED BY <1>0, <1>2, <2>3, <3>1, <3>2, Zenon DEF Follows
  <2> QED BY <2>4
<1> QED BY <1>1, <1>2

\* A colon of an escaped text has the escape before it.
LEMMA ColonsAreMarked ==
  ASSUME NEW text \in Seq(Unit), NEW n \in Nat, Len(text) = n, NEW x, Spelled(text, n, x)
  PROVE  \A j \in 1 .. Len(x[n]) : x[n][j] = ":" => j - 1 \in 1 .. Len(x[n]) /\ x[n][j - 1] = Escape
<1> DEFINE Marked(w) == \A j \in 1 .. Len(w) : w[j] = ":" => j - 1 \in 1 .. Len(w) /\ w[j - 1] = Escape
           T == {i \in Nat : i <= n => Marked(x[i])}
<1>0. \A i \in 1 .. n : text[i] \in Unit
  BY Lists
<1>1. 0 \in T
  <2>1. x[0] = <<>>
    BY DEF Spelled
  <2>2. Marked(<<>>)
    OBVIOUS
  <2> QED BY <2>1, <2>2
<1>2. ASSUME NEW i \in Nat, i \in T PROVE i + 1 \in T
  <2> SUFFICES ASSUME i + 1 <= n PROVE Marked(x[i + 1])
    OBVIOUS
  <2>1. i \in 0 .. n /\ i + 1 \in 1 .. n /\ (i + 1) - 1 = i /\ i <= n
    OBVIOUS
  <2>2. PICK u, w, c : u = x[i] /\ w = x[i + 1] /\ c = text[i + 1]
    OBVIOUS
  <2>3. PICK a \in Nat, b \in Nat : Follows(u, a, c, w, b)
    <3>1. u \in Seq(Unit) /\ c \in Unit /\ w = (u \o Mark(c)) \o <<c>>
      BY <1>0, <2>1, <2>2 DEF Spelled
    <3> QED BY <3>1, CharacterSpelled
  <2>4. Marked(u)
    BY <1>2, <2>1, <2>2
  <2>5. /\ Len(u) = a /\ Len(w) = b /\ w[b] = c /\ \A k \in 1 .. a : w[k] = u[k]
        /\ Special(c) => b = a + 2 /\ w[a + 1] = Escape
        /\ ~Special(c) => b = a + 1
    BY <2>3, Zenon DEF Follows
  <2>6. ASSUME NEW j \in 1 .. Len(w), w[j] = ":"
        PROVE  j - 1 \in 1 .. Len(w) /\ w[j - 1] = Escape
    <3>0. j \in 1 .. b /\ a <= b
      BY <2>5, <2>6
    <3>1. CASE j <= a
      <4>1. j \in 1 .. Len(u) /\ u[j] = ":"
        BY <2>5, <2>6, <3>0, <3>1
      <4>2. j - 1 \in 1 .. a /\ u[j - 1] = Escape
        BY <2>4, <2>5, <4>1
      <4>3. j - 1 \in 1 .. b
        BY <3>0, <4>2
      <4> QED BY <2>5, <4>2, <4>3
    <3>2. CASE ~(j <= a)
      <4>1. j = b
        <5>1. b # a + 2 \/ j # a + 1
          BY <2>5, <2>6, MarksAreUnits
        <5>2. b = a + 1 \/ b = a + 2
          BY <2>5
        <5> QED BY <3>0, <3>2, <5>1, <5>2
      <4>2. b = a + 2 /\ w[a + 1] = Escape
        BY <2>5, <2>6, <4>1, MarksAreUnits
      <4>3. j - 1 = a + 1 /\ j - 1 \in 1 .. b
        BY <4>1, <4>2
      <4> QED BY <2>5, <4>2, <4>3
    <3> QED BY <3>1, <3>2
  <2> QED BY <2>2, <2>6
<1> HIDE DEF T
<1>3. n \in T
  BY <1>1, <1>2, NatSetInduction
<1>4. n <= n
  OBVIOUS
<1>5. Marked(x[n])
  BY <1>3, <1>4 DEF T
<1> QED BY <1>5

\* The last character and the text before it can be told from the escaped text.
LEMMA CharacterRead ==
  ASSUME NEW u \in Seq(Unit), NEW c \in Unit, NEW v \in Seq(Unit), NEW d \in Unit,
         (u \o Mark(c)) \o <<c>> = (v \o Mark(d)) \o <<d>>
  PROVE  u = v /\ c = d
<1> DEFINE w == (u \o Mark(c)) \o <<c>>
<1>1. w = (v \o Mark(d)) \o <<d>>
  OBVIOUS
<1>2. PICK a \in Nat, b \in Nat : Follows(u, a, c, w, b)
  <2> HIDE DEF w
  <2>1. w = (u \o Mark(c)) \o <<c>>
    BY DEF w
  <2> QED BY <2>1, CharacterSpelled
<1> HIDE DEF w
<1>3. PICK e \in Nat, f \in Nat : Follows(v, e, d, w, f)
  BY <1>1, CharacterSpelled
<1>4. b = f /\ c = d
  BY <1>2, <1>3, Zenon DEF Follows
<1>5. a = e
  <2>1. /\ Special(c) => b = a + 2
        /\ ~Special(c) => b = a + 1
    BY <1>2, Zenon DEF Follows
  <2>2. /\ Special(c) => b = e + 2
        /\ ~Special(c) => b = e + 1
    BY <1>3, <1>4, Zenon DEF Follows
  <2> QED BY <2>1, <2>2
<1>6. Len(u) = a /\ Len(v) = a /\ \A i \in 1 .. a : u[i] = v[i]
  BY <1>2, <1>3, <1>5 DEF Follows
<1> QED BY <1>4, <1>6

\* Nothing but the empty text is spelled by nothing.
LEMMA SpelledIsSomething ==
  ASSUME NEW text \in Seq(Unit), NEW n \in Nat, Len(text) = n, NEW x, Spelled(text, n, x)
  PROVE  \A i \in 1 .. n : x[i] # <<>>
<1> SUFFICES ASSUME NEW i \in 1 .. n PROVE x[i] # <<>>
  OBVIOUS
<1>1. PICK u, c, w : u = x[i - 1] /\ c = text[i] /\ w = x[i]
  OBVIOUS
<1>2. u \in Seq(Unit) /\ c \in Unit /\ w = (u \o Mark(c)) \o <<c>>
  <2>1. i - 1 \in 0 .. n
    OBVIOUS
  <2> QED BY <1>1, <2>1, Lists DEF Spelled
<1>3. PICK a \in Nat, b \in Nat : Follows(u, a, c, w, b)
  BY <1>2, CharacterSpelled
<1>4. Len(w) = b /\ b # 0
  BY <1>3 DEF Follows
<1> QED BY <1>1, <1>4

\* A text can be told from what escaping makes of it.
LEMMA EscapingKeepsApart ==
  ASSUME NEW s \in Seq(Unit), NEW t \in Seq(Unit),
         FlattenSeq(Escaped(s)) = FlattenSeq(Escaped(t))
  PROVE  s = t
<1>0. PICK m \in Nat, n \in Nat : Len(s) = m /\ Len(t) = n
  OBVIOUS
<1>1. PICK x : Spelled(s, m, x) /\ FlattenSeq(Escaped(s)) = x[m]
  BY <1>0, EscapedGrows
<1>2. PICK y : Spelled(t, n, y) /\ FlattenSeq(Escaped(t)) = y[n]
  BY <1>0, EscapedGrows
<1>3. (\A i \in 1 .. m : s[i] \in Unit) /\ (\A i \in 1 .. n : t[i] \in Unit)
  BY <1>0, Lists
<1> DEFINE Same(i, k) == i = k /\ \A j \in 1 .. i : s[j] = t[j]
           T == {i \in Nat : i <= m => \A k \in 0 .. n : x[i] = y[k] => Same(i, k)}
<1>4. (\A i \in 1 .. m : x[i] # <<>>) /\ (\A i \in 1 .. n : y[i] # <<>>)
  BY <1>0, <1>1, <1>2, SpelledIsSomething
<1>6. 0 \in T
  <2>1. ASSUME NEW k \in 0 .. n, x[0] = y[k] PROVE k = 0
    <3>1. y[k] = <<>>
      BY <1>1, <2>1 DEF Spelled
    <3>2. k \notin 1 .. n
      BY <1>4, <3>1
    <3> QED BY <3>2
  <2> QED BY <2>1
<1>7. ASSUME NEW i \in Nat, i \in T PROVE i + 1 \in T
  <2>0. i + 1 \in Nat
    OBVIOUS
  <2> SUFFICES ASSUME i + 1 <= m, NEW k \in 0 .. n, x[i + 1] = y[k] PROVE Same(i + 1, k)
    BY <2>0, Zenon
  <2>1. i \in 0 .. m /\ i + 1 \in 1 .. m /\ (i + 1) - 1 = i /\ i <= m
    OBVIOUS
  <2>2. k \in 1 .. n /\ k - 1 \in 0 .. n
    <3>1. k # 0
      BY <1>2, <1>4, <2>1 DEF Spelled
    <3> QED BY <3>1
  <2>3. /\ x[i + 1] = (x[i] \o Mark(s[i + 1])) \o <<s[i + 1]>>
        /\ y[k] = (y[k - 1] \o Mark(t[k])) \o <<t[k]>>
        /\ x[i] \in Seq(Unit) /\ y[k - 1] \in Seq(Unit)
    BY <1>1, <1>2, <2>1, <2>2 DEF Spelled
  <2>4. x[i] = y[k - 1] /\ s[i + 1] = t[k]
    <3>1. PICK u \in Seq(Unit), c \in Unit : u = x[i] /\ c = s[i + 1]
      BY <1>3, <2>1, <2>3, Zenon
    <3>2. PICK v \in Seq(Unit), d \in Unit : v = y[k - 1] /\ d = t[k]
      BY <1>3, <2>2, <2>3, Zenon
    <3>3. (u \o Mark(c)) \o <<c>> = (v \o Mark(d)) \o <<d>>
      BY <2>3, <3>1, <3>2, Zenon
    <3>4. u = v /\ c = d
      BY <3>3, CharacterRead
    <3> QED BY <3>1, <3>2, <3>4
  <2>5. i = k - 1 /\ \A j \in 1 .. i : s[j] = t[j]
    BY <1>7, <2>1, <2>2, <2>4
  <2>6. k = i + 1
    BY <2>2, <2>5
  <2> QED BY <2>4, <2>5, <2>6
<1> HIDE DEF T
<1>8. m \in T
  BY <1>6, <1>7, NatSetInduction
<1>9. Same(m, n)
  <2>0. m <= m /\ n \in 0 .. n
    OBVIOUS
  <2>1. m <= m /\ n \in 0 .. n /\ x[m] = y[n]
    BY <1>1, <1>2, <2>0, Zenon
  <2>2. \A k \in 0 .. n : x[m] = y[k] => Same(m, k)
    BY <1>8, <2>1 DEF T
  <2> QED BY <2>1, <2>2
<1> QED BY <1>0, <1>9

-----------------------------------------------------------------------------
(* Reading a mapping back                                                  *)

First == <<"name", ":">>
Middle == <<";", "path", ":">>
Marked(e) == \A j \in 1 .. Len(e) : e[j] = ":" => j - 1 \in 1 .. Len(e) /\ e[j - 1] = Escape

LEMMA MappingWords ==
  /\ First \in Seq(Unit) /\ Len(First) = 2
  /\ Middle \in Seq(Unit) /\ Len(Middle) = 3
  /\ Middle[1] # ":" /\ Middle[2] # ":" /\ Middle[2] # Escape /\ Middle[3] = ":"
<1>1. ASSUME NEW S, NEW a \in S, NEW b \in S, NEW c \in S
      PROVE  /\ <<a, b>> \in Seq(S) /\ Len(<<a, b>>) = 2
             /\ <<a, b, c>> \in Seq(S) /\ Len(<<a, b, c>>) = 3
             /\ <<a, b, c>>[1] = a /\ <<a, b, c>>[2] = b /\ <<a, b, c>>[3] = c
  OBVIOUS
<1>2. "name" \in Unit /\ ":" \in Unit /\ ";" \in Unit /\ "path" \in Unit
  BY TextAssumption, Zenon
<1>3. ";" # ":" /\ "path" # ":" /\ "path" # "\\"
  BY Zenon
<1> QED BY <1>1, <1>2, <1>3, Zenon DEF First, Middle, Escape

\* What escaping makes of a text is a text with its colons marked.
LEMMA EscapedIsMarked ==
  ASSUME NEW text \in Seq(Unit)
  PROVE  FlattenSeq(Escaped(text)) \in Seq(Unit) /\ Marked(FlattenSeq(Escaped(text)))
<1>1. PICK n \in Nat : Len(text) = n
  OBVIOUS
<1>2. PICK x : Spelled(text, n, x) /\ FlattenSeq(Escaped(text)) = x[n]
  BY <1>1, EscapedGrows
<1>3. x[n] \in Seq(Unit)
  <2>1. n \in 0 .. n
    OBVIOUS
  <2> QED BY <1>2, <2>1 DEF Spelled
<1>4. Marked(x[n])
  BY <1>1, <1>2, ColonsAreMarked DEF Marked
<1> QED BY <1>2, <1>3, <1>4

\* The argument of setmapping.
LEMMA MappingText ==
  ASSUME NEW name \in Seq(Unit), NEW path \in Seq(Unit)
  PROVE  FlattenSeq(MappingParts(name, path))
           = ((First \o FlattenSeq(Escaped(name))) \o Middle) \o FlattenSeq(Escaped(path))
<1>1. ASSUME NEW text \in Seq(Unit)
      PROVE  <<text>> \in Seq(Seq(Unit)) /\ FlattenSeq(<<text>>) = text
  <2>1. ASSUME NEW S, NEW s \in S
        PROVE  <<s>> \in Seq(S) /\ Len(<<s>>) = 1 /\ <<s>>[1] = s
    OBVIOUS
  <2>2. <<text>> \in Seq(Seq(Unit)) /\ Len(<<text>>) = 1 /\ <<text>>[1] = text
    BY <2>1
  <2> DEFINE parts == <<text>>
  <2> HIDE DEF parts
  <2>3. PICK f : Grown(parts, Len(parts), f)
    BY <2>2, PartsGrow DEF parts
  <2>4. FlattenSeq(parts) = f[1] /\ f[1] = f[0] \o parts[1] /\ f[0] = <<>>
    <3>1. 1 \in 1 .. 1 /\ 1 - 1 = 0
      OBVIOUS
    <3>2. FlattenSeq(parts) = f[1]
      BY <2>2, <2>3, FlattenGrows DEF parts
    <3>3. Len(parts) = 1
      BY <2>2 DEF parts
    <3> QED BY <2>3, <3>1, <3>2, <3>3 DEF Grown
  <2>5. <<>> \o text = text
    BY Concat
  <2> QED BY <2>2, <2>4, <2>5 DEF parts
<1> DEFINE e == Escaped(name)
           d == Escaped(path)
           a == <<First>>
           b == <<Middle>>
<1>2. e \in Seq(Seq(Unit)) /\ d \in Seq(Seq(Unit))
  BY EscapedType
<1>3. /\ a \in Seq(Seq(Unit)) /\ FlattenSeq(a) = First
      /\ b \in Seq(Seq(Unit)) /\ FlattenSeq(b) = Middle
  BY <1>1, MappingWords, Zenon
<1>4. MappingParts(name, path) = ((a \o e) \o b) \o d
  BY Zenon DEF MappingParts, First, Middle
<1> HIDE DEF a, b, d, e
<1>5. FlattenSeq(a \o e) = First \o FlattenSeq(e) /\ a \o e \in Seq(Seq(Unit))
  BY <1>2, <1>3, FlattenConcat, Lists
<1>6. /\ FlattenSeq((a \o e) \o b) = (First \o FlattenSeq(e)) \o Middle
      /\ (a \o e) \o b \in Seq(Seq(Unit))
  BY <1>3, <1>5, FlattenConcat, Lists
<1>7. FlattenSeq(((a \o e) \o b) \o d) = ((First \o FlattenSeq(e)) \o Middle) \o FlattenSeq(d)
  BY <1>2, <1>6, FlattenConcat
<1> QED BY <1>4, <1>7 DEF d, e

\* t after s: w.
After(s, k, t, l, w) ==
  /\ w \in Seq(Unit) /\ Len(w) = k + l
  /\ \A i \in 1 .. k : w[i] = s[i]
  /\ \A i \in 1 .. l : w[k + i] = t[i]

LEMMA ConcatIs ==
  ASSUME NEW s \in Seq(Unit), NEW t \in Seq(Unit), NEW k \in Nat, NEW l \in Nat,
         Len(s) = k, Len(t) = l
  PROVE  After(s, k, t, l, s \o t)
  BY Concat DEF After

\* Where the parts of the argument lie: the name from its third unit on, a units
\* long, the word between after it, and the path last.
Laid(w, e, a, p, b) ==
  /\ e \in Seq(Unit) /\ Len(e) = a /\ a \in Nat /\ p \in Seq(Unit) /\ Len(p) = b /\ b \in Nat
  /\ Len(w) = 5 + a + b
  /\ \A i \in 1 .. a : w[2 + i] = e[i]
  /\ \A i \in 1 .. 3 : w[2 + a + i] = Middle[i]
  /\ \A i \in 1 .. b : w[5 + a + i] = p[i]

LEMMA ArgumentIsLaid ==
  ASSUME NEW e \in Seq(Unit), NEW p \in Seq(Unit), NEW w, w = ((First \o e) \o Middle) \o p
  PROVE  \E a \in Nat, b \in Nat : Laid(w, e, a, p, b)
<1>1. PICK a \in Nat, b \in Nat, k \in Nat, m \in Nat :
        Len(e) = a /\ Len(p) = b /\ k = 2 + a /\ m = k + 3
  OBVIOUS
<1> DEFINE u == First \o e
           v == u \o Middle
           w1 == v \o p
<1>2. After(First, 2, e, a, u)
  BY <1>1, MappingWords, ConcatIs
<1>3. u \in Seq(Unit) /\ Len(u) = k /\ \A i \in 1 .. a : u[2 + i] = e[i]
  BY <1>1, <1>2, Zenon DEF After
<1> HIDE DEF u
<1>4. After(u, k, Middle, 3, v)
  BY <1>3, MappingWords, ConcatIs
<1>5. v \in Seq(Unit) /\ Len(v) = m
  BY <1>1, <1>4, Zenon DEF After
<1> HIDE DEF v
<1>6. After(v, m, p, b, w)
  <2>1. w = w1
    BY DEF u, v
  <2>2. After(v, m, p, b, w1)
    BY <1>1, <1>5, ConcatIs
  <2> QED BY <2>1, <2>2
<1> HIDE DEF w1
<1>7. ASSUME NEW i \in 1 .. a PROVE w[2 + i] = e[i]
  <2>1. 2 + i \in 1 .. k /\ 2 + i \in 1 .. m
    BY <1>1
  <2> QED BY <1>3, <1>4, <1>6, <2>1 DEF After
<1>8. ASSUME NEW i \in 1 .. 3 PROVE w[2 + a + i] = Middle[i]
  <2>1. 2 + a + i = k + i /\ k + i \in 1 .. m
    BY <1>1
  <2> QED BY <1>4, <1>6, <2>1 DEF After
<1>9. Laid(w, e, a, p, b)
  <2>1. m + b = 5 + a + b /\ \A i \in 1 .. b : m + i = 5 + a + i
    BY <1>1
  <2> QED BY <1>1, <1>7, <1>8, <1>6, <2>1 DEF Laid, After
<1> QED BY <1>9

\* A longer name would have the colon of "path" in it, with no mark before it.
LEMMA NameEndsAtPath ==
  ASSUME NEW w, NEW e, NEW a, NEW p, NEW b, Laid(w, e, a, p, b),
         NEW f, NEW c, NEW q, NEW d, Laid(w, f, c, q, d), Marked(f)
  PROVE  ~(a < c)
<1> SUFFICES ASSUME a < c PROVE FALSE
  OBVIOUS
<1>1. a \in Nat /\ c \in Nat /\ Len(f) = c
  BY Zenon DEF Laid
<1>2. w[2 + a + 3] = ":" /\ w[2 + a + 2] = Middle[2]
  <2>1. 2 \in 1 .. 3 /\ 3 \in 1 .. 3
    OBVIOUS
  <2> QED BY <2>1, MappingWords DEF Laid
<1>3. CASE a + 3 <= c
  <2>1. a + 3 \in 1 .. c /\ a + 2 \in 1 .. c /\ (a + 3) - 1 = a + 2
    BY <1>1, <1>3
  <2>2. w[2 + (a + 3)] = f[a + 3] /\ w[2 + (a + 2)] = f[a + 2]
    BY <2>1 DEF Laid
  <2>3. 2 + (a + 3) = 2 + a + 3 /\ 2 + (a + 2) = 2 + a + 2
    BY <1>1
  <2>4. f[a + 3] = ":" /\ f[a + 2] = Middle[2]
    BY <1>2, <2>2, <2>3
  <2>5. f[a + 2] = Escape
    BY <1>1, <2>1, <2>4 DEF Marked
  <2> QED BY <2>4, <2>5, MappingWords
<1>4. CASE ~(a + 3 <= c)
  <2>1. PICK k \in 1 .. 2 : 2 + c + k = 2 + a + 3
    <3>1. a + 3 - c \in 1 .. 2 /\ 2 + c + (a + 3 - c) = 2 + a + 3
      BY <1>1, <1>4
    <3> QED BY <3>1
  <2>2. w[2 + c + k] = Middle[k] /\ (k = 1 \/ k = 2)
    <3>1. k \in 1 .. 3 /\ (k = 1 \/ k = 2)
      OBVIOUS
    <3>2. \A i \in 1 .. 3 : w[2 + c + i] = Middle[i]
      BY Zenon DEF Laid
    <3> QED BY <3>1, <3>2
  <2> QED BY <1>2, <2>1, <2>2, MappingWords
<1> QED BY <1>3, <1>4

\* So the name and the path can be told from the argument.
LEMMA MappingRead ==
  ASSUME NEW m \in Seq(Unit) \X Seq(Unit), NEW n \in Seq(Unit) \X Seq(Unit),
         FlattenSeq(MappingParts(m[1], m[2])) = FlattenSeq(MappingParts(n[1], n[2]))
  PROVE  m = n
<1>1. PICK s \in Seq(Unit), t \in Seq(Unit), u \in Seq(Unit), v \in Seq(Unit) :
        s = m[1] /\ t = m[2] /\ u = n[1] /\ v = n[2]
  OBVIOUS
<1> DEFINE E(text) == FlattenSeq(Escaped(text))
           w == FlattenSeq(MappingParts(s, t))
<1>2. w = ((First \o E(s)) \o Middle) \o E(t) /\ w = ((First \o E(u)) \o Middle) \o E(v)
  <2>1. w = FlattenSeq(MappingParts(u, v))
    BY <1>1
  <2>2. FlattenSeq(MappingParts(s, t)) = ((First \o E(s)) \o Middle) \o E(t)
    BY MappingText
  <2>3. FlattenSeq(MappingParts(u, v)) = ((First \o E(u)) \o Middle) \o E(v)
    BY MappingText
  <2> QED BY <2>1, <2>2, <2>3
<1> HIDE DEF w
<1>3. \A text \in Seq(Unit) : E(text) \in Seq(Unit) /\ Marked(E(text))
  BY EscapedIsMarked
<1> HIDE DEF E
<1>4. PICK e, p, f, q : e = E(s) /\ p = E(t) /\ f = E(u) /\ q = E(v)
  OBVIOUS
<1>5. PICK a \in Nat, b \in Nat : Laid(w, e, a, p, b)
  BY <1>2, <1>3, <1>4, ArgumentIsLaid
<1>6. PICK c \in Nat, d \in Nat : Laid(w, f, c, q, d)
  BY <1>2, <1>3, <1>4, ArgumentIsLaid
<1>7. ~(a < c) /\ ~(c < a)
  BY <1>3, <1>4, <1>5, <1>6, NameEndsAtPath
<1>8. a = c /\ b = d
  <2>1. Len(w) = 5 + a + b /\ Len(w) = 5 + c + d
    BY <1>5, <1>6, Zenon DEF Laid
  <2>2. a = c
    BY <1>7
  <2> QED BY <2>1, <2>2
<1>9. e = f
  <2>1. \A i \in 1 .. a : e[i] = f[i]
    BY <1>5, <1>6, <1>8 DEF Laid
  <2>2. e \in Seq(Unit) /\ f \in Seq(Unit) /\ Len(e) = a /\ Len(f) = a
    BY <1>5, <1>6, <1>8, Zenon DEF Laid
  <2> QED BY <2>1, <2>2
<1>10. p = q
  <2>1. \A i \in 1 .. b : p[i] = q[i]
    BY <1>5, <1>6, <1>8 DEF Laid
  <2>2. p \in Seq(Unit) /\ q \in Seq(Unit) /\ Len(p) = b /\ Len(q) = b
    BY <1>5, <1>6, <1>8, Zenon DEF Laid
  <2> QED BY <2>1, <2>2
<1>11. s = u /\ t = v
  <2>1. E(s) = E(u) /\ E(t) = E(v)
    BY <1>4, <1>9, <1>10
  <2> QED BY <2>1, EscapingKeepsApart DEF E
<1>12. m = <<m[1], m[2]>> /\ n = <<n[1], n[2]>>
  OBVIOUS
<1> QED BY <1>1, <1>11, <1>12, Zenon

\* Two mappings never have the same argument, whatever their names and paths are
\* and however cfrds_buffer_append_mapping grew the buffer for it.
THEOREM MappingsKeptApart == Spec => []MappingIsUnambiguous
<1>1. MappingIsUnambiguous
  <2> DEFINE M == {m \in Texts \X Texts : /\ IsString(m[1]) /\ IsString(m[2])
                                          /\ Text = FlattenSeq(MappingParts(m[1], m[2]))}
  <2>1. ASSUME NEW m \in M, NEW n \in M PROVE m = n
    <3>1. m \in Seq(Unit) \X Seq(Unit) /\ n \in Seq(Unit) \X Seq(Unit)
      BY TextAssumption
    <3> QED BY <3>1, MappingRead
  <2> HIDE DEF M
  <2>2. Cardinality(M) <= 1
    <3>1. CASE M = {}
      BY <3>1, FS_EmptySet
    <3>2. CASE M # {}
      <4>1. PICK m : M = {m}
        <5>1. PICK m \in M : TRUE
          BY <3>2
        <5>2. \A n \in M : n = m
          BY <2>1
        <5> QED BY <5>1, <5>2
      <4>2. Cardinality(M) = 1
        BY <4>1, FS_Singleton, Zenon
      <4> QED BY <4>2
    <3> QED BY <3>1, <3>2
  <2> QED BY <2>2 DEF MappingIsUnambiguous, M
<1> QED BY <1>1, PTL
-----------------------------------------------------------------------------
(* What the readers make of the items of a row                             *)

\* Beyond a text there is nothing.
LEMMA FromBeyond ==
  ASSUME NEW text \in Seq(Unit), NEW a \in Nat, a > Len(text)
  PROVE  From(text, a) = <<>>
<1>1. SubSeq(text, a, Len(text)) = <<>>
  OBVIOUS
<1> QED BY <1>1, Zenon DEF From

\* An end of a text, unit by unit.
LEMMA FromUnits ==
  ASSUME NEW text \in Seq(Unit), NEW m \in Nat, Len(text) = m, NEW a \in 1 .. m + 1
  PROVE  /\ From(text, a) \in Seq(Unit) /\ Len(From(text, a)) = m + 1 - a
         /\ \A i \in 1 .. m + 1 - a : From(text, a)[i] = text[a + i - 1]
<1> DEFINE k == m + 1 - a
<1>1. k \in Nat /\ a + k = m + 1 /\ a \in Nat \ {0}
  OBVIOUS
<1> HIDE DEF k
<1>2. Fits(text, a, Len(text), k)
  BY <1>1 DEF Fits
<1>3. Part(From(text, a), text, a, k)
  BY <1>2, FromIs, Zenon
<1>4. From(text, a) \in Seq(Unit) /\ Len(From(text, a)) = k
      /\ \A i \in 1 .. k : From(text, a)[i] = text[a + i - 1]
  BY <1>3, Zenon DEF Part
<1> QED BY <1>4, Zenon DEF k

\* The end of an end, also beyond it.
LEMMA FromTwice ==
  ASSUME NEW text \in Seq(Unit), NEW m \in Nat, Len(text) = m, NEW a \in 1 .. m + 1,
         NEW b \in Nat \ {0}, NEW c \in Nat, c = a + b - 1
  PROVE  From(From(text, a), b) = From(text, c)
<1>1. CASE c <= m + 1
  <2>1. a \in Nat \ {0} /\ a <= m + 1 /\ c \in Nat \ {0}
    OBVIOUS
  <2> QED BY <1>1, <2>1, FromFrom
<1>2. CASE c > m + 1
  <2>1. From(text, c) = <<>>
    BY <1>2, FromBeyond
  <2> DEFINE s == From(text, a)
  <2>2. s \in Seq(Unit) /\ Len(s) = m + 1 - a
    BY FromUnits
  <2> HIDE DEF s
  <2>3. b > Len(s)
    BY <1>2, <2>2
  <2>4. From(s, b) = <<>>
    BY <2>2, <2>3, FromBeyond
  <2> QED BY <2>1, <2>4 DEF s
<1> QED BY <1>1, <1>2

\* A text without its first unit.
LEMMA TailIsFrom ==
  ASSUME NEW text \in Seq(Unit), text # <<>>
  PROVE  Tail(text) = From(text, 2)
<1>1. PICK m \in Nat : Len(text) = m /\ m >= 1
  OBVIOUS
<1>2. /\ From(text, 2) \in Seq(Unit) /\ Len(From(text, 2)) = m - 1
      /\ \A i \in 1 .. m - 1 : From(text, 2)[i] = text[i + 1]
  <2> DEFINE s == From(text, 2)
  <2>1. 2 \in 1 .. m + 1
    BY <1>1
  <2>2. s \in Seq(Unit) /\ Len(s) = m + 1 - 2 /\ \A i \in 1 .. m + 1 - 2 : s[i] = text[2 + i - 1]
    BY <1>1, <2>1, FromUnits
  <2> HIDE DEF s
  <2>3. s \in Seq(Unit) /\ Len(s) = m - 1 /\ \A i \in 1 .. m - 1 : s[i] = text[i + 1]
    BY <1>1, <2>2
  <2> QED BY <2>3, Zenon DEF s
<1>3. /\ Tail(text) \in Seq(Unit) /\ Len(Tail(text)) = m - 1
      /\ \A i \in 1 .. m - 1 : Tail(text)[i] = text[i + 1]
  BY <1>1
<1> DEFINE s == Tail(text)
           t == From(text, 2)
<1> HIDE DEF s, t
<1>4. s \in Seq(Unit) /\ t \in Seq(Unit) /\ Len(s) = Len(t) /\ \A i \in 1 .. Len(s) : s[i] = t[i]
  BY <1>2, <1>3 DEF s, t
<1>5. s = t
  BY <1>4
<1> QED BY <1>5 DEF s, t

\* The beginning of a text, by its units.
LEMMA StartIs ==
  ASSUME NEW text \in Seq(Unit), NEW item \in Seq(Unit), Len(item) <= Len(text),
         \A i \in 1 .. Len(item) : text[i] = item[i]
  PROVE  SubSeq(text, 1, Len(item)) = item
<1> DEFINE s == SubSeq(text, 1, Len(item))
<1>1. s \in Seq(Unit) /\ Len(s) = Len(item) /\ \A i \in 1 .. Len(item) : s[i] = text[i]
  OBVIOUS
<1> HIDE DEF s
<1>2. \A i \in 1 .. Len(s) : s[i] = item[i]
  BY <1>1
<1>3. s = item
  BY <1>1, <1>2
<1> QED BY <1>3 DEF s

\* The first place of a unit, by what it is.
LEMMA PlaceIs ==
  ASSUME NEW text \in Seq(Unit), NEW unit, NEW p \in 1 .. Len(text), text[p] = unit,
         \A i \in 1 .. p - 1 : text[i] # unit
  PROVE  Place(unit, text) = p
<1>1. Len(text) \in Nat
  OBVIOUS
<1>2. PICK q : q = Place(unit, text)
  OBVIOUS
<1>3. q \in 1 .. Len(text) /\ text[q] = unit /\ q <= p
  BY <1>2, PlaceFinds
<1>4. ~(q <= p - 1)
  BY <1>1, <1>3
<1> QED BY <1>1, <1>2, <1>3, <1>4

\* A unit that a text does not hold has no place in it.
LEMMA PlaceNowhere ==
  ASSUME NEW text \in Seq(Unit), NEW unit, \A i \in 1 .. Len(text) : text[i] # unit
  PROVE  Place(unit, text) = 0
  BY PlaceFinds

\* An item in quotes is read without them, and the text behind it.
LEMMA QuotedRead ==
  ASSUME NEW text \in Seq(Unit), NEW item \in Seq(Unit), NEW l \in Nat, Len(item) = l,
         l + 2 <= Len(text), text[1] = QUOTE, text[l + 2] = QUOTE,
         \A i \in 1 .. l : text[i + 1] = item[i] /\ item[i] # QUOTE
  PROVE  ParseListItem(text) = [ok |-> TRUE, text |-> item, rest |-> SkipComma(From(text, l + 3))]
<1>0. PICK m \in Nat : Len(text) = m /\ m >= 2 /\ l + 2 <= m
  OBVIOUS
<1> DEFINE body == Tail(text)
<1>1. /\ body \in Seq(Unit) /\ Len(body) = m - 1 /\ \A i \in 1 .. m - 1 : body[i] = text[i + 1]
  BY <1>0
<1>2. body = From(text, 2)
  BY <1>0, TailIsFrom
<1> HIDE DEF body
<1>3. Place(QUOTE, body) = l + 1
  <2>1. l + 1 \in 1 .. Len(body) /\ body[l + 1] = QUOTE
    BY <1>0, <1>1
  <2>2. ASSUME NEW i \in 1 .. (l + 1) - 1 PROVE body[i] # QUOTE
    BY <1>0, <1>1, <2>2
  <2> QED BY <1>1, <2>1, <2>2, PlaceIs
<1>4. SubSeq(body, 1, (l + 1) - 1) = item
  <2>1. (l + 1) - 1 = Len(item) /\ Len(item) <= Len(body)
    BY <1>0, <1>1
  <2>2. \A i \in 1 .. Len(item) : body[i] = item[i]
    BY <1>0, <1>1
  <2> QED BY <1>1, <2>1, <2>2, StartIs
<1>5. From(body, (l + 1) + 1) = From(text, l + 3)
  <2>1. 2 \in 1 .. m + 1 /\ (l + 1) + 1 \in Nat \ {0} /\ l + 3 \in Nat /\ l + 3 = 2 + ((l + 1) + 1) - 1
    BY <1>0
  <2>2. text \in Seq(Unit) /\ m \in Nat /\ Len(text) = m
    BY <1>0, Zenon
  <2> QED BY <1>2, <2>1, <2>2, FromTwice, SMTT(30)
<1>6. Quoted(body, l + 1) = [ok |-> TRUE, text |-> item, rest |-> SkipComma(From(text, l + 3))]
  <2>1. l + 1 # 0
    OBVIOUS
  <2> QED BY <1>4, <1>5, <2>1, Zenon DEF Quoted
<1>7. ~(Len(text) < 2)
  BY <1>0
<1> QED BY <1>3, <1>6, <1>7, Zenon DEF ParseListItem, body

\* A bare item is what stands before the comma, or all there is.
LEMMA BareUpTo ==
  ASSUME NEW text \in Seq(Unit), NEW item \in Seq(Unit), NEW l \in Nat, Len(item) = l,
         NEW comma, l <= Len(text), \A i \in 1 .. l : text[i] = item[i] /\ item[i] # comma,
         l < Len(text) => text[l + 1] = comma
  PROVE  Bare(text, Place(comma, text)) = [ok |-> TRUE, text |-> item, rest |-> From(text, l + 2)]
<1>0. PICK m \in Nat : Len(text) = m
  OBVIOUS
<1>3. SubSeq(text, 1, Len(item)) = item
  BY StartIs
<1>4. CASE l < m
  <2>1. l + 1 \in 1 .. Len(text) /\ text[l + 1] = comma /\ \A i \in 1 .. (l + 1) - 1 : text[i] # comma
    BY <1>0, <1>4
  <2>2. Place(comma, text) = l + 1
    BY <2>1, PlaceIs
  <2>3. (l + 1) - 1 = Len(item) /\ (l + 1) + 1 = l + 2 /\ l + 1 # 0
    OBVIOUS
  <2> QED BY <1>3, <2>2, <2>3, Zenon DEF Bare
<1>5. CASE l = m
  <2>1. \A i \in 1 .. Len(text) : text[i] # comma
    BY <1>0, <1>5
  <2>2. Place(comma, text) = 0
    BY <2>1, PlaceNowhere
  <2>3. text = item
    <3>1. Len(text) = Len(item) /\ \A i \in 1 .. Len(text) : text[i] = item[i]
      BY <1>0, <1>5
    <3> QED BY <3>1
  <2>4. From(text, l + 2) = <<>>
    <3>1. l + 2 \in Nat /\ l + 2 > Len(text)
      BY <1>0, <1>5
    <3> QED BY <3>1, FromBeyond
  <2> QED BY <2>2, <2>3, <2>4, Zenon DEF Bare
<1> QED BY <1>0, <1>4, <1>5

\* The comma behind an item is skipped.
LEMMA SkipIs ==
  ASSUME NEW text \in Seq(Unit), NEW m \in Nat, Len(text) = m, NEW a \in 1 .. m + 1
  PROVE  SkipComma(From(text, a)) = IF a = m + 1 \/ text[a] = "," THEN From(text, a + 1)
                                    ELSE From(text, a)
<1>1. CASE a = m + 1
  <2>1. From(text, a) = <<>> /\ From(text, a + 1) = <<>>
    BY <1>1, FromBeyond
  <2> QED BY <1>1, <2>1, Zenon DEF SkipComma
<1>2. CASE a # m + 1
  <2> DEFINE s == From(text, a)
  <2>1. s \in Seq(Unit) /\ Len(s) = m + 1 - a /\ \A i \in 1 .. m + 1 - a : s[i] = text[a + i - 1]
    BY FromUnits
  <2>2. From(s, 2) = From(text, a + 1)
    <3>1. 2 \in Nat \ {0} /\ a + 1 \in Nat /\ a + 1 = a + 2 - 1
      OBVIOUS
    <3> QED BY <3>1, FromTwice
  <2> HIDE DEF s
  <2>3. s # <<>> /\ s[1] = text[a]
    BY <1>2, <2>1
  <2>4. Tail(s) = From(s, 2)
    BY <2>1, <2>3, TailIsFrom
  <2> QED BY <1>2, <2>2, <2>3, <2>4, Zenon DEF SkipComma, s
<1> QED BY <1>1, <1>2

-----------------------------------------------------------------------------
(* Where the items of a row are                                            *)

\* n items in a row of m units.
Places(cuts, n, m) ==
  /\ n \in Nat \ {0} /\ m \in Nat /\ cuts[1] = 1 /\ cuts[n + 1] = m + 2
  /\ \A j \in 1 .. n + 1 : cuts[j] \in Nat
  /\ \A j \in 1 .. n : \/ cuts[j + 1] >= cuts[j] + 3
                       \/ cuts[j + 1] >= cuts[j] + 1 /\ cuts[j] < m

\* Each begins inside the row, after the ones before it.
LEMMA PlacesGrow ==
  ASSUME NEW cuts, NEW n, NEW m, Places(cuts, n, m)
  PROVE  /\ \A j \in 1 .. n + 1 : cuts[j] \in Nat /\ cuts[j] >= j /\ cuts[j] <= m + 2
         /\ \A j \in 1 .. n : cuts[j + 1] >= cuts[j] + 1 /\ cuts[j] < m
<1>0. /\ n \in Nat \ {0} /\ m \in Nat /\ cuts[1] = 1 /\ cuts[n + 1] = m + 2
      /\ \A j \in 1 .. n + 1 : cuts[j] \in Nat
      /\ \A j \in 1 .. n : \/ cuts[j + 1] >= cuts[j] + 3
                           \/ cuts[j + 1] >= cuts[j] + 1 /\ cuts[j] < m
  BY Zenon DEF Places
<1>1. \A j \in 1 .. n : cuts[j + 1] >= cuts[j] + 1
  <2>1. ASSUME NEW j \in 1 .. n PROVE cuts[j + 1] >= cuts[j] + 1
    <3>1. j \in 1 .. n + 1 /\ j + 1 \in 1 .. n + 1
      BY <1>0
    <3>2. cuts[j] \in Nat /\ cuts[j + 1] \in Nat
      BY <1>0, <3>1
    <3> QED BY <1>0, <3>2
  <2> QED BY <2>1
<1>2. \A j \in 1 .. n + 1 : cuts[j] >= j
  <2> DEFINE T == {i \in Nat : i <= n => cuts[i + 1] >= i + 1}
  <2>1. 0 \in T
    BY <1>0
  <2>2. ASSUME NEW i \in Nat, i \in T PROVE i + 1 \in T
    <3> SUFFICES ASSUME i + 1 <= n PROVE cuts[(i + 1) + 1] >= (i + 1) + 1
      OBVIOUS
    <3>1. i + 1 \in 1 .. n /\ i + 1 \in 1 .. n + 1 /\ (i + 1) + 1 \in 1 .. n + 1
      BY <1>0
    <3>2. cuts[i + 1] >= i + 1 /\ cuts[i + 1] \in Nat /\ cuts[(i + 1) + 1] \in Nat
      BY <1>0, <2>2, <3>1
    <3> QED BY <1>1, <3>1, <3>2
  <2> HIDE DEF T
  <2>3. \A i \in Nat : i \in T
    BY <2>1, <2>2, NatSetInduction
  <2>4. ASSUME NEW j \in 1 .. n + 1 PROVE cuts[j] >= j
    <3>1. j - 1 \in Nat /\ (j - 1) + 1 = j /\ j - 1 <= n
      BY <1>0
    <3>2. j - 1 \in T
      BY <2>3, <3>1
    <3> QED BY <3>1, <3>2 DEF T
  <2> QED BY <2>4
<1>3. \A j \in 1 .. n + 1 : cuts[j] <= m + 2
  <2> DEFINE T == {i \in Nat : i <= n => cuts[n + 1 - i] <= m + 2}
  <2>1. 0 \in T
    <3>1. n + 1 - 0 = n + 1
      BY <1>0
    <3> QED BY <1>0, <3>1
  <2>2. ASSUME NEW i \in Nat, i \in T PROVE i + 1 \in T
    <3> SUFFICES ASSUME i + 1 <= n PROVE cuts[n + 1 - (i + 1)] <= m + 2
      OBVIOUS
    <3>1. PICK j : j = n - i
      OBVIOUS
    <3>2. j \in 1 .. n /\ n + 1 - (i + 1) = j /\ n + 1 - i = j + 1
          /\ j \in 1 .. n + 1 /\ j + 1 \in 1 .. n + 1
      BY <1>0, <3>1
    <3>3. cuts[j + 1] <= m + 2 /\ cuts[j] \in Nat /\ cuts[j + 1] \in Nat
      BY <1>0, <2>2, <3>2
    <3>4. cuts[j + 1] >= cuts[j] + 1
      BY <1>1, <3>2
    <3> QED BY <1>0, <3>2, <3>3, <3>4
  <2> HIDE DEF T
  <2>3. \A i \in Nat : i \in T
    BY <2>1, <2>2, NatSetInduction
  <2>4. ASSUME NEW j \in 1 .. n + 1 PROVE cuts[j] <= m + 2
    <3>1. PICK i : i = n + 1 - j
      OBVIOUS
    <3>2. i \in Nat /\ n + 1 - i = j /\ i <= n
      BY <1>0, <3>1
    <3>3. i \in T
      BY <2>3, <3>2
    <3> QED BY <3>2, <3>3 DEF T
  <2> QED BY <2>4
<1>4. \A j \in 1 .. n : cuts[j] < m
  <2>1. ASSUME NEW j \in 1 .. n PROVE cuts[j] < m
    <3>1. j \in 1 .. n + 1 /\ j + 1 \in 1 .. n + 1
      BY <1>0
    <3>2. cuts[j] \in Nat /\ cuts[j + 1] \in Nat /\ cuts[j + 1] <= m + 2
      BY <1>0, <1>3, <3>1
    <3> QED BY <1>0, <3>2
  <2> QED BY <2>1
<1> QED BY <1>0, <1>1, <1>2, <1>3, <1>4

\* The items of a row as it is sent.
LEMMA RowPlaces ==
  ASSUME NEW row, NEW cuts, NEW items, IsRow(row, cuts, items)
  PROVE  /\ Places(cuts, Len(items), Len(row)) /\ row \in Seq(Unit)
         /\ items \in Seq(Seq(Unit)) /\ Len(cuts) = Len(items) + 1
<1>1. Cut(row, cuts) /\ items \in Seq(Seq(Unit)) /\ Len(items) = Len(cuts) - 1
  BY Zenon DEF IsRow
<1>2. /\ row \in Seq(Unit) /\ cuts \in Seq(Nat) /\ Len(cuts) >= 2
      /\ cuts[1] = 1 /\ cuts[Len(cuts)] = Len(row) + 2
  BY <1>1, Zenon DEF Cut
<1>3. PICK n \in Nat : n = Len(items)
  BY <1>1
<1>4. PICK m \in Nat : m = Len(row)
  BY <1>2
<1>5. n \in Nat \ {0} /\ Len(cuts) = n + 1 /\ cuts[n + 1] = m + 2
  <2>1. PICK k \in Nat : k = Len(cuts) /\ k >= 2
    BY <1>2
  <2>2. n = k - 1 /\ cuts[k] = m + 2
    BY <1>1, <1>2, <1>3, <1>4, <2>1, Zenon
  <2>3. n \in Nat \ {0} /\ k = n + 1
    BY <2>1, <2>2
  <2> QED BY <2>1, <2>2, <2>3, Zenon
<1>6. \A j \in 1 .. n + 1 : cuts[j] \in Nat
  BY <1>2, <1>5
<1>7. ASSUME NEW j \in 1 .. n
      PROVE  cuts[j + 1] >= cuts[j] + 3 \/ (cuts[j + 1] >= cuts[j] + 1 /\ cuts[j] < m)
  <2>1. j \in 1 .. n + 1 /\ j + 1 \in 1 .. n + 1 /\ j \in DOMAIN items
    BY <1>1, <1>3, <1>5
  <2>2. PICK a \in Nat, b \in Nat : a = cuts[j] /\ b = cuts[j + 1]
    BY <1>6, <2>1
  <2>3. PICK item \in Seq(Unit) : item = items[j]
    BY <1>1, <2>1
  <2>4. Len(item) \in Nat
    BY <2>3
  <2>5. InQuotes(row, a, b - 2, item) \/ IsBare(row, a, b - 2, item)
    BY <2>1, <2>2, <2>3, Zenon DEF IsRow
  <2>6. b - 2 = a + Len(item) + 1 \/ (b - 2 = a + Len(item) - 1 /\ a < m)
    BY <1>4, <2>5, Zenon DEF InQuotes, IsBare
  <2>7. b >= a + 3 \/ (b >= a + 1 /\ a < m)
    BY <2>4, <2>6
  <2> QED BY <2>2, <2>7
<1>8. Places(cuts, n, m)
  BY <1>2, <1>5, <1>6, <1>7, Zenon DEF Places
<1> QED BY <1>1, <1>2, <1>3, <1>4, <1>5, <1>8, Zenon

Comma == ","

\* Where one item ends: its row, its beginning, the next one's, and what it is.
ItemEnds(row, m, a, b, item) ==
  /\ row \in Seq(Unit) /\ m \in Nat /\ Len(row) = m
  /\ a \in Nat \ {0} /\ b \in Nat /\ a < m /\ a < b /\ b <= m + 2
  /\ item \in Seq(Unit) /\ (b = m + 2 \/ row[b - 1] = Comma)

\* An item in quotes is read, and the text behind it and its comma.
LEMMA QuotedItemAt ==
  ASSUME NEW row, NEW m, NEW a, NEW b, NEW item, ItemEnds(row, m, a, b, item),
         InQuotes(row, a, b - 2, item)
  PROVE  ParseListItem(From(row, a)) = [ok |-> TRUE, text |-> item, rest |-> From(row, b)]
<1>0. PICK comma : comma = Comma
  OBVIOUS
<1>1. /\ row \in Seq(Unit) /\ m \in Nat /\ Len(row) = m
      /\ a \in Nat \ {0} /\ b \in Nat /\ a < m /\ a < b /\ b <= m + 2
      /\ item \in Seq(Unit) /\ (b = m + 2 \/ row[b - 1] = comma)
  BY <1>0, Zenon DEF ItemEnds
<1>2. PICK l \in Nat : l = Len(item)
  BY <1>1
<1>3. /\ b - 2 = a + l + 1 /\ row[a] = QUOTE /\ row[b - 2] = QUOTE
      /\ \A i \in DOMAIN item : row[a + i] = item[i] /\ item[i] # QUOTE
  BY <1>2, Zenon DEF InQuotes
<1>4. b = a + l + 3 /\ \A i \in 1 .. l : row[a + i] = item[i] /\ item[i] # QUOTE
  <2>1. DOMAIN item = 1 .. l
    BY <1>1, <1>2
  <2>2. b - 2 = a + l + 1
    BY <1>3, Zenon
  <2>3. b = a + l + 3
    BY <1>1, <1>2, <2>2
  <2> QED BY <1>3, <2>1, <2>3, Zenon
<1> DEFINE text == From(row, a)
<1>5. a \in 1 .. m + 1
  BY <1>1
<1>6. text \in Seq(Unit) /\ Len(text) = m + 1 - a /\ \A i \in 1 .. m + 1 - a : text[i] = row[a + i - 1]
  BY <1>1, <1>5, FromUnits
<1>7. From(text, l + 3) = From(row, b - 1)
  <2> DEFINE x == l + 3
             y == b - 1
  <2>1. x \in Nat \ {0} /\ y \in Nat /\ y = a + x - 1
    BY <1>1, <1>2, <1>4
  <2> HIDE DEF x, y
  <2>2. From(From(row, a), x) = From(row, y)
    <3>1. row \in Seq(Unit) /\ m \in Nat /\ Len(row) = m
      BY <1>1, Zenon
    <3> QED BY <1>5, <2>1, <3>1, FromTwice
  <2> QED BY <2>2, Zenon DEF x, y, text
<1> HIDE DEF text
<1>8. l + 2 <= Len(text)
  BY <1>1, <1>4, <1>6
<1>9. text[1] = QUOTE /\ text[l + 2] = QUOTE
  <2>1. 1 \in 1 .. m + 1 - a /\ l + 2 \in 1 .. m + 1 - a /\ a + 1 - 1 = a /\ a + (l + 2) - 1 = b - 2
    BY <1>1, <1>4
  <2> QED BY <1>3, <1>6, <2>1
<1>10. ASSUME NEW i \in 1 .. l PROVE text[i + 1] = item[i] /\ item[i] # QUOTE
  <2>1. i + 1 \in 1 .. m + 1 - a /\ a + (i + 1) - 1 = a + i
    BY <1>1, <1>4
  <2> QED BY <1>4, <1>6, <2>1
<1>11. ParseListItem(text) = [ok |-> TRUE, text |-> item, rest |-> SkipComma(From(text, l + 3))]
  BY <1>1, <1>2, <1>6, <1>8, <1>9, <1>10, QuotedRead
<1>12. SkipComma(From(row, b - 1)) = From(row, b)
  <2>1. b - 1 \in 1 .. m + 1 /\ (b - 1 = m + 1 \/ row[b - 1] = comma) /\ (b - 1) + 1 = b
    BY <1>1
  <2>2. SkipComma(From(row, b - 1)) = IF b - 1 = m + 1 \/ row[b - 1] = Comma THEN From(row, (b - 1) + 1)
                                      ELSE From(row, b - 1)
    BY <1>1, <2>1, SkipIs, Zenon DEF Comma
  <2> QED BY <1>0, <2>1, <2>2, Zenon
<1> QED BY <1>7, <1>11, <1>12, Zenon DEF text

\* A bare item is read, and the text behind its comma.
LEMMA BareItemAt ==
  ASSUME NEW row, NEW m, NEW a, NEW b, NEW item, ItemEnds(row, m, a, b, item),
         IsBare(row, a, b - 2, item)
  PROVE  ParseListItem(From(row, a)) = [ok |-> TRUE, text |-> item, rest |-> From(row, b)]
<1>0. PICK comma : comma = Comma
  OBVIOUS
<1>1. /\ row \in Seq(Unit) /\ m \in Nat /\ Len(row) = m
      /\ a \in Nat \ {0} /\ b \in Nat /\ a < m /\ a < b /\ b <= m + 2
      /\ item \in Seq(Unit) /\ (b = m + 2 \/ row[b - 1] = comma)
  BY <1>0, Zenon DEF ItemEnds
<1>2. PICK l \in Nat : l = Len(item)
  BY <1>1
<1>3. /\ b - 2 = a + l - 1 /\ row[a] # QUOTE
      /\ \A i \in DOMAIN item : row[a + i - 1] = item[i] /\ item[i] # comma
  BY <1>0, <1>2, Zenon DEF IsBare, Comma
<1>4. b = a + l + 1 /\ \A i \in 1 .. l : row[a + i - 1] = item[i] /\ item[i] # comma
  <2>1. DOMAIN item = 1 .. l
    BY <1>1, <1>2
  <2>2. b - 2 = a + l - 1
    BY <1>3, Zenon
  <2>3. b = a + l + 1
    BY <1>1, <1>2, <2>2
  <2> QED BY <1>3, <2>1, <2>3, Zenon
<1> DEFINE text == From(row, a)
<1>5. a \in 1 .. m + 1
  BY <1>1
<1>6. text \in Seq(Unit) /\ Len(text) = m + 1 - a /\ \A i \in 1 .. m + 1 - a : text[i] = row[a + i - 1]
  BY <1>1, <1>5, FromUnits
<1>7. From(text, l + 2) = From(row, b)
  <2> DEFINE x == l + 2
  <2>1. x \in Nat \ {0} /\ b \in Nat /\ b = a + x - 1
    BY <1>1, <1>2, <1>4
  <2> HIDE DEF x
  <2>2. From(From(row, a), x) = From(row, b)
    <3>1. row \in Seq(Unit) /\ m \in Nat /\ Len(row) = m
      BY <1>1, Zenon
    <3> QED BY <1>5, <2>1, <3>1, FromTwice
  <2> QED BY <2>2, Zenon DEF x, text
<1> HIDE DEF text
<1>8. l <= Len(text) /\ 2 <= Len(text) /\ ~(Len(text) < 2)
  BY <1>1, <1>4, <1>6
<1>9. text[1] # QUOTE
  <2>1. 1 \in 1 .. m + 1 - a /\ a + 1 - 1 = a
    BY <1>1
  <2> QED BY <1>3, <1>6, <2>1
<1>10. ASSUME NEW i \in 1 .. l PROVE text[i] = item[i] /\ item[i] # comma
  <2>1. i \in 1 .. m + 1 - a
    BY <1>1, <1>4
  <2> QED BY <1>4, <1>6, <2>1
<1>11. ASSUME l < Len(text) PROVE text[l + 1] = comma
  <2>1. l + 1 \in 1 .. m + 1 - a /\ a + (l + 1) - 1 = b - 1 /\ b # m + 2
    BY <1>1, <1>4, <1>6, <1>11
  <2> QED BY <1>1, <1>6, <2>1
<1>12. Bare(text, Place(comma, text)) = [ok |-> TRUE, text |-> item, rest |-> From(text, l + 2)]
  <2>1. item \in Seq(Unit) /\ Len(item) = l /\ text \in Seq(Unit) /\ l <= Len(text)
    BY <1>1, <1>2, <1>6, <1>8, Zenon
  <2>2. \A i \in 1 .. l : text[i] = item[i] /\ item[i] # comma
    BY <1>10, Zenon
  <2>3. l < Len(text) => text[l + 1] = comma
    BY <1>11, Zenon
  <2> QED BY <2>1, <2>2, <2>3, BareUpTo, Zenon
<1>13. ParseListItem(text) = Bare(text, Place(comma, text))
  BY <1>0, <1>8, <1>9, Zenon DEF ParseListItem, Comma
<1> QED BY <1>7, <1>12, <1>13, Zenon DEF text

\* Item j of a row is read, and the text behind it.
LEMMA ItemAt ==
  ASSUME NEW row, NEW cuts, NEW items, IsRow(row, cuts, items), NEW j \in 1 .. Len(items)
  PROVE  ParseListItem(From(row, cuts[j]))
           = [ok |-> TRUE, text |-> items[j], rest |-> From(row, cuts[j + 1])]
<1>1. /\ Places(cuts, Len(items), Len(row)) /\ row \in Seq(Unit)
      /\ items \in Seq(Seq(Unit)) /\ Len(cuts) = Len(items) + 1
  BY RowPlaces
<1>2. PICK n \in Nat : n = Len(items)
  BY <1>1
<1>3. PICK m \in Nat : m = Len(row)
  BY <1>1
<1>4. /\ \A i \in 1 .. n + 1 : cuts[i] \in Nat /\ cuts[i] >= i /\ cuts[i] <= m + 2
      /\ \A i \in 1 .. n : cuts[i + 1] >= cuts[i] + 1 /\ cuts[i] < m
  BY <1>1, <1>2, <1>3, PlacesGrow, Zenon
<1>5. j \in 1 .. n /\ j \in 1 .. n + 1 /\ j + 1 \in 1 .. n + 1 /\ j \in DOMAIN items
  BY <1>1, <1>2
<1>6. PICK a \in Nat, b \in Nat : a = cuts[j] /\ b = cuts[j + 1]
  BY <1>4, <1>5
<1>7. a >= j /\ a < m /\ b >= a + 1 /\ b <= m + 2
  BY <1>4, <1>5, <1>6, Zenon
<1>8. b = m + 2 \/ row[b - 1] = Comma
  <2>1. CASE j = n
    BY <1>1, <1>2, <1>3, <1>6, <2>1, Zenon DEF Places
  <2>2. CASE j # n
    <3>1. j + 1 \in 2 .. (n + 1) - 1
      BY <1>5, <2>2
    <3>2. j + 1 \in 2 .. Len(cuts) - 1
      BY <1>1, <1>2, <3>1, Zenon
    <3>3. Cut(row, cuts)
      BY Zenon DEF IsRow
    <3> QED BY <1>6, <3>2, <3>3, Zenon DEF Cut, Comma
  <2> QED BY <2>1, <2>2
<1>9. PICK item \in Seq(Unit) : item = items[j]
  BY <1>1, <1>5
<1>10. ItemEnds(row, m, a, b, item)
  <2>1. a \in Nat \ {0} /\ a < b
    BY <1>5, <1>7
  <2> QED BY <1>1, <1>3, <1>7, <1>8, <2>1, Zenon DEF ItemEnds
<1>11. InQuotes(row, a, b - 2, item) \/ IsBare(row, a, b - 2, item)
  BY <1>5, <1>6, <1>9, Zenon DEF IsRow
<1>12. ParseListItem(From(row, a)) = [ok |-> TRUE, text |-> item, rest |-> From(row, b)]
  <2>1. CASE InQuotes(row, a, b - 2, item)
    BY <1>10, <2>1, QuotedItemAt, Zenon
  <2>2. CASE IsBare(row, a, b - 2, item)
    BY <1>10, <2>2, BareItemAt, Zenon
  <2> QED BY <1>11, <2>1, <2>2
<1> QED BY <1>6, <1>9, <1>12, Zenon

-----------------------------------------------------------------------------
(* Reading the items of a row                                              *)

\* The first items of a list, and the state of the reading after them.
FirstOf(items, j) == [i \in 1 .. j |-> items[i]]
Have(row, cuts, items, j) ==
  [ok |-> TRUE, list |-> FirstOf(items, j), rest |-> From(row, cuts[j + 1])]

\* One item more; none; all.
LEMMA FirstGrows ==
  ASSUME NEW items, NEW j \in Nat
  PROVE  Append(FirstOf(items, j), items[j + 1]) = FirstOf(items, j + 1)
<1> DEFINE item(i) == items[i]
           S == {item(i) : i \in 1 .. j + 1}
<1>1. /\ FirstOf(items, j) = [i \in 1 .. j |-> item(i)]
      /\ FirstOf(items, j + 1) = [i \in 1 .. j + 1 |-> item(i)]
  BY DEF FirstOf
<1>2. \A i \in 1 .. j : item(i) \in S
  OBVIOUS
<1>3. item(j + 1) \in S /\ items[j + 1] = item(j + 1)
  OBVIOUS
<1> HIDE DEF item, S
<1>4. Append([i \in 1 .. j |-> item(i)], item(j + 1)) = [i \in 1 .. j + 1 |-> item(i)]
  BY <1>2, <1>3
<1> QED BY <1>1, <1>3, <1>4, Zenon

LEMMA FirstNone ==
  ASSUME NEW items
  PROVE  FirstOf(items, 0) = <<>>
BY DEF FirstOf

LEMMA FirstAll ==
  ASSUME NEW S, NEW items \in Seq(S), NEW n, n = Len(items)
  PROVE  FirstOf(items, n) = items
BY DEF FirstOf

\* The text from its first unit is the text.
LEMMA FromFirst ==
  ASSUME NEW text \in Seq(Unit)
  PROVE  From(text, 1) = text
<1>1. SubSeq(text, 1, Len(text)) = text
  BY StartIs
<1> QED BY <1>1, Zenon DEF From

\* Where the reading is after j items, and whether there is more.
LEMMA RowRest ==
  ASSUME NEW row, NEW cuts, NEW items, IsRow(row, cuts, items), NEW j \in Nat, j <= Len(items)
  PROVE  /\ j < Len(items) => From(row, cuts[j + 1]) # <<>>
         /\ j = Len(items) => From(row, cuts[j + 1]) = <<>>
<1>1. /\ Places(cuts, Len(items), Len(row)) /\ row \in Seq(Unit)
      /\ items \in Seq(Seq(Unit))
  BY RowPlaces
<1>2. PICK n \in Nat : n = Len(items)
  BY <1>1
<1>3. PICK m \in Nat : m = Len(row)
  BY <1>1
<1>4. /\ \A i \in 1 .. n + 1 : cuts[i] \in Nat /\ cuts[i] >= i /\ cuts[i] <= m + 2
      /\ \A i \in 1 .. n : cuts[i + 1] >= cuts[i] + 1 /\ cuts[i] < m
  BY <1>1, <1>2, <1>3, PlacesGrow, Zenon
<1>5. ASSUME j < n PROVE From(row, cuts[j + 1]) # <<>>
  <2>1. j + 1 \in 1 .. n /\ j + 1 \in 1 .. n + 1
    BY <1>5
  <2>2. PICK a : a = cuts[j + 1]
    OBVIOUS
  <2>3. a \in Nat /\ a >= j + 1 /\ a < m
    BY <1>4, <2>1, <2>2
  <2>4. a \in 1 .. m + 1
    BY <2>3
  <2>5. From(row, a) \in Seq(Unit) /\ Len(From(row, a)) = m + 1 - a
    BY <1>1, <1>3, <2>4, FromUnits
  <2> DEFINE t == From(row, a)
  <2> HIDE DEF t
  <2>6. t # <<>>
    <3>1. t \in Seq(Unit) /\ Len(t) = m + 1 - a
      BY <2>5 DEF t
    <3> QED BY <2>3, <3>1
  <2> QED BY <2>2, <2>6 DEF t
<1>6. ASSUME j = n PROVE From(row, cuts[j + 1]) = <<>>
  <2>1. PICK a : a = m + 2
    OBVIOUS
  <2>2. cuts[j + 1] = a
    BY <1>1, <1>2, <1>3, <1>6, <2>1, Zenon DEF Places
  <2>3. a \in Nat /\ a > Len(row)
    BY <1>3, <2>1
  <2>4. From(row, a) = <<>>
    BY <1>1, <2>3, FromBeyond
  <2> QED BY <2>2, <2>4, Zenon
<1> QED BY <1>2, <1>5, <1>6, Zenon

\* One item more is read.
LEMMA HaveGrows ==
  ASSUME NEW row, NEW cuts, NEW items, NEW j \in Nat,
         ParseListItem(From(row, cuts[j + 1]))
           = [ok |-> TRUE, text |-> items[j + 1], rest |-> From(row, cuts[(j + 1) + 1])]
  PROVE  NextItem(Have(row, cuts, items, j)) = Have(row, cuts, items, j + 1)
<1>4. PICK r : r = From(row, cuts[j + 1])
  OBVIOUS
<1>5. PICK u : u = From(row, cuts[(j + 1) + 1])
  OBVIOUS
<1>6. PICK f : f = FirstOf(items, j)
  OBVIOUS
<1>7. PICK x : x = items[j + 1]
  OBVIOUS
<1>8. Have(row, cuts, items, j) = [ok |-> TRUE, list |-> f, rest |-> r]
  BY <1>4, <1>6, Zenon DEF Have
<1>9. Append(f, x) = FirstOf(items, j + 1)
  BY <1>6, <1>7, FirstGrows, Zenon
<1>10. Have(row, cuts, items, j + 1) = [ok |-> TRUE, list |-> Append(f, x), rest |-> u]
  BY <1>5, <1>9, Zenon DEF Have
<1>11. ParseListItem(r) = [ok |-> TRUE, text |-> x, rest |-> u]
  BY <1>4, <1>5, <1>7, Zenon
<1>12. PICK read : read = [ok |-> TRUE, list |-> f, rest |-> r]
  OBVIOUS
<1>13. read.ok /\ read.list = f /\ read.rest = r
  BY <1>12
<1>14. PICK part : part = [ok |-> TRUE, text |-> x, rest |-> u]
  OBVIOUS
<1>15. part.ok = TRUE /\ part.text = x /\ part.rest = u
  BY <1>14
<1>16. NextItem(read) = Then(read, part)
  BY <1>11, <1>13, <1>14, Zenon DEF NextItem
<1>17. Then(read, part) = [ok |-> TRUE, list |-> Append(f, x), rest |-> u]
  BY <1>13, <1>15, Zenon DEF Then
<1> QED BY <1>8, <1>10, <1>12, <1>16, <1>17, Zenon

LEMMA NextIs ==
  ASSUME NEW row, NEW cuts, NEW items, IsRow(row, cuts, items), NEW j \in Nat, j < Len(items)
  PROVE  NextItem(Have(row, cuts, items, j)) = Have(row, cuts, items, j + 1)
<1>1. Len(items) \in Nat
  <2>1. items \in Seq(Seq(Unit))
    BY RowPlaces
  <2> QED BY <2>1
<1>2. j + 1 \in 1 .. Len(items)
  BY <1>1
<1>3. ParseListItem(From(row, cuts[j + 1]))
        = [ok |-> TRUE, text |-> items[j + 1], rest |-> From(row, cuts[(j + 1) + 1])]
  BY <1>2, ItemAt, Zenon
<1> QED BY <1>3, HaveGrows, Zenon

ItemReaders == {"item", "last item"}

\* The items of a row are read one after the other.
LEMMA ItemsRead ==
  ASSUME NEW row, NEW cuts, NEW items, IsRow(row, cuts, items), NEW what \in ItemReaders
  PROVE  \A j \in Nat : j <= Len(items) => Repeated(j, row, what) = Have(row, cuts, items, j)
<1> DEFINE T == {j \in Nat : j <= Len(items) => Repeated(j, row, what) = Have(row, cuts, items, j)}
<1>0. row \in Seq(Unit) /\ items \in Seq(Seq(Unit)) /\ cuts[1] = 1 /\ Len(items) \in Nat
  <2>1. Places(cuts, Len(items), Len(row)) /\ row \in Seq(Unit) /\ items \in Seq(Seq(Unit))
    BY RowPlaces
  <2>2. Len(items) \in Nat
    BY <2>1
  <2> QED BY <2>1, <2>2, Zenon DEF Places
<1>1. 0 \in T
  <2>1. 0 \in Int /\ 0 <= 0 /\ 0 + 1 = 1 /\ 0 \in Nat
    OBVIOUS
  <2>2. Repeated(0, row, what) = Nothing(row)
    BY <2>1, RepeatedIs, Zenon
  <2>3. From(row, cuts[0 + 1]) = row
    BY <1>0, <2>1, FromFirst, Zenon
  <2>4. Have(row, cuts, items, 0) = Nothing(row)
    BY <2>3, FirstNone, Zenon DEF Have, Nothing
  <2> QED BY <2>1, <2>2, <2>4, Zenon
<1>2. ASSUME NEW j \in Nat, j \in T PROVE j + 1 \in T
  <2> SUFFICES ASSUME j + 1 <= Len(items)
               PROVE  Repeated(j + 1, row, what) = Have(row, cuts, items, j + 1)
    OBVIOUS
  <2>1. j < Len(items) /\ j <= Len(items)
    BY <1>0
  <2>2. Repeated(j, row, what) = Have(row, cuts, items, j)
    BY <1>2, <2>1
  <2>3. Repeated(j + 1, row, what) = ReadNext(what, Have(row, cuts, items, j))
    BY <2>2, RepeatedIs, Zenon
  <2>4. NextItem(Have(row, cuts, items, j)) = Have(row, cuts, items, j + 1)
    BY <2>1, NextIs, Zenon
  <2>5. From(row, cuts[j + 1]) # <<>>
    BY <2>1, RowRest
  <2>6. Have(row, cuts, items, j).rest # <<>>
    BY <2>5, Zenon DEF Have
  <2>7. LastItem(Have(row, cuts, items, j)) = NextItem(Have(row, cuts, items, j))
    BY <2>6, Zenon DEF LastItem
  <2>8. ReadNext(what, Have(row, cuts, items, j)) = NextItem(Have(row, cuts, items, j))
    <3>1. CASE what = "item"
      BY <3>1 DEF ReadNext
    <3>2. CASE what = "last item"
      <4>1. ReadNext("last item", Have(row, cuts, items, j)) = LastItem(Have(row, cuts, items, j))
        BY DEF ReadNext
      <4> QED BY <2>7, <3>2, <4>1, Zenon
    <3> QED BY <3>1, <3>2, Zenon DEF ItemReaders
  <2> QED BY <2>3, <2>4, <2>8, Zenon
<1> HIDE DEF T
<1>3. \A j \in Nat : j \in T
  BY <1>1, <1>2, NatSetInduction
<1> QED BY <1>3 DEF T

\* After all of its items a row is empty: nothing more is read, and a further
\* item is missing.
LEMMA AfterAll ==
  ASSUME NEW row, NEW cuts, NEW items, IsRow(row, cuts, items), NEW n, n = Len(items),
         NEW read, read = Have(row, cuts, items, n)
  PROVE  LastItem(read) = read /\ ~NextItem(read).ok
<1>1. n \in Nat
  <2>1. items \in Seq(Seq(Unit))
    BY RowPlaces
  <2> QED BY <2>1
<1>2. From(row, cuts[n + 1]) = <<>>
  <2>1. n <= Len(items)
    BY <1>1
  <2> QED BY <1>1, <2>1, RowRest
<1>3. PICK f : f = FirstOf(items, n)
  OBVIOUS
<1>4. read = [ok |-> TRUE, list |-> f, rest |-> <<>>]
  BY <1>2, <1>3, Zenon DEF Have
<1>5. read.ok /\ read.rest = <<>>
  BY <1>4
<1>6. LastItem(read) = read
  BY <1>5, Zenon DEF LastItem
<1>7. ParseListItem(<<>>) = NoText
  <2>1. Len(<<>>) < 2
    OBVIOUS
  <2> QED BY <2>1, Zenon DEF ParseListItem
<1>8. NextItem(read) = Then(read, NoText)
  BY <1>5, <1>7, Zenon DEF NextItem
<1>9. ~Then(read, NoText).ok
  BY Zenon DEF Then, NoText
<1> QED BY <1>6, <1>8, <1>9, Zenon

\* A row of n items: n are read, and one more cannot be.
LEMMA ItemsOfRow ==
  ASSUME NEW row, NEW cuts, NEW items, IsRow(row, cuts, items)
  PROVE  /\ Items(row, Len(items)) = Have(row, cuts, items, Len(items))
         /\ \A k \in Nat : k > Len(items) => ~Items(row, k).ok
<1>0. PICK n \in Nat : n = Len(items)
  <2>1. items \in Seq(Seq(Unit))
    BY RowPlaces
  <2> QED BY <2>1
<1>1. Items(row, n) = Have(row, cuts, items, n)
  <2>1. n \in Nat /\ n <= Len(items) /\ "item" \in ItemReaders
    BY <1>0 DEF ItemReaders
  <2>2. Repeated(n, row, "item") = Have(row, cuts, items, n)
    BY <2>1, ItemsRead, Zenon
  <2> QED BY <2>2, Zenon DEF Items
<1> DEFINE T == {d \in Nat : ~Items(row, n + 1 + d).ok}
<1>2. \A j \in Nat : Items(row, j + 1) = NextItem(Items(row, j))
  <2>1. ASSUME NEW j \in Nat PROVE Items(row, j + 1) = NextItem(Items(row, j))
    <3>1. Repeated(j + 1, row, "item") = ReadNext("item", Repeated(j, row, "item"))
      BY RepeatedIs, Zenon
    <3>2. \A read : ReadNext("item", read) = NextItem(read)
      BY DEF ReadNext
    <3> QED BY <3>1, <3>2, Zenon DEF Items
  <2> QED BY <2>1, Zenon
<1>3. ~Items(row, n + 1).ok
  <2>1. PICK read : read = Have(row, cuts, items, n)
    OBVIOUS
  <2>2. ~NextItem(read).ok
    BY <1>0, <2>1, AfterAll, Zenon
  <2> QED BY <1>0, <1>1, <1>2, <2>1, <2>2, Zenon
<1>4. 0 \in T
  <2>1. n + 1 + 0 = n + 1
    OBVIOUS
  <2> QED BY <1>3, <2>1
<1>5. ASSUME NEW d \in Nat, d \in T PROVE d + 1 \in T
  <2>1. PICK j \in Nat : j = n + 1 + d
    OBVIOUS
  <2>2. n + 1 + (d + 1) = j + 1
    BY <2>1
  <2>3. ~Items(row, j).ok
    BY <1>5, <2>1
  <2>4. NextItem(Items(row, j)) = Items(row, j)
    BY <2>3, Zenon DEF NextItem
  <2>5. ~Items(row, j + 1).ok
    BY <1>2, <2>3, <2>4, Zenon
  <2> QED BY <2>2, <2>5
<1> HIDE DEF T
<1>6. \A d \in Nat : d \in T
  BY <1>4, <1>5, NatSetInduction
<1>7. ASSUME NEW k \in Nat, k > n PROVE ~Items(row, k).ok
  <2>1. PICK d \in Nat : k = n + 1 + d
    <3>1. k - n - 1 \in Nat /\ k = n + 1 + (k - n - 1)
      BY <1>7
    <3> QED BY <3>1
  <2>2. d \in T
    BY <1>6
  <2> QED BY <2>1, <2>2 DEF T
<1> QED BY <1>0, <1>1, <1>7, Zenon

\* All the items there are, are read.
LEMMA AllItemsRead ==
  ASSUME NEW row, NEW cuts, NEW items, IsRow(row, cuts, items)
  PROVE  AllItems(row) = Have(row, cuts, items, Len(items))
<1>0. /\ Places(cuts, Len(items), Len(row)) /\ row \in Seq(Unit)
      /\ items \in Seq(Seq(Unit))
  BY RowPlaces
<1>1. PICK n \in Nat : n = Len(items)
  BY <1>0
<1>2. PICK m \in Nat : m = Len(row)
  BY <1>0
<1>3. n <= m
  <2>1. n \in Nat \ {0}
    BY <1>0, <1>1, Zenon DEF Places
  <2>2. n \in 1 .. n + 1 /\ n \in 1 .. n
    BY <2>1
  <2>3. cuts[n] \in Nat /\ cuts[n] >= n /\ cuts[n] < m
    BY <1>0, <1>1, <1>2, <2>2, PlacesGrow, Zenon
  <2> QED BY <1>2, <2>3
<1>4. PICK all : all = Have(row, cuts, items, n)
  OBVIOUS
<1> DEFINE T == {d \in Nat : Repeated(n + d, row, "last item") = all}
<1>5. 0 \in T
  <2>1. n \in Nat /\ n <= Len(items) /\ "last item" \in ItemReaders /\ n + 0 = n
    BY <1>1 DEF ItemReaders
  <2>2. Repeated(n, row, "last item") = all
    BY <1>4, <2>1, ItemsRead, Zenon
  <2> QED BY <2>1, <2>2, Zenon
<1>6. ASSUME NEW d \in Nat, d \in T PROVE d + 1 \in T
  <2>1. PICK j \in Nat : j = n + d
    OBVIOUS
  <2>2. n + (d + 1) = j + 1 /\ d + 1 \in Nat
    BY <2>1
  <2>3. Repeated(j, row, "last item") = all
    BY <1>6, <2>1, Zenon
  <2>4. Repeated(j + 1, row, "last item") = ReadNext("last item", all)
    BY <2>3, RepeatedIs, Zenon
  <2>5. \A read : ReadNext("last item", read) = LastItem(read)
    BY DEF ReadNext
  <2>6. LastItem(all) = all
    BY <1>1, <1>4, AfterAll, Zenon
  <2> QED BY <2>2, <2>4, <2>5, <2>6, Zenon
<1>7. \A d \in Nat : d \in T
  <2> HIDE DEF T
  <2> QED BY <1>5, <1>6, NatSetInduction
<1>8. PICK d \in Nat : m = n + d
  <2>1. m - n \in Nat /\ m = n + (m - n)
    BY <1>3
  <2> QED BY <2>1
<1>9. Repeated(m, row, "last item") = all
  BY <1>7, <1>8, Zenon
<1> QED BY <1>1, <1>2, <1>4, <1>9, Zenon DEF AllItems

ReadAs(read, f, r) == read = [ok |-> TRUE, list |-> f, rest |-> r]

\* A row has been read whole when nothing is left of it.
LEMMA WholeIs ==
  ASSUME NEW f, NEW r, NEW read, ReadAs(read, f, r)
  PROVE  /\ r = <<>> => ReadAs(Whole(read), f, r)
         /\ r # <<>> => ~Whole(read).ok
<1> USE DEF ReadAs
<1>1. read.ok = TRUE /\ read.rest = r /\ read.list = f
  OBVIOUS
<1>2. Whole(read) = [read EXCEPT !.ok = (read.ok /\ read.rest = <<>>)]
  BY Zenon DEF Whole
<1>3. CASE r = <<>>
  <2>1. (read.ok /\ read.rest = <<>>) = TRUE
    BY <1>1, <1>3, Zenon
  <2>2. Whole(read) = [read EXCEPT !.ok = TRUE]
    BY <1>2, <2>1, Zenon
  <2> QED BY <1>3, <2>2
<1>4. CASE r # <<>>
  <2>1. (read.ok /\ read.rest = <<>>) = FALSE
    BY <1>1, <1>4, Zenon
  <2>2. Whole(read) = [read EXCEPT !.ok = FALSE]
    BY <1>2, <2>1, Zenon
  <2> QED BY <1>4, <2>2
<1> QED BY <1>3, <1>4

\* A row of n items is read as exactly n, and not as less.
LEMMA ExactlyRead ==
  ASSUME NEW row, NEW cuts, NEW items, IsRow(row, cuts, items)
  PROVE  /\ ReadAs(Exactly(row, Len(items)), items, <<>>)
         /\ \A j \in Nat : j < Len(items) => ~Exactly(row, j).ok
<1>0. items \in Seq(Seq(Unit))
  BY RowPlaces
<1>1. PICK n \in Nat : n = Len(items)
  BY <1>0
<1>2. ReadAs(Exactly(row, n), items, <<>>)
  <2>1. PICK read : read = Items(row, n)
    OBVIOUS
  <2>2. From(row, cuts[n + 1]) = <<>>
    <3>1. n <= Len(items)
      BY <1>1
    <3> QED BY <1>1, <3>1, RowRest
  <2>3. FirstOf(items, n) = items
    BY <1>0, <1>1, FirstAll
  <2>4. ReadAs(read, items, <<>>)
    BY <1>1, <2>1, <2>2, <2>3, ItemsOfRow, Zenon DEF Have, ReadAs
  <2>5. ReadAs(Whole(read), items, <<>>)
    BY <2>4, WholeIs, Zenon
  <2> QED BY <2>1, <2>5, Zenon DEF Exactly
<1>3. ASSUME NEW j \in Nat, j < n PROVE ~Exactly(row, j).ok
  <2>1. PICK read : read = Items(row, j)
    OBVIOUS
  <2>2. From(row, cuts[j + 1]) # <<>>
    <3>1. j <= Len(items) /\ j < Len(items)
      BY <1>1, <1>3
    <3> QED BY <3>1, RowRest
  <2>3. read = Have(row, cuts, items, j)
    <3>1. j <= Len(items) /\ "item" \in ItemReaders
      BY <1>1, <1>3 DEF ItemReaders
    <3> QED BY <2>1, <3>1, ItemsRead, Zenon DEF Items
  <2>4. PICK f, r : f = FirstOf(items, j) /\ r = From(row, cuts[j + 1])
    OBVIOUS
  <2>5. ReadAs(read, f, r) /\ r # <<>>
    BY <2>2, <2>3, <2>4, Zenon DEF Have, ReadAs
  <2>6. ~Whole(read).ok
    BY <2>5, WholeIs, SMTT(30)
  <2> QED BY <2>1, <2>6, Zenon DEF Exactly
<1> QED BY <1>1, <1>2, <1>3, Zenon

-----------------------------------------------------------------------------
(* What each parser of rows reads of a row                                 *)

\* Of a row as it is sent; w is the number of columns of a query.
RowRead(parser, row, w) ==
  CASE parser = "tableinfo" -> Exactly(row, 4)
    [] parser = "columninfo" -> Column(row)
    [] parser = "primarykeys" -> WithNumbers(Exactly(row, 5), {5})
    [] parser = "keyinfo" -> WithNumbers(Exactly(row, 11), 9 .. 11)
    [] parser = "sqlstmnt" -> Items(row, w)
    [] parser = "metadata" -> Items(row, 3)
    [] parser = "dbdescription" -> Items(row, 1)

LEMMA RowReadIs ==
  ASSUME NEW row, NEW w
  PROVE  /\ RowRead("tableinfo", row, w) = Exactly(row, 4)
         /\ RowRead("columninfo", row, w) = Column(row)
         /\ RowRead("primarykeys", row, w) = WithNumbers(Exactly(row, 5), {5})
         /\ RowRead("keyinfo", row, w) = WithNumbers(Exactly(row, 11), 9 .. 11)
         /\ RowRead("sqlstmnt", row, w) = Items(row, w)
         /\ RowRead("metadata", row, w) = Items(row, 3)
         /\ RowRead("dbdescription", row, w) = Items(row, 1)
  BY DEF RowRead

\* The number of items of a row, by the parser.
LEMMA WidthsAre ==
  ASSUME NEW c
  PROVE  /\ c.parser = "tableinfo" => Widths(c) = {4}
         /\ c.parser = "columninfo" => Widths(c) = {11, 12}
         /\ c.parser = "primarykeys" => Widths(c) = {5}
         /\ c.parser = "keyinfo" => Widths(c) = {11}
         /\ c.parser = "sqlstmnt" => Widths(c) = {Len(c.cuts[1]) - 1}
         /\ c.parser = "metadata" => Widths(c) = {3}
         /\ c.parser = "dbdescription" => Widths(c) = {1}
  BY DEF Widths

\* The places of numbers, and the items kept.
LEMMA NumbersAre ==
  ASSUME NEW items
  PROVE  /\ NumbersOf("columninfo") = {5} \cup 7 .. 11 /\ NumbersOf("primarykeys") = {5}
         /\ NumbersOf("keyinfo") = 9 .. 11
         /\ Kept("columninfo", items) = SubSeq(items, 1, 11)
         /\ \A parser : parser # "columninfo" => Kept(parser, items) = items
  BY DEF NumbersOf, Kept

\* Another list in its place.
LEMMA ListReplaced ==
  ASSUME NEW f, NEW r, NEW s, NEW read, ReadAs(read, f, r), NEW kept, kept = [read EXCEPT !.list = s]
  PROVE  ReadAs(kept, s, r)
  BY DEF ReadAs

\* A numeral reads as itself,
LEMMA NumeralIs ==
  ASSUME NEW numeral \in DOMAIN Value
  PROVE  Number(<<numeral>>) = <<numeral>>
<1>1. <<numeral>> # <<>> /\ <<numeral>>[1] = numeral
  OBVIOUS
<1> QED BY <1>1, Zenon DEF Number

\* so that numbers do not change a list that has numerals for them.
LEMMA NumbersKept ==
  ASSUME NEW S, NEW s \in Seq(S), NEW r, NEW read, ReadAs(read, s, r), NEW places,
         \A i \in places : \E numeral \in DOMAIN Value : s[i] = <<numeral>>
  PROVE  ReadAs(WithNumbers(read, places), s, r)
<1>1. read = [ok |-> TRUE, list |-> s, rest |-> r]
  BY Zenon DEF ReadAs
<1>2. \A i \in places : Number(s[i]) = s[i]
  BY NumeralIs, Zenon
<1> DEFINE t == [i \in DOMAIN s |-> IF i \in places THEN Number(s[i]) ELSE s[i]]
<1>3. t = [i \in DOMAIN s |-> s[i]]
  BY <1>2, Zenon
<1>4. s = [i \in DOMAIN s |-> s[i]]
  OBVIOUS
<1>5. t = s
  BY <1>3, <1>4, Zenon
<1>6. read.list = s
  BY <1>1
<1>7. WithNumbers(read, places) = [read EXCEPT !.list = t]
  BY <1>6, Zenon DEF WithNumbers
<1> HIDE DEF t
<1> QED BY <1>5, <1>7, ListReplaced, Zenon

\* The first eleven items of a column.
LEMMA ColumnRead ==
  ASSUME NEW row, NEW cuts, NEW items, IsRow(row, cuts, items), Len(items) \in {11, 12},
         \A i \in {5} \cup 7 .. 11 : \E numeral \in DOMAIN Value : SubSeq(items, 1, 11)[i] = <<numeral>>
  PROVE  ReadAs(Column(row), SubSeq(items, 1, 11), <<>>)
<1>0. items \in Seq(Seq(Unit))
  BY RowPlaces
<1>1. PICK read : read = IF Exactly(row, 11).ok THEN Exactly(row, 11) ELSE Exactly(row, 12)
  OBVIOUS
<1>2. ReadAs(read, items, <<>>)
  <2>1. CASE Len(items) = 11
    <3>1. ReadAs(Exactly(row, 11), items, <<>>)
      BY <2>1, ExactlyRead, Zenon
    <3>2. Exactly(row, 11).ok
      BY <3>1 DEF ReadAs
    <3> QED BY <1>1, <3>1, <3>2, Zenon
  <2>2. CASE Len(items) = 12
    <3>1. ReadAs(Exactly(row, 12), items, <<>>)
      BY <2>2, ExactlyRead, Zenon
    <3>2. 11 \in Nat /\ 11 < 12
      OBVIOUS
    <3>3. ~Exactly(row, 11).ok
      BY <2>2, <3>2, ExactlyRead, Zenon
    <3> QED BY <1>1, <3>1, <3>3, Zenon
  <2> QED BY <2>1, <2>2
<1>3. PICK s : s = SubSeq(items, 1, 11)
  OBVIOUS
<1>4. s \in Seq(Seq(Unit))
  <2>1. PICK n \in Nat : n = Len(items) /\ n \in {11, 12}
    BY <1>0
  <2>2. 11 <= n
    BY <2>1
  <2> QED BY <1>0, <1>3, <2>1, <2>2
<1>5. read.ok = TRUE /\ read.list = items /\ read.rest = <<>>
  BY <1>2 DEF ReadAs
<1>6. PICK kept : kept = [read EXCEPT !.list = s]
  OBVIOUS
<1>7. ReadAs(kept, s, <<>>)
  BY <1>2, <1>6, ListReplaced, Zenon
<1>8. Column(row) = WithNumbers(kept, {5} \cup 7 .. 11)
  BY <1>1, <1>3, <1>5, <1>6, Zenon DEF Column
<1>9. \A i \in {5} \cup 7 .. 11 : \E numeral \in DOMAIN Value : s[i] = <<numeral>>
  BY <1>3, Zenon
<1>10. ReadAs(WithNumbers(kept, {5} \cup 7 .. 11), s, <<>>)
  BY <1>4, <1>7, <1>9, NumbersKept, Zenon
<1> QED BY <1>3, <1>8, <1>10, Zenon

\* n items of a row that has n.
LEMMA ItemsWhole ==
  ASSUME NEW row, NEW cuts, NEW items, IsRow(row, cuts, items), NEW n, n = Len(items)
  PROVE  ReadAs(Items(row, n), items, <<>>) /\ ReadAs(AllItems(row), items, <<>>)
<1>1. items \in Seq(Seq(Unit))
  BY RowPlaces
<1>2. n \in Nat
  BY <1>1
<1>3. FirstOf(items, n) = items
  BY <1>1, FirstAll
<1>4. From(row, cuts[n + 1]) = <<>>
  <2>1. n <= Len(items)
    BY <1>2
  <2> QED BY <1>2, <2>1, RowRest
<1>5. ReadAs(Have(row, cuts, items, n), items, <<>>)
  BY <1>3, <1>4, Zenon DEF ReadAs, Have
<1> QED BY <1>5, ItemsOfRow, AllItemsRead, Zenon

\* A row that is sent as it should be is read as the row of the table.
LEMMA RowSentRead ==
  ASSUME NEW c, NEW k, RowSent(c, k), c.parser \in Listed,
         NEW row, row = Sent(c.whole, c.at, k), NEW w, w = Len(c.cuts[1]) - 1
  PROVE  ReadAs(RowRead(c.parser, row, w), c.table[k], <<>>)
<1>1. PICK cuts, items : cuts = c.cuts[k] /\ items = c.sent[k]
  OBVIOUS
<1>2. PICK table : table = c.table[k]
  OBVIOUS
<1>3. IsRow(row, cuts, items) /\ Len(items) \in Widths(c)
  BY <1>1, Zenon DEF RowSent
<1>4. table = Kept(c.parser, items)
  BY <1>1, <1>2, Zenon DEF RowSent
<1>5. \A i \in NumbersOf(c.parser) : \E numeral \in DOMAIN Value : table[i] = <<numeral>>
  BY <1>2, Zenon DEF RowSent
<1>6. items \in Seq(Seq(Unit))
  BY <1>3, RowPlaces, Zenon
<1>7. c.parser # "columninfo" => table = items
  BY <1>4, NumbersAre, Zenon
<1>8. ReadAs(RowRead(c.parser, row, w), table, <<>>)
  <2>1. CASE c.parser = "tableinfo"
    <3>1. Len(items) = 4
      BY <1>3, <2>1, WidthsAre
    <3>2. table = items
      BY <1>7, <2>1
    <3>3. ReadAs(Exactly(row, 4), items, <<>>)
      BY <1>3, <3>1, ExactlyRead, Zenon
    <3> QED BY <2>1, <3>2, <3>3, RowReadIs, Zenon
  <2>2. CASE c.parser = "columninfo"
    <3>1. Len(items) \in {11, 12}
      BY <1>3, <2>2, WidthsAre
    <3>2. table = SubSeq(items, 1, 11)
      BY <1>4, <2>2, NumbersAre, Zenon
    <3>3. \A i \in {5} \cup 7 .. 11 : \E numeral \in DOMAIN Value : SubSeq(items, 1, 11)[i] = <<numeral>>
      BY <1>5, <2>2, <3>2, NumbersAre, Zenon
    <3>4. ReadAs(Column(row), SubSeq(items, 1, 11), <<>>)
      BY <1>3, <3>1, <3>3, ColumnRead, Zenon
    <3> QED BY <2>2, <3>2, <3>4, RowReadIs, Zenon
  <2>3. CASE c.parser = "primarykeys"
    <3>1. Len(items) = 5
      BY <1>3, <2>3, WidthsAre
    <3>2. table = items
      BY <1>7, <2>3
    <3>3. ReadAs(Exactly(row, 5), items, <<>>)
      BY <1>3, <3>1, ExactlyRead, Zenon
    <3>4. \A i \in {5} : \E numeral \in DOMAIN Value : items[i] = <<numeral>>
      BY <1>5, <2>3, <3>2, NumbersAre, Zenon
    <3>5. ReadAs(WithNumbers(Exactly(row, 5), {5}), items, <<>>)
      BY <1>6, <3>3, <3>4, NumbersKept, Zenon
    <3> QED BY <2>3, <3>2, <3>5, RowReadIs, Zenon
  <2>4. CASE c.parser = "keyinfo"
    <3>1. Len(items) = 11
      BY <1>3, <2>4, WidthsAre
    <3>2. table = items
      BY <1>7, <2>4
    <3>3. ReadAs(Exactly(row, 11), items, <<>>)
      BY <1>3, <3>1, ExactlyRead, Zenon
    <3>4. \A i \in 9 .. 11 : \E numeral \in DOMAIN Value : items[i] = <<numeral>>
      BY <1>5, <2>4, <3>2, NumbersAre, Zenon
    <3>5. ReadAs(WithNumbers(Exactly(row, 11), 9 .. 11), items, <<>>)
      BY <1>6, <3>3, <3>4, NumbersKept, Zenon
    <3> QED BY <2>4, <3>2, <3>5, RowReadIs, Zenon
  <2>5. CASE c.parser = "sqlstmnt"
    <3>1. Len(items) = w
      BY <1>3, <2>5, WidthsAre
    <3>2. table = items
      BY <1>7, <2>5
    <3>3. ReadAs(Items(row, w), items, <<>>)
      BY <1>3, <3>1, ItemsWhole, Zenon
    <3> QED BY <2>5, <3>2, <3>3, RowReadIs, Zenon
  <2>6. CASE c.parser = "metadata"
    <3>1. Len(items) = 3
      BY <1>3, <2>6, WidthsAre
    <3>2. table = items
      BY <1>7, <2>6
    <3>3. ReadAs(Items(row, 3), items, <<>>)
      BY <1>3, <3>1, ItemsWhole, Zenon
    <3> QED BY <2>6, <3>2, <3>3, RowReadIs, Zenon
  <2>7. CASE c.parser = "dbdescription"
    <3>1. Len(items) = 1
      BY <1>3, <2>7, WidthsAre
    <3>2. table = items
      BY <1>7, <2>7
    <3>3. ReadAs(Items(row, 1), items, <<>>)
      BY <1>3, <3>1, ItemsWhole, Zenon
    <3> QED BY <2>7, <3>2, <3>3, RowReadIs, Zenon
  <2> QED BY <2>1, <2>2, <2>3, <2>4, <2>5, <2>6, <2>7, Zenon DEF Listed
<1> QED BY <1>2, <1>8, Zenon

-----------------------------------------------------------------------------
(* The strings of a complete reply                                         *)

\* Without a zero, a string is itself.
LEMMA NoZero ==
  ASSUME NEW text \in Seq(Unit), \A i \in 1 .. Len(text) : text[i] # NUL
  PROVE  CString(text) = text
<1>1. ~Contains(text, NUL)
  BY DEF Contains
<1> QED BY <1>1, Zenon DEF CString

\* A reply of n strings, the k-th from at[k].
Delivered(c, n) ==
  /\ Received(c.whole, c.whole, c.at, Spare(c.parser)) /\ c.text = c.whole
  /\ n \in Nat /\ Len(c.at) = n + 1

\* A complete reply is such.
LEMMA CompleteIs ==
  ASSUME NEW c, Complete(c)
  PROVE  Delivered(c, Len(c.at) - 1) /\ Len(c.at) - 1 \in Nat
<1>1. Framed(c.whole, c.at, Spare(c.parser)) /\ c.text = c.whole
  BY Zenon DEF Complete
<1>2. c.whole \in Seq(Unit) /\ c.at \in Seq(Nat) /\ c.at # <<>>
  BY <1>1, Zenon DEF Framed
<1>3. Spare(c.parser) \in Nat
  BY DEF Spare
<1>4. Len(c.whole) <= Len(c.whole)
  BY <1>2
<1>5. Received(c.whole, c.whole, c.at, Spare(c.parser))
  BY <1>1, <1>2, <1>3, <1>4, Zenon DEF Received
<1>6. PICK k \in Nat : k = Len(c.at) /\ k # 0
  BY <1>2
<1>7. k - 1 \in Nat /\ k = (k - 1) + 1
  BY <1>6
<1> QED BY <1>1, <1>5, <1>6, <1>7, Zenon DEF Delivered

\* No string begins beyond the end of its reply.
LEMMA StringsEnd ==
  ASSUME NEW text, NEW whole, NEW at, NEW spare, Received(text, whole, at, spare)
  PROVE  /\ Len(whole) \in Nat /\ \A k \in 1 .. Len(at) : at[k] <= Len(whole) + 1
<1>1. /\ Len(at) \in Nat \ {0}
      /\ \A k \in 1 .. Len(at) : at[k] \in Nat
      /\ \A k \in 1 .. Len(at) - 1 : at[k + 1] >= at[k] + 2
      /\ at[Len(at)] + spare = Len(whole) + 1
  BY StringsAt
<1>2. PICK n \in Nat, m \in Nat, z \in Nat : n = Len(at) - 1 /\ m = Len(whole) /\ z = spare
  <2>1. Len(at) - 1 \in Nat /\ spare \in Nat /\ Len(whole) \in Nat
    <3>1. spare \in Nat /\ whole \in Seq(Unit)
      BY Zenon DEF Received, Framed
    <3> QED BY <1>1, <3>1
  <2> QED BY <2>1
<1>3. Len(at) = n + 1
  BY <1>1, <1>2
<1> DEFINE T == {d \in Nat : d <= n => at[n + 1 - d] <= m + 1}
<1>4. 0 \in T
  <2>1. n + 1 - 0 = n + 1 /\ n + 1 \in 1 .. n + 1
    OBVIOUS
  <2>2. at[n + 1] \in Nat /\ at[n + 1] + z = m + 1
    BY <1>1, <1>2, <1>3, <2>1
  <2> QED BY <2>1, <2>2
<1>5. ASSUME NEW d \in Nat, d \in T PROVE d + 1 \in T
  <2> SUFFICES ASSUME d + 1 <= n PROVE at[n + 1 - (d + 1)] <= m + 1
    OBVIOUS
  <2>1. PICK k \in Nat : k = n - d
    <3>1. n - d \in Nat
      OBVIOUS
    <3> QED BY <3>1
  <2>2. k \in 1 .. n /\ n + 1 - (d + 1) = k /\ n + 1 - d = k + 1 /\ d <= n
        /\ k \in 1 .. n + 1 /\ k + 1 \in 1 .. n + 1 /\ (n + 1) - 1 = n
    BY <2>1
  <2>3. at[k + 1] <= m + 1
    BY <1>5, <2>2
  <2>4. at[k] \in Nat /\ at[k + 1] \in Nat /\ at[k + 1] >= at[k] + 2
    BY <1>1, <1>3, <2>2
  <2> QED BY <2>2, <2>3, <2>4
<1> HIDE DEF T
<1>6. \A d \in Nat : d \in T
  BY <1>4, <1>5, NatSetInduction
<1>7. ASSUME NEW k \in 1 .. n + 1 PROVE at[k] <= m + 1
  <2>1. PICK d \in Nat : d = n + 1 - k
    OBVIOUS
  <2>2. d <= n /\ n + 1 - d = k
    BY <2>1
  <2>3. d \in T
    BY <1>6
  <2> QED BY <2>2, <2>3 DEF T
<1> QED BY <1>2, <1>3, <1>7

\* The count of such a reply, and its strings from the s-th, are read.
LEMMA DeliveredRead ==
  ASSUME NEW c, NEW n, Delivered(c, n)
  PROVE  /\ ParseNumber(c.text) = [ok |-> TRUE, n |-> n, rest |-> From(c.whole, c.at[1])]
         /\ \A s, k \in Nat : s >= 1 /\ s + k <= n + 1 =>
              /\ Strings(From(c.whole, c.at[s]), k).ok
              /\ Strings(From(c.whole, c.at[s]), k).list = ListAt(c.whole, c.at, s, k)
<1>1. PICK whole, at, spare : whole = c.whole /\ at = c.at /\ spare = Spare(c.parser)
  OBVIOUS
<1>2. Received(whole, whole, at, spare) /\ n \in Nat /\ Len(at) = n + 1 /\ c.text = whole
  BY <1>1, Zenon DEF Delivered
<1>3. /\ Len(whole) \in Nat /\ \A k \in 1 .. Len(at) : at[k] <= Len(whole) + 1
  BY <1>2, StringsEnd, Zenon
<1>4. ParseNumber(c.text) = [ok |-> TRUE, n |-> n, rest |-> From(whole, at[1])]
  <2>1. at[1] = 3 /\ 1 \in 1 .. Len(at)
    BY <1>2, StringsAt
  <2>2. Len(whole) >= 2
    BY <1>3, <2>1
  <2>3. ParseNumber(whole) = [ok |-> TRUE, n |-> Len(at) - 1, rest |-> From(whole, 3)]
    BY <1>2, <2>2, CountRead
  <2>4. Len(at) - 1 = n
    BY <1>2
  <2> QED BY <1>2, <2>1, <2>3, <2>4, Zenon
<1>5. ASSUME NEW s \in Nat, NEW k \in Nat, s >= 1, s + k <= n + 1
      PROVE  /\ Strings(From(whole, at[s]), k).ok
             /\ Strings(From(whole, at[s]), k).list = ListAt(whole, at, s, k)
  <2>1. s \in 1 .. Len(at) /\ s + k \in 1 .. Len(at) /\ s + k <= Len(at)
    BY <1>2, <1>5
  <2>2. at[s] <= Len(whole) + 1 /\ at[s + k] <= Len(whole) + 1
    BY <1>3, <2>1
  <2>3. StringsAre(whole, at, s, k)
    BY <1>2, <2>1, <2>2, StringsRead
  <2> QED BY <2>2, <2>3, Zenon DEF StringsAre
<1> QED BY <1>1, <1>4, <1>5, Zenon

\* Without a zero byte, the strings read are the strings sent.
LEMMA SentRead ==
  ASSUME NEW c, Complete(c), NEW n, n = Len(c.at) - 1, NEW k \in 1 .. n
  PROVE  /\ Sent(c.whole, c.at, k) \in Seq(Unit)
         /\ ~(c.parser = "file_content" /\ k = 1) =>
              StringAt(c.whole, c.at, k) = Sent(c.whole, c.at, k)
<1>1. PICK whole, at, spare : whole = c.whole /\ at = c.at /\ spare = Spare(c.parser)
  OBVIOUS
<1>2. Received(whole, whole, at, spare) /\ n \in Nat /\ Len(at) = n + 1
  BY <1>1, CompleteIs, Zenon DEF Delivered
<1>3. PICK a \in Nat, b \in Nat, m \in Nat :
        a = at[k] /\ b = at[k + 1] /\ m = Len(whole) /\ a >= 3 /\ b >= a + 2 /\ b <= m + 1
  <2>1. k \in 1 .. Len(at) /\ k + 1 \in 1 .. Len(at) /\ k \in 1 .. Len(at) - 1
    BY <1>2
  <2>2. at[k] \in Nat /\ at[k] >= 3 /\ at[k + 1] \in Nat /\ at[k + 1] >= at[k] + 2
    BY <1>2, <2>1, StringsAt
  <2>3. Len(whole) \in Nat /\ at[k + 1] <= Len(whole) + 1
    BY <1>2, <2>1, StringsEnd
  <2> QED BY <2>2, <2>3
<1>4. /\ a = at[k] /\ b = at[k + 1] /\ m = Len(whole)
      /\ a >= 3 /\ b >= a + 2 /\ b <= m + 1
  BY <1>3, Zenon
<1>5. b >= a + 2 /\ b <= m + 1 /\ a >= 3
  BY <1>4, Zenon
<1>6. PICK l \in Nat : l + a + 2 = b
  <2> DEFINE d == b - a - 2
  <2>1. a \in Nat /\ b \in Nat /\ b >= a + 2
    BY <1>3, <1>5, Zenon
  <2>2. d \in Nat
    BY <2>1
  <2>3. d + a + 2 = b
    BY <2>1
  <2> QED BY <2>2, <2>3
<1> DEFINE string == SubSeq(whole, a + 2, b - 1)
<1>7. string \in Seq(Unit) /\ Len(string) = l /\ \A i \in 1 .. l : string[i] = whole[(a + 2) + i - 1]
  <2>1. l \in Nat /\ a + 2 \in Nat /\ b - 1 = (a + 2) + l - 1 /\ b - 1 <= m
        /\ a + 2 >= 1 /\ b - 1 \in Nat
    BY <1>5, <1>6
  <2>2. whole \in Seq(Unit)
    BY <1>2 DEF Received
  <2>3. PICK s \in Nat, e \in Nat : s = a + 2 /\ e = b - 1
    BY <2>1
  <2>4. s # 0 /\ e <= m /\ s + l = e + 1
    BY <1>5, <2>1, <2>3
  <2>5. Fits(whole, s, e, l)
    <3>1. e <= Len(whole)
      BY <1>4, <2>4, Zenon
    <3> QED BY <2>2, <2>4, <3>1 DEF Fits
  <2>6. Part(SubSeq(whole, s, e), whole, s, l)
    BY <2>5, SubIs
  <2> QED BY <2>6, <2>3, Zenon DEF Part
<1>8. Sent(c.whole, c.at, k) = string
  BY <1>1, <1>3, Zenon DEF Sent
<1>9. StringAt(c.whole, c.at, k) = CString(string)
  BY <1>1, <1>3, Zenon DEF StringAt
<1>10. ASSUME ~(c.parser = "file_content" /\ k = 1)
      PROVE  CString(string) = string
  <2>1. k \in 1 .. Len(c.at) - 1
    OBVIOUS
  <2>2. \A i \in at[k] + 2 .. at[k + 1] - 1 : whole[i] # NUL
    BY <1>1, <1>10, <2>1, Zenon DEF Complete
  <2>3. \A i \in 1 .. l : (a + 2) + i - 1 \in a + 2 .. b - 1
    BY <1>5, <1>6
  <2>4. \A i \in 1 .. l : string[i] # NUL
    BY <1>3, <1>7, <2>2, <2>3, Zenon
  <2> HIDE DEF string
  <2> QED BY <1>7, <2>4, NoZero, Zenon
<1> HIDE DEF string
<1> QED BY <1>7, <1>8, <1>9, <1>10, Zenon

\* String k as it was sent; the content of a file may have a zero byte.
IsSent(c, reply, k) ==
  (c.parser = "file_content" /\ k = 1) \/ reply.strings.list[k] = Sent(c.whole, c.at, k)

IsListOf(list, n) == list = [k \in 1 .. n |-> list[k]]

\* So the reply that is read is n strings, the ones sent.
LEMMA ReplyRead ==
  ASSUME NEW c, Complete(c), NEW n, n = Len(c.at) - 1,
         NEW reply, reply = ParseStrings(c.text)
  PROVE  /\ n \in Nat /\ reply.count = n /\ reply.strings.ok
         /\ DOMAIN reply.strings.list = 1 .. n /\ Len(reply.strings.list) = n
         /\ IsListOf(reply.strings.list, n)
         /\ \A k \in 1 .. n : IsSent(c, reply, k)
<1>1. Delivered(c, n) /\ n \in Nat
  BY CompleteIs, Zenon
<1>2. PICK whole, at : whole = c.whole /\ at = c.at
  OBVIOUS
<1>3. PICK number : number = ParseNumber(c.text)
  OBVIOUS
<1>4. number.ok /\ number.n = n /\ number.rest = From(whole, at[1])
  <2>1. number = [ok |-> TRUE, n |-> n, rest |-> From(whole, at[1])]
    BY <1>1, <1>2, <1>3, DeliveredRead, Zenon
  <2> QED BY <2>1
<1>5. reply.count = n /\ reply.strings = Strings(From(whole, at[1]), n)
  <2>1. reply = Counted(number)
    BY <1>3, Zenon DEF ParseStrings
  <2> DEFINE strings == Strings(From(whole, at[1]), n)
  <2>2. Counted(number) = [count |-> n, strings |-> strings]
    BY <1>4, Zenon DEF Counted
  <2> HIDE DEF strings
  <2>3. reply.count = n /\ reply.strings = strings
    BY <2>1, <2>2
  <2> QED BY <2>3, Zenon DEF strings
<1>6. reply.strings.ok /\ reply.strings.list = ListAt(whole, at, 1, n)
  <2>1. 1 \in Nat /\ 1 >= 1 /\ 1 + n <= n + 1
    BY <1>1
  <2>2. /\ Strings(From(c.whole, c.at[1]), n).ok
        /\ Strings(From(c.whole, c.at[1]), n).list = ListAt(c.whole, c.at, 1, n)
    BY <1>1, <2>1, DeliveredRead
  <2> QED BY <1>2, <1>5, <2>2, Zenon
<1>7. /\ DOMAIN reply.strings.list = 1 .. n /\ Len(reply.strings.list) = n
      /\ IsListOf(reply.strings.list, n)
      /\ \A k \in 1 .. n : reply.strings.list[k] = StringAt(whole, at, k)
  <2> DEFINE item(j) == StringAt(whole, at, 1 + j - 1)
  <2>1. reply.strings.list = [j \in 1 .. n |-> item(j)]
    BY <1>6, Zenon DEF ListAt
  <2>2. \A j \in 1 .. n : item(j) = StringAt(whole, at, j)
    <3>1. \A j \in 1 .. n : 1 + j - 1 = j
      BY <1>1
    <3> QED BY <3>1, Zenon
  <2> HIDE DEF item
  <2>3. /\ DOMAIN [j \in 1 .. n |-> item(j)] = 1 .. n /\ Len([j \in 1 .. n |-> item(j)]) = n
        /\ \A k \in 1 .. n : [j \in 1 .. n |-> item(j)][k] = item(k)
    BY <1>1
  <2>4. IsListOf(reply.strings.list, n)
    BY <2>1, Zenon DEF IsListOf
  <2> QED BY <2>1, <2>2, <2>3, <2>4, Zenon
<1>8. ASSUME NEW k \in 1 .. n PROVE IsSent(c, reply, k)
  BY <1>2, <1>7, SentRead, Zenon DEF IsSent
<1> QED BY <1>1, <1>5, <1>6, <1>7, <1>8, Zenon

\* The rows of a table, all or none.
LEMMA RowsAreRead ==
  ASSUME NEW reply, reply.count \in 0 .. MaxItems, reply.strings.ok,
         NEW n \in Nat, NEW read, DOMAIN read = 1 .. n,
         NEW table \in Seq(Seq(Seq(Unit))), Len(table) = n,
         \A k \in 1 .. n : ReadAs(read[k], table[k], <<>>)
  PROVE  RowsIn(reply, read) = Read(table)
<1>1. \A k \in 1 .. n : read[k].ok /\ read[k].list = table[k]
  <2>1. ASSUME NEW r, NEW f, ReadAs(r, f, <<>>) PROVE r.ok /\ r.list = f
    BY <2>1 DEF ReadAs
  <2> QED BY <2>1, Zenon
<1>2. [i \in DOMAIN read |-> read[i].list] = table
  <2>1. [i \in 1 .. n |-> read[i].list] = [i \in 1 .. n |-> table[i]]
    BY <1>1, Zenon
  <2>2. table = [i \in 1 .. n |-> table[i]]
    OBVIOUS
  <2> QED BY <2>1, <2>2, Zenon
<1> QED BY <1>1, <1>2, Zenon DEF RowsIn, ReadIf

RowTaken(rows, read, k) == read[k].ok /\ rows[k] = read[k].list

LEMMA RowsWereRead ==
  ASSUME NEW reply, NEW n \in Nat, NEW read, DOMAIN read = 1 .. n,
         RowsIn(reply, read).status = "read"
  PROVE  /\ Len(RowsIn(reply, read).rows) = n
         /\ \A k \in 1 .. n : RowTaken(RowsIn(reply, read).rows, read, k)
<1> DEFINE rows == [i \in DOMAIN read |-> read[i].list]
<1>1. Null.status # "read" /\ \A r : Read(r).rows = r
  BY DEF Null, Read
<1>2. (\A k \in 1 .. n : read[k].ok) /\ RowsIn(reply, read) = Read(rows)
  BY <1>1, Zenon DEF RowsIn, ReadIf
<1>3. RowsIn(reply, read).rows = rows
  BY <1>1, <1>2, Zenon
<1>4. Len(rows) = n /\ \A k \in 1 .. n : rows[k] = read[k].list
  OBVIOUS
<1> QED BY <1>2, <1>3, <1>4, Zenon DEF RowTaken

\* The columns of a query are the items of its first row; what a parser makes of
\* the rows.
Columns(c) == AllItems(Sent(c.whole, c.at, 1))
RowsRead(c, n) ==
  [k \in 1 .. n |-> RowRead(c.parser, Sent(c.whole, c.at, k), Len(Columns(c).list))]
HasColumns(c, n) ==
  /\ c.parser = "sqlstmnt" => n >= 1 /\ Columns(c).ok /\ Columns(c).list # <<>>
  /\ c.parser = "dbdescription" => n = 1

LEMMA ListedIs ==
  ASSUME NEW c, c.parser \in Listed, Complete(c), NEW n, n = Len(c.at) - 1
  PROVE  ParserResult(c.parser, c.text)
           = IF HasColumns(c, n) THEN RowsIn(ParseStrings(c.text), RowsRead(c, n)) ELSE Null
<1>1. PICK reply, parser, text, w :
        /\ reply = ParseStrings(c.text) /\ parser = c.parser /\ text = c.text
        /\ w = Len(Columns(c).list)
  OBVIOUS
<1>2. PICK strings : strings = reply.strings.list
  OBVIOUS
<1>3. /\ n \in Nat /\ reply.count = n /\ DOMAIN strings = 1 .. n
      /\ \A k \in 1 .. n : strings[k] = Sent(c.whole, c.at, k)
  <2>1. parser # "file_content"
    BY <1>1 DEF Listed
  <2>2. reply = ParseStrings(c.text)
    BY <1>1, Zenon
  <2>3. n \in Nat /\ reply.count = n /\ DOMAIN reply.strings.list = 1 .. n
    BY <2>2, ReplyRead, Zenon
  <2>4. ASSUME NEW k \in 1 .. n PROVE strings[k] = Sent(c.whole, c.at, k)
    <3>1. IsSent(c, reply, k)
      BY <2>2, ReplyRead, Zenon
    <3> QED BY <1>1, <1>2, <2>1, <3>1, Zenon DEF IsSent
  <2> QED BY <1>1, <1>2, <2>1, <2>3, <2>4, Zenon
<1>4. RowsRead(c, n) = [k \in DOMAIN strings |-> RowRead(parser, strings[k], w)]
  BY <1>1, <1>3, Zenon DEF RowsRead
<1>5. PICK number : number = ParseNumber(text)
  OBVIOUS
<1>6. Delivered(c, n) /\ number.n = n /\ number.rest = From(c.whole, c.at[1])
  <2>1. Delivered(c, n)
    BY CompleteIs, Zenon
  <2>2. number = [ok |-> TRUE, n |-> n, rest |-> From(c.whole, c.at[1])]
    BY <1>1, <1>5, <2>1, DeliveredRead, Zenon
  <2> QED BY <2>1, <2>2
<1>7. CASE parser = "sqlstmnt"
  <2>0. \A row : RowRead(parser, row, w) = Items(row, w)
    BY <1>7, RowReadIs, Zenon
  <2>1. PICK header : header = Strings(number.rest, 1)
    OBVIOUS
  <2>2. ParserResult(parser, text) = SqlTable(reply, header)
    BY <1>1, <1>5, <1>7, <2>1, ParserResultIs, Zenon DEF SqlStmnt
  <2>3. CASE n >= 1
    <3>1. header.ok /\ header.list[1] = Sent(c.whole, c.at, 1)
      <4>1. 1 \in Nat /\ 1 >= 1 /\ 1 + 1 <= n + 1 /\ 1 \in 1 .. n
        BY <1>3, <2>3
      <4>0. /\ Strings(From(c.whole, c.at[1]), 1).ok
            /\ Strings(From(c.whole, c.at[1]), 1).list = ListAt(c.whole, c.at, 1, 1)
        BY <1>6, <4>1, DeliveredRead
      <4>2. header.ok /\ header.list = ListAt(c.whole, c.at, 1, 1)
        BY <1>6, <2>1, <4>0, Zenon
      <4>3. 1 + 1 - 1 = 1 /\ 1 \in 1 .. 1
        OBVIOUS
      <4>4. ListAt(c.whole, c.at, 1, 1)[1] = StringAt(c.whole, c.at, 1)
        BY <4>3, Zenon DEF ListAt
      <4>5. parser # "file_content"
        BY <1>7
      <4>6. StringAt(c.whole, c.at, 1) = Sent(c.whole, c.at, 1)
        BY <1>1, <4>1, <4>5, SentRead, Zenon
      <4> QED BY <4>2, <4>4, <4>6, Zenon
    <3>2. SqlTable(reply, header) = SqlRows(reply, Columns(c))
      BY <1>3, <2>3, <3>1, Zenon DEF SqlTable, Columns
    <3>3. [k \in DOMAIN strings |-> Items(strings[k], w)] = RowsRead(c, n)
      BY <1>4, <2>0, Zenon
    <3>4. SqlRows(reply, Columns(c))
            = IF Columns(c).ok /\ Columns(c).list # <<>>
                THEN RowsIn(reply, RowsRead(c, n)) ELSE Null
      BY <1>1, <1>2, <3>3, Zenon DEF SqlRows, RowsOf
    <3>5. HasColumns(c, n) <=> Columns(c).ok /\ Columns(c).list # <<>>
      <4>1. parser # "dbdescription"
        BY <1>7
      <4> QED BY <1>1, <1>7, <2>3, <4>1, Zenon DEF HasColumns
    <3> QED BY <1>1, <2>2, <3>2, <3>4, <3>5, Zenon
  <2>4. CASE ~(n >= 1)
    <3>1. SqlTable(reply, header) = Null
      BY <1>3, <2>4, Zenon DEF SqlTable
    <3> QED BY <1>1, <1>7, <2>2, <2>4, <3>1, Zenon DEF HasColumns
  <2> QED BY <2>3, <2>4, Zenon
<1>8. CASE parser = "dbdescription"
  <2>1. [k \in DOMAIN strings |-> Items(strings[k], 1)] = RowsRead(c, n)
    BY <1>4, <1>8, RowReadIs, Zenon
  <2>2. ParserResult(parser, text) = IF n = 1 THEN RowsIn(reply, RowsRead(c, n)) ELSE Null
    BY <1>1, <1>2, <1>5, <1>6, <1>8, <2>1, ParserResultIs, Zenon DEF DbDescription, Rows, RowsOf
  <2>3. HasColumns(c, n) <=> n = 1
    <3>1. parser # "sqlstmnt"
      BY <1>8
    <3> QED BY <1>1, <1>8, <3>1, Zenon DEF HasColumns
  <2> QED BY <1>1, <2>2, <2>3, Zenon
<1>9. CASE parser \notin {"sqlstmnt", "dbdescription"}
  <2>1. HasColumns(c, n)
    BY <1>1, <1>9, Zenon DEF HasColumns
  <2>2. CASE parser = "tableinfo"
    <3>0. \A row : RowRead(parser, row, w) = Exactly(row, 4)
      BY <2>2, RowReadIs, Zenon
    <3>1. [k \in DOMAIN strings |-> Exactly(strings[k], 4)] = RowsRead(c, n)
      BY <1>4, <3>0, Zenon
    <3>2. TableInfo(text) = RowsIn(reply, [k \in DOMAIN strings |-> Exactly(strings[k], 4)])
      BY <1>1, <1>2, Zenon DEF TableInfo, Rows, RowsOf
    <3>3. ParserResult(parser, text) = TableInfo(text)
      BY <2>2, ParserResultIs, Zenon
    <3> QED BY <1>1, <2>1, <3>1, <3>2, <3>3, Zenon
  <2>3. CASE parser = "columninfo"
    <3>0. \A row : RowRead(parser, row, w) = Column(row)
      BY <2>3, RowReadIs, Zenon
    <3>1. [k \in DOMAIN strings |-> Column(strings[k])] = RowsRead(c, n)
      BY <1>4, <3>0, Zenon
    <3>2. ColumnInfo(text) = RowsIn(reply, [k \in DOMAIN strings |-> Column(strings[k])])
      BY <1>1, <1>2, Zenon DEF ColumnInfo, Rows, RowsOf
    <3>3. ParserResult(parser, text) = ColumnInfo(text)
      BY <2>3, ParserResultIs, Zenon
    <3> QED BY <1>1, <2>1, <3>1, <3>2, <3>3, Zenon
  <2>4. CASE parser = "primarykeys"
    <3>0. \A row : RowRead(parser, row, w) = WithNumbers(Exactly(row, 5), {5})
      BY <2>4, RowReadIs, Zenon
    <3>1. [k \in DOMAIN strings |-> WithNumbers(Exactly(strings[k], 5), {5})] = RowsRead(c, n)
      BY <1>4, <3>0, Zenon
    <3>2. PrimaryKeys(text) = RowsIn(reply, [k \in DOMAIN strings |-> WithNumbers(Exactly(strings[k], 5), {5})])
      BY <1>1, <1>2, Zenon DEF PrimaryKeys, Rows, RowsOf
    <3>3. ParserResult(parser, text) = PrimaryKeys(text)
      BY <2>4, ParserResultIs, Zenon
    <3> QED BY <1>1, <2>1, <3>1, <3>2, <3>3, Zenon
  <2>5. CASE parser = "keyinfo"
    <3>0. \A row : RowRead(parser, row, w) = WithNumbers(Exactly(row, 11), 9 .. 11)
      BY <2>5, RowReadIs, Zenon
    <3>1. [k \in DOMAIN strings |-> WithNumbers(Exactly(strings[k], 11), 9 .. 11)] = RowsRead(c, n)
      BY <1>4, <3>0, Zenon
    <3>2. KeyInfo(text) = RowsIn(reply, [k \in DOMAIN strings |-> WithNumbers(Exactly(strings[k], 11), 9 .. 11)])
      BY <1>1, <1>2, Zenon DEF KeyInfo, Rows, RowsOf
    <3>3. ParserResult(parser, text) = KeyInfo(text)
      BY <2>5, ParserResultIs, Zenon
    <3> QED BY <1>1, <2>1, <3>1, <3>2, <3>3, Zenon
  <2>6. CASE parser = "metadata"
    <3>0. \A row : RowRead(parser, row, w) = Items(row, 3)
      BY <2>6, RowReadIs, Zenon
    <3>1. [k \in DOMAIN strings |-> Items(strings[k], 3)] = RowsRead(c, n)
      BY <1>4, <3>0, Zenon
    <3>2. Metadata(text) = RowsIn(reply, [k \in DOMAIN strings |-> Items(strings[k], 3)])
      BY <1>1, <1>2, Zenon DEF Metadata, Rows, RowsOf
    <3>3. ParserResult(parser, text) = Metadata(text)
      BY <2>6, ParserResultIs, Zenon
    <3> QED BY <1>1, <2>1, <3>1, <3>2, <3>3, Zenon
  <2> QED BY <1>1, <1>9, <2>2, <2>3, <2>4, <2>5, <2>6, Zenon DEF Listed
<1> QED BY <1>7, <1>8, <1>9, Zenon

-----------------------------------------------------------------------------
(* Reading a row with quotes inside its items                              *)

\* An item that ends in a quote at q, and the quote at the end of the next, at p.
Meets(row, m, q, p) ==
  /\ q \in Nat \ {0} /\ p \in Nat /\ p >= q + 3 /\ p <= m
  /\ row[q] = QUOTE /\ row[q + 1] = Comma /\ row[q + 2] = QUOTE /\ row[p] = QUOTE

LEMMA CommaIsNoQuote == Comma # QUOTE
  BY DEF Comma, QUOTE

LEMMA PlaceNone ==
  ASSUME NEW text \in Seq(Unit), NEW unit, Place(unit, text) = 0
  PROVE  \A i \in 1 .. Len(text) : text[i] # unit
  BY PlaceFinds

\* Read from somewhere within the first of them, an item ends within the second.
LEMMA ItemKeepsUp ==
  ASSUME NEW row \in Seq(Unit), NEW m \in Nat, Len(row) = m, NEW x \in 1 .. m,
         NEW part, part = ParseListItem(From(row, x)), part.ok
  PROVE  /\ part.text \in Seq(Unit)
         /\ \E y \in Nat : /\ y > x /\ part.rest = From(row, y)
                           /\ \A q, p \in Nat : x <= q /\ Meets(row, m, q, p) => y <= p
<1>0. PICK comma, quote : comma = Comma /\ quote = QUOTE /\ comma # quote
  BY CommaIsNoQuote
<1> DEFINE text == From(row, x)
<1>1. /\ text \in Seq(Unit) /\ Len(text) = m + 1 - x
      /\ \A i \in 1 .. m + 1 - x : text[i] = row[x + i - 1]
  <2>1. x \in 1 .. m + 1
    OBVIOUS
  <2> QED BY <2>1, FromUnits
<1>2. ASSUME NEW b \in Nat \ {0}, NEW y \in Nat, y = x + b - 1
      PROVE  From(text, b) = From(row, y)
  <2>1. x \in 1 .. m + 1
    OBVIOUS
  <2> QED BY <1>2, <2>1, FromTwice
<1> HIDE DEF text
<1>3. ~NoText.ok
  BY DEF NoText
<1>4. Len(text) >= 2
  <2> SUFFICES ASSUME Len(text) < 2 PROVE FALSE
    BY <1>1
  <2>1. part = NoText
    BY Zenon DEF ParseListItem, text
  <2> QED BY <1>3, <2>1, Zenon
<1>5. PICK l \in Nat : l = m + 1 - x /\ l >= 2 /\ Len(text) = l /\ x + l = m + 1
  BY <1>1, <1>4
<1>6. \A q, p \in Nat : x <= q /\ Meets(row, m, q, p) =>
        /\ q + 2 - x \in 2 .. l /\ text[q + 2 - x] = comma
        /\ q + 3 - x \in 2 .. l /\ text[q + 3 - x] = quote
        /\ q + 3 <= p /\ p <= m /\ row[p] = quote
  <2>1. ASSUME NEW q \in Nat, NEW p \in Nat, x <= q, Meets(row, m, q, p)
        PROVE  /\ q + 2 - x \in 2 .. l /\ text[q + 2 - x] = comma
               /\ q + 3 - x \in 2 .. l /\ text[q + 3 - x] = quote
               /\ q + 3 <= p /\ p <= m /\ row[p] = quote
    <3>1. /\ p >= q + 3 /\ p <= m
          /\ row[q + 1] = comma /\ row[q + 2] = quote /\ row[p] = quote
      BY <1>0, <2>1, Zenon DEF Meets
    <3>2. q + 2 - x \in 2 .. l /\ q + 3 - x \in 2 .. l
      BY <1>5, <2>1, <3>1
    <3>3. /\ q + 2 - x \in 1 .. m + 1 - x /\ x + (q + 2 - x) - 1 = q + 1
          /\ q + 3 - x \in 1 .. m + 1 - x /\ x + (q + 3 - x) - 1 = q + 2
      BY <2>1, <3>1
    <3>4. text[q + 2 - x] = row[q + 1] /\ text[q + 3 - x] = row[q + 2]
      BY <1>1, <3>3
    <3> QED BY <3>1, <3>2, <3>4
  <2> QED BY <2>1, Zenon
<1>7. CASE text[1] = QUOTE
  <2> DEFINE body == Tail(text)
  <2>1. /\ body \in Seq(Unit) /\ Len(body) = l - 1 /\ \A i \in 1 .. l - 1 : body[i] = text[i + 1]
    BY <1>1, <1>5
  <2>2. body = From(text, 2)
    <3>1. text # <<>>
      BY <1>1, <1>5
    <3> QED BY <1>1, <3>1, TailIsFrom
  <2> HIDE DEF body
  <2>3. PICK k : k = Place(QUOTE, body)
    OBVIOUS
  <2>4. part = Quoted(body, k)
    <3>1. ~(Len(text) < 2)
      BY <1>5
    <3> QED BY <1>7, <2>3, <3>1, Zenon DEF ParseListItem, text, body
  <2>5. k # 0
    BY <1>3, <2>4, Zenon DEF Quoted
  <2>6. /\ k \in 1 .. l - 1 /\ body[k] = quote
        /\ \A i \in 1 .. l - 1 : body[i] = quote => k <= i
    <3>1. k \in 1 .. Len(body) /\ body[k] = quote
          /\ \A i \in 1 .. Len(body) : body[i] = quote => k <= i
      BY <1>0, <2>1, <2>3, <2>5, PlaceFinds, Zenon
    <3> QED BY <2>1, <3>1
  <2>7. PICK e \in Nat : e = x + k /\ e <= m /\ e + 1 \in 1 .. m + 1
    BY <1>5, <2>6
  <2>8. From(body, k + 1) = From(row, e + 1)
    <3>1. 2 \in Nat \ {0} /\ x + 1 \in Nat /\ x + 1 = x + 2 - 1
      OBVIOUS
    <3>2. body = From(row, x + 1)
      BY <1>2, <2>2, <3>1
    <3>3. x + 1 \in 1 .. m + 1 /\ k + 1 \in Nat \ {0} /\ e + 1 \in Nat /\ e + 1 = (x + 1) + (k + 1) - 1
      BY <2>6, <2>7
    <3> QED BY <3>2, <3>3, FromTwice
  <2>9. part = [ok |-> TRUE, text |-> SubSeq(body, 1, k - 1), rest |-> SkipComma(From(row, e + 1))]
    BY <2>4, <2>5, <2>8, Zenon DEF Quoted
  <2>10. part.text \in Seq(Unit)
    <3>1. SubSeq(body, 1, k - 1) \in Seq(Unit)
      BY <2>1, <2>6
    <3> QED BY <2>9, <3>1
  <2>11. part.rest = SkipComma(From(row, e + 1))
    BY <2>9
  <2>12. SkipComma(From(row, e + 1)) = IF e + 1 = m + 1 \/ row[e + 1] = comma
                                         THEN From(row, (e + 1) + 1) ELSE From(row, e + 1)
    BY <1>0, <2>7, SkipIs, Zenon DEF Comma
  <2>13. PICK y \in Nat : /\ part.rest = From(row, y)
                          /\ \/ y = e + 2 /\ (e = m \/ row[e + 1] = comma)
                             \/ y = e + 1
    <3>1. CASE e + 1 = m + 1 \/ row[e + 1] = comma
      <4>1. (e + 1) + 1 = e + 2 /\ e + 2 \in Nat /\ (e + 1 = m + 1 => e = m)
        BY <2>7
      <4> QED BY <2>11, <2>12, <3>1, <4>1, Zenon
    <3>2. CASE ~(e + 1 = m + 1 \/ row[e + 1] = comma)
      <4>1. e + 1 \in Nat
        BY <2>7
      <4> QED BY <2>11, <2>12, <3>2, <4>1, Zenon
    <3> QED BY <3>1, <3>2, Zenon
  <2>14. y > x
    BY <2>6, <2>7, <2>13
  <2>15. ASSUME NEW q \in Nat, NEW p \in Nat, x <= q, Meets(row, m, q, p)
         PROVE  y <= p
    <3>1. /\ q + 3 - x \in 2 .. l /\ text[q + 3 - x] = quote
          /\ q + 3 <= p /\ p <= m /\ row[p] = quote
      BY <1>6, <2>15, Zenon
    <3>2. PICK i \in Nat : i = q + 2 - x /\ i \in 1 .. l - 1 /\ i + 1 = q + 3 - x
      BY <1>5, <2>15, <3>1
    <3>3. body[i] = quote
      BY <2>1, <3>1, <3>2, Zenon
    <3>4. e <= q + 2
      <4>1. k <= i
        BY <2>6, <3>2, <3>3, Zenon
      <4> QED BY <2>6, <2>7, <3>2, <4>1
    <3>5. e + 1 = p => row[e + 1] # comma
      BY <1>0, <3>1, Zenon
    <3>6. e < m
      <4>1. q + 3 <= p /\ p <= m
        BY <3>1, Zenon
      <4> QED BY <2>7, <3>4, <4>1, SMTT(30)
    <3>7. CASE e = q + 2
      <4>1. e + 1 <= p
        BY <3>1, <3>7
      <4>2. y = e + 1 \/ (y = e + 2 /\ e + 1 # p)
        BY <2>13, <3>5, <3>6
      <4> QED BY <2>7, <4>1, <4>2
    <3>8. CASE e # q + 2
      <4>1. y <= e + 2
        BY <2>7, <2>13
      <4> QED BY <2>7, <3>1, <3>4, <3>8, <4>1
    <3> QED BY <3>7, <3>8
  <2> QED BY <2>10, <2>13, <2>14, <2>15, Zenon
<1>8. CASE text[1] # QUOTE
  <2>1. PICK k : k = Place(comma, text)
    OBVIOUS
  <2>2. part = Bare(text, k)
    <3>1. ~(Len(text) < 2)
      BY <1>5
    <3> QED BY <1>0, <1>8, <2>1, <3>1, Zenon DEF ParseListItem, text, Comma
  <2>3. CASE k = 0
    <3>1. part = [ok |-> TRUE, text |-> text, rest |-> <<>>]
      BY <2>2, <2>3, Zenon DEF Bare
    <3>2. part.text \in Seq(Unit) /\ part.rest = <<>>
      BY <1>1, <3>1
    <3>3. From(row, m + 1) = <<>> /\ m + 1 \in Nat /\ m + 1 > x
      <4>1. m + 1 \in Nat /\ m + 1 > Len(row) /\ m + 1 > x
        OBVIOUS
      <4> QED BY <4>1, FromBeyond
    <3>4. \A i \in 1 .. l : text[i] # comma
      BY <1>1, <1>5, <2>1, <2>3, PlaceNone
    <3>5. ASSUME NEW q \in Nat, NEW p \in Nat, x <= q, Meets(row, m, q, p)
          PROVE  FALSE
      <4>1. q + 2 - x \in 2 .. l /\ text[q + 2 - x] = comma
        BY <1>6, <3>5, Zenon
      <4>2. q + 2 - x \in 1 .. l
        BY <4>1
      <4> QED BY <3>4, <4>1, <4>2, Zenon
    <3> QED BY <3>2, <3>3, <3>5, Zenon
  <2>4. CASE k # 0
    <3>1. /\ k \in 1 .. l /\ \A i \in 1 .. l : text[i] = comma => k <= i
      BY <1>1, <1>5, <2>1, <2>4, PlaceFinds, Zenon
    <3>2. part = [ok |-> TRUE, text |-> SubSeq(text, 1, k - 1), rest |-> From(text, k + 1)]
      BY <2>2, <2>4, Zenon DEF Bare
    <3>3. SubSeq(text, 1, k - 1) \in Seq(Unit)
      BY <1>1, <1>5, <3>1
    <3>4. part.text \in Seq(Unit) /\ part.rest = From(text, k + 1)
      BY <3>2, <3>3
    <3>5. PICK y \in Nat : y = x + k /\ y > x
      BY <3>1
    <3>6. From(text, k + 1) = From(row, y)
      <4>1. k + 1 \in Nat \ {0} /\ y = x + (k + 1) - 1
        BY <3>1, <3>5
      <4> QED BY <1>2, <4>1
    <3>7. ASSUME NEW q \in Nat, NEW p \in Nat, x <= q, Meets(row, m, q, p)
          PROVE  y <= p
      <4>1. q + 2 - x \in 2 .. l /\ text[q + 2 - x] = comma /\ q + 3 <= p
        BY <1>6, <3>7, Zenon
      <4>2. q + 2 - x \in 1 .. l
        BY <4>1
      <4>3. k <= q + 2 - x
        BY <3>1, <4>1, <4>2, Zenon
      <4> QED BY <3>1, <3>5, <4>1, <4>3
    <3> QED BY <3>4, <3>5, <3>6, <3>7, Zenon
  <2> QED BY <2>3, <2>4
<1> QED BY <1>7, <1>8

\* Where the reading of all items is in such a row: what has been read of the first
\* n items, the reading is not behind them.
KeepsUp(row, cuts, n, m, read, i) ==
  read.ok =>
    \E x, k \in Nat : /\ read.list \in Seq(Seq(Unit)) /\ Len(read.list) = k
                      /\ read.rest = From(row, x) /\ x >= 1 /\ (x > i \/ x > m)
                      /\ k < n => x + 2 <= cuts[k + 2]

\* One item more, or nothing more.
LEMMA LastItemKeepsUp ==
  ASSUME NEW row, NEW cuts, NEW n, NEW m, AllInQuotes(row, cuts), Places(cuts, n, m),
         Len(row) = m, Len(cuts) = n + 1, NEW i \in Nat,
         NEW read, KeepsUp(row, cuts, n, m, read, i),
         NEW next, next = LastItem(read)
  PROVE  KeepsUp(row, cuts, n, m, next, i + 1)
<1>1. row \in Seq(Unit) /\ n \in Nat \ {0} /\ m \in Nat
  BY Zenon DEF AllInQuotes, Cut, Places
<1>2. /\ \A j \in 1 .. n + 1 : cuts[j] \in Nat /\ cuts[j] >= j /\ cuts[j] <= m + 2
      /\ \A j \in 1 .. n : cuts[j + 1] >= cuts[j] + 1 /\ cuts[j] < m
  BY PlacesGrow, Zenon
<1>3. SUFFICES ASSUME next.ok PROVE KeepsUp(row, cuts, n, m, next, i + 1)
  BY Zenon DEF KeepsUp
<1>4. read.ok
  BY <1>3, Zenon DEF LastItem, NextItem
<1>5. PICK x \in Nat, k \in Nat :
        /\ read.list \in Seq(Seq(Unit)) /\ Len(read.list) = k
        /\ read.rest = From(row, x) /\ x >= 1 /\ (x > i \/ x > m)
        /\ k < n => x + 2 <= cuts[k + 2]
  BY <1>4, Zenon DEF KeepsUp
<1>6. CASE x > m
  <2>1. read.rest = <<>>
    BY <1>1, <1>5, <1>6, FromBeyond
  <2>2. next = read
    BY <2>1, Zenon DEF LastItem
  <2> QED BY <1>5, <1>6, <2>2, Zenon DEF KeepsUp
<1>7. CASE ~(x > m)
  <2>1. x \in 1 .. m /\ x \in 1 .. m + 1
    BY <1>1, <1>5, <1>7
  <2>2. read.rest # <<>>
    <3>1. Len(From(row, x)) = m + 1 - x /\ From(row, x) \in Seq(Unit)
      BY <1>1, <2>1, FromUnits
    <3>2. m + 1 - x # 0
      BY <1>1, <2>1
    <3>3. From(row, x) # <<>>
      BY <3>1, <3>2
    <3> QED BY <1>5, <3>3, Zenon
  <2>3. PICK part : part = ParseListItem(From(row, x))
    OBVIOUS
  <2>4. next = Then(read, part)
    BY <1>4, <1>5, <2>2, <2>3, Zenon DEF LastItem, NextItem
  <2>5. next.ok = part.ok /\ next.list = Append(read.list, part.text) /\ next.rest = part.rest
    BY <2>4 DEF Then
  <2>6. part.ok
    BY <1>3, <2>5, Zenon
  <2>7. part.text \in Seq(Unit)
    BY <1>1, <2>1, <2>3, <2>6, ItemKeepsUp
  <2>8. PICK y \in Nat : /\ y > x /\ part.rest = From(row, y)
                         /\ \A q, p \in Nat : x <= q /\ Meets(row, m, q, p) => y <= p
    BY <1>1, <2>1, <2>3, <2>6, ItemKeepsUp
  <2>9. next.list \in Seq(Seq(Unit)) /\ Len(next.list) = k + 1
    BY <1>5, <2>5, <2>7
  <2>10. y >= 1 /\ (y > i + 1 \/ y > m)
    BY <1>1, <1>5, <1>7, <2>8
  <2>11. ASSUME k + 1 < n PROVE y + 2 <= cuts[(k + 1) + 2]
    <3>1. /\ k + 1 \in 1 .. n /\ k + 2 \in 1 .. n /\ (k + 1) + 1 = k + 2 /\ (k + 2) + 1 = k + 3
          /\ k + 2 \in 1 .. n + 1 /\ k + 3 \in 1 .. n + 1 /\ k + 1 \in 1 .. n + 1
          /\ k + 2 \in 2 .. (n + 1) - 1 /\ (n + 1) - 1 = n /\ (k + 1) + 2 = k + 3 /\ k < n
      BY <1>1, <2>11
    <3>2. PICK a \in Nat, b \in Nat, c \in Nat : a = cuts[k + 1] /\ b = cuts[k + 2] /\ c = cuts[k + 3]
      BY <1>2, <3>1
    <3>3. /\ b >= a + 3 /\ row[b - 2] = QUOTE /\ row[b] = QUOTE
          /\ c >= b + 3 /\ row[c - 2] = QUOTE
      <4>1. \A j \in 1 .. n : cuts[j + 1] >= cuts[j] + 3 /\ row[cuts[j]] = QUOTE
                              /\ row[cuts[j + 1] - 2] = QUOTE
        BY <3>1, Zenon DEF AllInQuotes
      <4> QED BY <3>1, <3>2, <4>1, Zenon
    <3>4. row[b - 1] = Comma
      <4>1. \A j \in 2 .. (n + 1) - 1 : row[cuts[j] - 1] = Comma
        BY Zenon DEF AllInQuotes, Cut, Comma
      <4> QED BY <3>1, <3>2, <4>1, Zenon
    <3>5. c <= m + 2 /\ x + 2 <= b
      BY <1>2, <1>5, <3>1, <3>2, Zenon
    <3>6. PICK q \in Nat, p \in Nat : q = b - 2 /\ p = c - 2
      <4>1. b - 2 \in Nat /\ c - 2 \in Nat
        BY <3>3
      <4> QED BY <4>1
    <3>7. q # 0 /\ p >= q + 3 /\ p <= m /\ q + 1 = b - 1 /\ q + 2 = b /\ x <= q
      BY <1>1, <1>5, <3>3, <3>5, <3>6
    <3>8. Meets(row, m, q, p)
      <4>1. q \in Nat \ {0}
        BY <3>7
      <4> QED BY <3>3, <3>4, <3>6, <3>7, <4>1, Zenon DEF Meets
    <3>9. y <= p
      BY <2>8, <3>7, <3>8, Zenon
    <3>10. y + 2 <= c
      BY <3>6, <3>9
    <3> QED BY <3>1, <3>2, <3>10, Zenon
  <2>12. k + 1 \in Nat /\ next.rest = From(row, y)
    BY <2>5, <2>8
  <2> QED BY <2>9, <2>10, <2>11, <2>12, Zenon DEF KeepsUp
<1> QED BY <1>6, <1>7

\* Of a row of n items in quotes at least n are read, if it can be read.
LEMMA HeaderItems ==
  ASSUME NEW row, NEW cuts, AllInQuotes(row, cuts), AllItems(row).ok
  PROVE  AllItems(row).list \in Seq(Seq(Unit)) /\ Len(AllItems(row).list) >= Len(cuts) - 1
<1>1. Cut(row, cuts)
  BY Zenon DEF AllInQuotes
<1>2. /\ row \in Seq(Unit) /\ cuts \in Seq(Nat) /\ Len(cuts) >= 2
      /\ cuts[1] = 1 /\ cuts[Len(cuts)] = Len(row) + 2
  BY <1>1, Zenon DEF Cut
<1>3. PICK n \in Nat, m \in Nat : n = Len(cuts) - 1 /\ m = Len(row)
  BY <1>2
<1>4. n \in Nat \ {0} /\ Len(cuts) = n + 1 /\ cuts[n + 1] = m + 2
  <2>1. Len(cuts) = n + 1 /\ n # 0
    BY <1>2, <1>3
  <2> QED BY <1>2, <1>3, <2>1, Zenon
<1>5. \A j \in 1 .. n + 1 : cuts[j] \in Nat
  BY <1>2, <1>4
<1>6. \A j \in 1 .. n : cuts[j + 1] >= cuts[j] + 3
  BY <1>3, Zenon DEF AllInQuotes
<1>7. Places(cuts, n, m)
  BY <1>2, <1>3, <1>4, <1>5, <1>6, Zenon DEF Places
<1> DEFINE at(i) == Repeated(i, row, "last item")
           T == {i \in Nat : KeepsUp(row, cuts, n, m, at(i), i)}
<1>8. 0 \in T
  <2>1. 0 \in Int /\ 0 <= 0
    OBVIOUS
  <2>2. at(0) = Nothing(row)
    BY <2>1, RepeatedIs, Zenon
  <2>3. Nothing(row).list = <<>> /\ Nothing(row).rest = row
    BY DEF Nothing
  <2>4. row = From(row, 1)
    BY <1>2, FromFirst
  <2>5. /\ <<>> \in Seq(Seq(Unit)) /\ Len(<<>>) = 0 /\ 1 > 0 /\ 1 >= 1 /\ 1 \in Nat /\ 0 \in Nat
    OBVIOUS
  <2>6. 1 + 2 <= cuts[0 + 2]
    <3>1. 1 \in 1 .. n /\ 2 \in 1 .. n + 1 /\ 0 + 2 = 2 /\ 1 + 1 = 2
      BY <1>4
    <3>2. cuts[2] >= cuts[1] + 3 /\ cuts[2] \in Nat
      BY <1>5, <1>6, <3>1
    <3> QED BY <1>2, <3>1, <3>2
  <2>7. KeepsUp(row, cuts, n, m, Nothing(row), 0)
    BY <2>3, <2>4, <2>5, <2>6, Zenon DEF KeepsUp
  <2> QED BY <2>2, <2>7
<1>9. ASSUME NEW i \in Nat, i \in T PROVE i + 1 \in T
  <2>1. PICK read, next : read = at(i) /\ next = at(i + 1)
    OBVIOUS
  <2>2. next = ReadNext("last item", read)
    BY <2>1, RepeatedIs, Zenon
  <2>3. \A r : ReadNext("last item", r) = LastItem(r)
    BY DEF ReadNext
  <2>4. KeepsUp(row, cuts, n, m, read, i)
    BY <1>9, <2>1, Zenon
  <2>5. KeepsUp(row, cuts, n, m, next, i + 1)
    BY <1>3, <1>4, <1>7, <2>2, <2>3, <2>4, LastItemKeepsUp, Zenon
  <2>6. i + 1 \in Nat
    OBVIOUS
  <2> QED BY <2>1, <2>5, <2>6, Zenon
<1>10. \A i \in Nat : i \in T
  <2> HIDE DEF T
  <2> QED BY <1>8, <1>9, NatSetInduction
<1>11. PICK all : all = AllItems(row)
  OBVIOUS
<1>12. KeepsUp(row, cuts, n, m, all, m)
  <2>1. all = at(m)
    BY <1>3, <1>11, Zenon DEF AllItems
  <2>2. m \in T
    BY <1>10
  <2> QED BY <2>1, <2>2, Zenon
<1>13. PICK x \in Nat, k \in Nat :
        /\ all.list \in Seq(Seq(Unit)) /\ Len(all.list) = k /\ (x > m \/ x > m)
        /\ k < n => x + 2 <= cuts[k + 2]
  BY <1>11, <1>12, Zenon DEF KeepsUp
<1>14. k >= n
  <2> SUFFICES ASSUME k < n PROVE FALSE
    BY <1>3
  <2>1. k + 2 \in 1 .. n + 1
    BY <1>4
  <2>2. cuts[k + 2] \in Nat /\ cuts[k + 2] <= m + 2
    BY <1>7, <2>1, PlacesGrow, Zenon
  <2>3. x + 2 <= cuts[k + 2] /\ x > m
    BY <1>13, Zenon
  <2> QED BY <1>3, <2>2, <2>3
<1> QED BY <1>3, <1>11, <1>13, <1>14, Zenon

-----------------------------------------------------------------------------
(* The tables of the parsers of rows                                       *)

\* The columns of a query, from its first row.
LEMMA ColumnsRead ==
  ASSUME NEW c, RowSent(c, 1), c.parser = "sqlstmnt"
  PROVE  /\ Columns(c).ok /\ Columns(c).list # <<>>
         /\ Len(Columns(c).list) = Len(c.cuts[1]) - 1
<1>1. PICK row, cuts, items : row = Sent(c.whole, c.at, 1) /\ cuts = c.cuts[1] /\ items = c.sent[1]
  OBVIOUS
<1>2. IsRow(row, cuts, items)
  BY <1>1, Zenon DEF RowSent
<1>3. /\ Places(cuts, Len(items), Len(row)) /\ items \in Seq(Seq(Unit))
      /\ Len(cuts) = Len(items) + 1
  BY <1>2, RowPlaces
<1>4. PICK n \in Nat : n = Len(items)
  BY <1>3
<1>5. n # 0 /\ Len(cuts) - 1 = n
  <2>1. n \in Nat \ {0}
    BY <1>3, <1>4, Zenon DEF Places
  <2> QED BY <1>3, <1>4, <2>1
<1>6. ReadAs(Columns(c), items, <<>>)
  BY <1>1, <1>2, <1>4, ItemsWhole, Zenon DEF Columns
<1>7. PICK read : read = Columns(c)
  OBVIOUS
<1>8. read.ok /\ read.list = items
  BY <1>6, <1>7 DEF ReadAs
<1>9. items # <<>>
  BY <1>3, <1>4, <1>5
<1> QED BY <1>1, <1>4, <1>5, <1>7, <1>8, <1>9, Zenon

\* It is of no concern to the other parsers.
LEMMA WidthUnused ==
  ASSUME NEW parser \in Listed, parser # "sqlstmnt", NEW row, NEW w, NEW v
  PROVE  RowRead(parser, row, w) = RowRead(parser, row, v)
<1>1. CASE parser = "tableinfo"
  BY <1>1, RowReadIs, ZenonT(30)
<1>2. CASE parser = "columninfo"
  BY <1>2, RowReadIs, ZenonT(30)
<1>3. CASE parser = "primarykeys"
  BY <1>3, RowReadIs, ZenonT(30)
<1>4. CASE parser = "keyinfo"
  BY <1>4, RowReadIs, ZenonT(30)
<1>5. CASE parser = "metadata"
  BY <1>5, RowReadIs, ZenonT(30)
<1>6. CASE parser = "dbdescription"
  BY <1>6, RowReadIs, ZenonT(30)
<1> QED BY <1>1, <1>2, <1>3, <1>4, <1>5, <1>6, Zenon DEF Listed

\* With the right number of columns, a row is read as it was sent.
LEMMA RowIsRead ==
  ASSUME NEW c, NEW n \in Nat, NEW k \in 1 .. n, RowSent(c, k), c.parser \in Listed,
         c.parser = "sqlstmnt" => Len(Columns(c).list) = Len(c.cuts[1]) - 1
  PROVE  ReadAs(RowsRead(c, n)[k], c.table[k], <<>>)
<1>1. PICK row, w : row = Sent(c.whole, c.at, k) /\ w = Len(Columns(c).list)
  OBVIOUS
<1>2. RowsRead(c, n)[k] = RowRead(c.parser, row, w)
  BY <1>1, Zenon DEF RowsRead
<1>3. CASE c.parser = "sqlstmnt"
  <2>1. w = Len(c.cuts[1]) - 1
    BY <1>1, <1>3, Zenon
  <2> QED BY <1>1, <1>2, <2>1, RowSentRead, Zenon
<1>4. CASE c.parser # "sqlstmnt"
  <2>1. PICK v : v = Len(c.cuts[1]) - 1
    OBVIOUS
  <2>2. ReadAs(RowRead(c.parser, row, v), c.table[k], <<>>)
    BY <1>1, <2>1, RowSentRead, Zenon
  <2>3. RowRead(c.parser, row, w) = RowRead(c.parser, row, v)
    BY <1>4, WidthUnused, Zenon
  <2> QED BY <1>2, <2>2, <2>3, Zenon
<1> QED BY <1>3, <1>4

\* The table that a well-formed reply of rows encodes is read.
TableSent(c) ==
  /\ c.parser \in Listed /\ IsTable(c) /\ Len(c.at) - 1 <= MaxItems
  /\ (c.parser = "sqlstmnt" => Len(c.at) - 1 >= 1)
  /\ (c.parser = "dbdescription" => Len(c.at) - 1 = 1)
  /\ \A k \in 1 .. Len(c.at) - 1 : RowSent(c, k)

\* Each parser of a table reads a well-formed reply as that table.
LEMMA TableIsRead ==
  ASSUME NEW c, Complete(c), TableSent(c)
  PROVE  ParserResult(c.parser, c.text) = Read(c.table)
<1>1. PICK n, reply, table : n = Len(c.at) - 1 /\ reply = ParseStrings(c.text) /\ table = c.table
  OBVIOUS
<1>2. /\ c.parser \in Listed /\ table \in Seq(Seq(Seq(Unit))) /\ Len(table) = n
      /\ n <= MaxItems /\ (c.parser = "sqlstmnt" => n >= 1) /\ (c.parser = "dbdescription" => n = 1)
      /\ \A k \in 1 .. n : RowSent(c, k)
  BY <1>1, Zenon DEF TableSent, IsTable
<1>3. n \in Nat /\ reply.count = n /\ reply.strings.ok
  BY <1>1, ReplyRead, Zenon
<1>4. c.parser = "sqlstmnt" =>
        /\ Columns(c).ok /\ Columns(c).list # <<>>
        /\ Len(Columns(c).list) = Len(c.cuts[1]) - 1
  <2> SUFFICES ASSUME c.parser = "sqlstmnt"
               PROVE  /\ Columns(c).ok /\ Columns(c).list # <<>>
                      /\ Len(Columns(c).list) = Len(c.cuts[1]) - 1
    OBVIOUS
  <2>1. n >= 1
    BY <1>2, Zenon
  <2>2. 1 \in 1 .. n
    BY <1>3, <2>1
  <2>3. RowSent(c, 1)
    BY <1>2, <2>2, Zenon
  <2> QED BY <2>3, ColumnsRead, Zenon
<1>5. HasColumns(c, n)
  BY <1>2, <1>4, Zenon DEF HasColumns
<1>6. \A k \in 1 .. n : ReadAs(RowsRead(c, n)[k], table[k], <<>>)
  BY <1>1, <1>2, <1>3, <1>4, RowIsRead, Zenon
<1>7. RowsIn(reply, RowsRead(c, n)) = Read(table)
  <2>1. PICK read : read = RowsRead(c, n)
    OBVIOUS
  <2>2. DOMAIN read = 1 .. n
    BY <2>1, Zenon DEF RowsRead
  <2>3. reply.count \in 0 .. MaxItems
    BY <1>2, <1>3, LimitAssumption
  <2>4. \A k \in 1 .. n : ReadAs(read[k], table[k], <<>>)
    BY <1>6, <2>1, Zenon
  <2>5. table \in Seq(Seq(Seq(Unit))) /\ Len(table) = n
    BY <1>2, Zenon
  <2>6. RowsIn(reply, read) = Read(table)
    BY <1>3, <2>2, <2>3, <2>4, <2>5, RowsAreRead
  <2> QED BY <2>1, <2>6, Zenon
<1>8. ParserResult(c.parser, c.text) = RowsIn(reply, RowsRead(c, n))
  BY <1>1, <1>2, <1>5, ListedIs, Zenon
<1> QED BY <1>1, <1>7, <1>8, Zenon

\* The number of columns of a query is not damaged if another row can be read.
LEMMA ColumnsKept ==
  ASSUME NEW c, c.parser = "sqlstmnt", AllInQuotes(Sent(c.whole, c.at, 1), c.cuts[1]),
         Columns(c).ok, NEW k, RowSent(c, k), Items(Sent(c.whole, c.at, k), Len(Columns(c).list)).ok
  PROVE  Len(Columns(c).list) = Len(c.cuts[1]) - 1
<1>1. PICK row, cuts, items, header :
        /\ row = Sent(c.whole, c.at, k) /\ cuts = c.cuts[k] /\ items = c.sent[k]
        /\ header = Sent(c.whole, c.at, 1)
  OBVIOUS
<1>2. IsRow(row, cuts, items) /\ Len(items) \in Widths(c)
  BY <1>1, Zenon DEF RowSent
<1>3. Len(items) = Len(c.cuts[1]) - 1
  BY <1>2, WidthsAre
<1>4. PICK n \in Nat : n = Len(items)
  <2>1. items \in Seq(Seq(Unit))
    BY <1>2, RowPlaces, Zenon
  <2> QED BY <2>1
<1>5. Columns(c) = AllItems(header)
  BY <1>1, Zenon DEF Columns
<1>6. Columns(c).list \in Seq(Seq(Unit)) /\ Len(Columns(c).list) >= Len(c.cuts[1]) - 1
  BY <1>1, <1>5, HeaderItems, Zenon
<1>7. PICK w \in Nat : w = Len(Columns(c).list)
  BY <1>6
<1>8. w >= n
  BY <1>3, <1>4, <1>6, <1>7, Zenon
<1>9. ~(w > n)
  <2>1. Items(row, w).ok
    BY <1>1, <1>7, Zenon
  <2> QED BY <1>2, <1>4, <1>7, <2>1, ItemsOfRow, Zenon
<1>10. w = n
  BY <1>8, <1>9
<1> QED BY <1>3, <1>4, <1>7, <1>10, Zenon

\* A damaged reply that is read keeps its other rows.
LEMMA OtherRowsKept ==
  ASSUME NEW c, Complete(c), Damages(c), NEW taken, taken = ParserResult(c.parser, c.text),
         taken.status = "read"
  PROVE  /\ Len(taken.rows) = Len(c.table)
         /\ \A k \in DOMAIN c.table : k # c.row => taken.rows[k] = c.table[k]
<1>1. PICK n, reply, table : n = Len(c.at) - 1 /\ reply = ParseStrings(c.text) /\ table = c.table
  OBVIOUS
<1>2. /\ c.parser \in Listed /\ table \in Seq(Seq(Seq(Unit))) /\ Len(table) = n
      /\ \A k \in DOMAIN table : k # c.row => RowSent(c, k)
  BY <1>1, Zenon DEF Damages, IsTable
<1>3. n \in Nat
  BY <1>1, ReplyRead, Zenon
<1>4. PICK read : read = RowsRead(c, n)
  OBVIOUS
<1>5. HasColumns(c, n) /\ taken = RowsIn(reply, read)
  <2>1. taken = IF HasColumns(c, n) THEN RowsIn(reply, read) ELSE Null
    BY <1>1, <1>2, <1>4, ListedIs, Zenon
  <2>2. Null.status # "read"
    BY DEF Null
  <2> QED BY <2>1, <2>2, Zenon
<1>6. DOMAIN read = 1 .. n
  BY <1>4, Zenon DEF RowsRead
<1>7. /\ Len(taken.rows) = n
      /\ \A k \in 1 .. n : read[k].ok /\ taken.rows[k] = read[k].list
  <2>1. RowsIn(reply, read).status = "read"
    BY <1>5, Zenon
  <2>2. Len(RowsIn(reply, read).rows) = n
    BY <1>3, <1>6, <2>1, RowsWereRead, Zenon
  <2>3. ASSUME NEW k \in 1 .. n PROVE RowTaken(RowsIn(reply, read).rows, read, k)
    BY <1>3, <1>6, <2>1, RowsWereRead, Zenon
  <2> QED BY <1>5, <2>2, <2>3, Zenon DEF RowTaken
<1>8. DOMAIN table = 1 .. n
  BY <1>2, <1>3
<1>9. ASSUME NEW k \in 1 .. n, k # c.row PROVE taken.rows[k] = table[k]
  <2>1. RowSent(c, k)
    BY <1>2, <1>8, <1>9, Zenon
  <2>2. c.parser = "sqlstmnt" => Len(Columns(c).list) = Len(c.cuts[1]) - 1
    <3> SUFFICES ASSUME c.parser = "sqlstmnt" PROVE Len(Columns(c).list) = Len(c.cuts[1]) - 1
      OBVIOUS
    <3>1. n >= 1 /\ Columns(c).ok
      BY <1>5, Zenon DEF HasColumns
    <3>2. CASE c.row = 1
      <4>1. AllInQuotes(Sent(c.whole, c.at, 1), c.cuts[1])
        BY <3>2, Zenon DEF Damages
      <4>2. PICK w : w = Len(Columns(c).list)
        OBVIOUS
      <4>3. read[k] = RowRead(c.parser, Sent(c.whole, c.at, k), w)
        BY <1>4, <4>2, Zenon DEF RowsRead
      <4>4. read[k] = Items(Sent(c.whole, c.at, k), w)
        BY <4>3, RowReadIs, Zenon
      <4>5. Items(Sent(c.whole, c.at, k), w).ok
        BY <1>7, <4>4, Zenon
      <4> QED BY <2>1, <3>1, <4>1, <4>2, <4>5, ColumnsKept, Zenon
    <3>3. CASE c.row # 1
      <4>1. 1 \in 1 .. n
        BY <1>3, <3>1
      <4>2. RowSent(c, 1)
        BY <1>2, <1>8, <3>3, <4>1, Zenon
      <4> QED BY <4>2, ColumnsRead, Zenon
    <3> QED BY <3>2, <3>3
  <2>3. ReadAs(read[k], table[k], <<>>)
    BY <1>1, <1>2, <1>3, <1>4, <2>1, <2>2, RowIsRead, Zenon
  <2>4. read[k].list = table[k]
    BY <2>3 DEF ReadAs
  <2> QED BY <1>7, <2>4, Zenon
<1> QED BY <1>1, <1>2, <1>7, <1>8, <1>9, Zenon

-----------------------------------------------------------------------------
(* The tables of the other parsers                                         *)

\* A few numbers, and a list of three.
LEMMA Few == 1 >= 1 /\ 2 >= 1 /\ 3 >= 1 /\ 2 \in 1 .. 3 /\ 3 \in 1 .. 3
  OBVIOUS

LEMMA ThreeTogether ==
  ASSUME NEW x, NEW y, NEW z
  PROVE  <<x>> \o <<y, z>> = <<x, y, z>>
<1> DEFINE S == {x, y, z}
           list == <<x>> \o <<y, z>>
<1>1. <<x>> \in Seq(S) /\ <<y, z>> \in Seq(S) /\ <<x, y, z>> \in Seq(S)
  OBVIOUS
<1>2. list \in Seq(S) /\ Len(list) = 3 /\ list[1] = x /\ list[2] = y /\ list[3] = z
  BY <1>1
<1> HIDE DEF list, S
<1>3. Len(<<x, y, z>>) = 3 /\ \A i \in 1 .. 3 : list[i] = <<x, y, z>>[i]
  BY <1>2
<1>4. list = <<x, y, z>>
  BY <1>1, <1>2, <1>3
<1> QED BY <1>4 DEF list

\* The count and the first string, which has its zero bytes in a file.
FirstIs(c, n, count, first) ==
  /\ count.ok /\ count.n = n /\ count.rest = From(c.whole, c.at[1])
  /\ first.ok /\ first.text = Sent(c.whole, c.at, 1) /\ first.rest = From(c.whole, c.at[2])

LEMMA FirstStringRead ==
  ASSUME NEW c, Complete(c), NEW n, n = Len(c.at) - 1, n >= 1,
         NEW count, count = ParseNumber(c.text),
         NEW first, first = ParseString(count.rest)
  PROVE  FirstIs(c, n, count, first)
<1>1. PICK whole, at, spare : whole = c.whole /\ at = c.at /\ spare = Spare(c.parser)
  OBVIOUS
<1>2. Delivered(c, n) /\ n \in Nat
  BY CompleteIs, Zenon
<1>3. Received(whole, whole, at, spare) /\ Len(at) = n + 1
  BY <1>1, <1>2, Zenon DEF Delivered
<1>4. count = [ok |-> TRUE, n |-> n, rest |-> From(whole, at[1])]
  BY <1>1, <1>2, DeliveredRead, Zenon
<1>5. count.ok /\ count.n = n /\ count.rest = From(whole, at[1])
  BY <1>4
<1>6. 1 \in 1 .. Len(at) - 1 /\ 1 \in 1 .. Len(at) /\ 2 \in 1 .. Len(at) /\ 1 + 1 = 2
  BY <1>2, <1>3
<1>7. at[1] <= Len(whole) + 1 /\ at[2] <= Len(whole) + 1
  BY <1>3, <1>6, StringsEnd
<1>8. first = IF at[1 + 1] <= Len(whole) + 1
                THEN [ok |-> TRUE, text |-> SubSeq(whole, at[1] + 2, at[1 + 1] - 1),
                      rest |-> From(whole, at[1 + 1])]
                ELSE NoText
  BY <1>3, <1>5, <1>6, <1>7, StringRead, Zenon
<1>9. PICK string, rest : string = SubSeq(whole, at[1] + 2, at[1 + 1] - 1) /\ rest = From(whole, at[2])
  OBVIOUS
<1>10. first = [ok |-> TRUE, text |-> string, rest |-> rest]
  BY <1>6, <1>7, <1>8, <1>9, Zenon
<1>11. first.ok /\ first.text = string /\ first.rest = rest
  BY <1>10
<1>12. Sent(whole, at, 1) = string
  BY <1>9, Zenon DEF Sent
<1> QED BY <1>1, <1>5, <1>9, <1>11, <1>12, Zenon DEF FirstIs

\* A first string that is not a file's is read as it was sent.
FirstWas(c, n, count, first) ==
  count.ok /\ count.n = n /\ first.ok /\ first.text = Sent(c.whole, c.at, 1)

LEMMA FirstSent ==
  ASSUME NEW c, Complete(c), NEW n, n = Len(c.at) - 1, n >= 1, c.parser # "file_content",
         NEW count, count = ParseNumber(c.text),
         NEW first, first = ParseCString(count.rest)
  PROVE  FirstWas(c, n, count, first)
<1>1. PICK p : p = ParseString(count.rest)
  OBVIOUS
<1>2. /\ count.ok /\ count.n = n /\ count.rest = From(c.whole, c.at[1])
      /\ p.ok /\ p.text = Sent(c.whole, c.at, 1)
  <2>1. FirstIs(c, n, count, p)
    BY <1>1, FirstStringRead, Zenon
  <2> QED BY <2>1, Zenon DEF FirstIs
<1>3. first = [p EXCEPT !.text = CString(p.text)]
  BY <1>1, Zenon DEF ParseCString
<1>4. n \in Nat
  BY CompleteIs, Zenon
<1>5. 1 \in 1 .. n
  BY <1>4
<1>6. CString(p.text) = Sent(c.whole, c.at, 1)
  <2>1. StringAt(c.whole, c.at, 1) = Sent(c.whole, c.at, 1)
    BY <1>5, SentRead, Zenon
  <2> QED BY <1>2, <2>1, Zenon DEF StringAt, Sent
<1>7. p = [ok |-> TRUE, text |-> p.text, rest |-> p.rest]
  <2>1. p = StringOf(ParseNumber(count.rest))
    BY <1>1, Zenon DEF ParseString
  <2>2. p # NoText
    BY <1>2 DEF NoText
  <2>3. PICK t, r : p = [ok |-> TRUE, text |-> t, rest |-> r]
    BY <2>1, <2>2, Zenon DEF StringOf
  <2> QED BY <2>3
<1>8. first.ok /\ first.text = CString(p.text)
  BY <1>3, <1>7, TextReplaced
<1> QED BY <1>2, <1>6, <1>8, Zenon DEF FirstWas

\* A session's name is the first of two strings.
LEMMA SessionRead ==
  ASSUME NEW c, Complete(c), Len(c.at) - 1 = 2, c.parser = "debugger_start"
  PROVE  ParserResult(c.parser, c.text) = Read(<< <<Sent(c.whole, c.at, 1)>> >>)
<1>1. PICK count, first, n :
        count = ParseNumber(c.text) /\ first = ParseCString(count.rest) /\ n = Len(c.at) - 1
  OBVIOUS
<1>2. n >= 1 /\ n = 2
  BY <1>1, Few, Zenon
<1>3. c.parser # "file_content"
  OBVIOUS
<1>4. count.n = 2 /\ first.ok /\ first.text = Sent(c.whole, c.at, 1)
  <2>1. FirstWas(c, n, count, first)
    BY <1>1, <1>2, <1>3, FirstSent, Zenon
  <2> QED BY <1>2, <2>1, Zenon DEF FirstWas
<1>5. DebuggerStart(c.text) = Read(<< <<Sent(c.whole, c.at, 1)>> >>)
  BY <1>1, <1>4, Zenon DEF DebuggerStart, ReadIf
<1> QED BY <1>5, ParserResultIs, Zenon

\* The packet is the only string.
LEMMA PacketRead ==
  ASSUME NEW c, Complete(c), Len(c.at) - 1 = 1, c.parser # "file_content",
         NEW packet, Sent(c.whole, c.at, 1) = <<packet>>
  PROVE  PacketOf(c.text) = packet
<1>1. PICK count, first, n :
        count = ParseNumber(c.text) /\ first = ParseCString(count.rest) /\ n = Len(c.at) - 1
  OBVIOUS
<1>2. n >= 1 /\ n = 1
  BY <1>1, Few, Zenon
<1>3. FirstWas(c, n, count, first)
  BY <1>1, <1>2, FirstSent, ZenonT(30)
<1>4. count.n = 1 /\ first.ok /\ first.text = <<packet>>
  BY <1>2, <1>3, Zenon DEF FirstWas
<1>5. Len(<<packet>>) = 1 /\ <<packet>>[1] = packet
  OBVIOUS
<1> QED BY <1>1, <1>4, <1>5, Zenon DEF PacketOf

\* The content of a file, and the two strings behind it.
LEMMA FileRead ==
  ASSUME NEW c, Complete(c), Len(c.at) - 1 = 3, c.parser = "file_content"
  PROVE  ParserResult(c.parser, c.text)
           = Read(<< <<Sent(c.whole, c.at, 1), Sent(c.whole, c.at, 2), Sent(c.whole, c.at, 3)>> >>)
<1>1. PICK count, content, others, n :
        /\ count = ParseNumber(c.text) /\ content = ParseString(count.rest)
        /\ others = Strings(content.rest, 2) /\ n = Len(c.at) - 1
  OBVIOUS
<1>2. n = 3 /\ n >= 1 /\ 2 \in 1 .. n /\ 3 \in 1 .. n
  BY <1>1, Few, Zenon
<1>3. /\ count.ok /\ count.n = 3
      /\ content.ok /\ content.text = Sent(c.whole, c.at, 1) /\ content.rest = From(c.whole, c.at[2])
  <2>1. FirstIs(c, n, count, content)
    BY <1>1, <1>2, FirstStringRead, Zenon
  <2> QED BY <1>2, <2>1, Zenon DEF FirstIs
<1>4. others.ok /\ others.list = ListAt(c.whole, c.at, 2, 2)
  <2>1. Delivered(c, n)
    BY <1>1, CompleteIs, Zenon
  <2>2. 2 \in Nat /\ 2 >= 1 /\ 2 + 2 <= n + 1
    BY <1>2
  <2>3. /\ Strings(From(c.whole, c.at[2]), 2).ok
        /\ Strings(From(c.whole, c.at[2]), 2).list = ListAt(c.whole, c.at, 2, 2)
    BY <2>1, <2>2, DeliveredRead
  <2> QED BY <1>1, <1>3, <2>3, Zenon
<1>5. StringAt(c.whole, c.at, 2) = Sent(c.whole, c.at, 2)
  <2>1. ~(2 = 1)
    OBVIOUS
  <2> QED BY <1>1, <1>2, <2>1, SentRead, Zenon
<1>6. StringAt(c.whole, c.at, 3) = Sent(c.whole, c.at, 3)
  <2>1. ~(3 = 1)
    OBVIOUS
  <2> QED BY <1>1, <1>2, <2>1, SentRead, Zenon
<1>7. PICK s1, s2, s3 : /\ s1 = Sent(c.whole, c.at, 1) /\ s2 = Sent(c.whole, c.at, 2)
                        /\ s3 = Sent(c.whole, c.at, 3)
  OBVIOUS
<1>8. others.list = <<s2, s3>>
  <2> DEFINE item(j) == StringAt(c.whole, c.at, 2 + j - 1)
  <2>1. others.list = [j \in 1 .. 2 |-> item(j)]
    BY <1>4, Zenon DEF ListAt
  <2>2. item(1) = s2 /\ item(2) = s3
    <3>1. 2 + 1 - 1 = 2 /\ 2 + 2 - 1 = 3
      OBVIOUS
    <3> QED BY <1>5, <1>6, <1>7, <3>1, Zenon
  <2> HIDE DEF item
  <2>3. [j \in 1 .. 2 |-> item(j)] = <<item(1), item(2)>>
    OBVIOUS
  <2> QED BY <2>1, <2>2, <2>3, Zenon
<1>9. <<s1>> \o <<s2, s3>> = <<s1, s2, s3>>
  BY ThreeTogether
<1>10. FileContent(c.text) = Read(<< <<content.text>> \o others.list >>)
  BY <1>1, <1>3, <1>4, Zenon DEF FileContent, ReadIf
<1>11. ParserResult(c.parser, c.text) = Read(<< <<s1, s2, s3>> >>)
  BY <1>3, <1>7, <1>8, <1>9, <1>10, ParserResultIs, Zenon
<1> QED BY <1>7, <1>11, Zenon

\* A name is read without its quotes.
LEMMA QuotedName ==
  ASSUME NEW name \in Seq(Unit), NEW quote, NEW l \in Nat, l = Len(name),
         NEW string, string = <<quote>> \o name \o <<quote>>
  PROVE  /\ Len(string) = l + 2 /\ string[1] = quote /\ string[l + 2] = quote
         /\ \A i \in 1 .. l : string[i + 1] = name[i]
<1> DEFINE S == Unit \cup {quote}
           first == <<quote>> \o name
<1>1. name \in Seq(S) /\ <<quote>> \in Seq(S) /\ Len(<<quote>>) = 1 /\ <<quote>>[1] = quote
  OBVIOUS
<1> HIDE DEF S
<1>2. /\ first \in Seq(S) /\ Len(first) = 1 + l
      /\ first[1] = quote /\ \A i \in 1 .. l : first[1 + i] = name[i]
  BY <1>1
<1> HIDE DEF first
<1>3. string = first \o <<quote>>
  BY DEF first
<1>4. /\ Len(string) = l + 2 /\ string[l + 2] = quote
      /\ \A i \in 1 .. l + 1 : string[i] = first[i]
  BY <1>1, <1>2, <1>3
<1>5. \A i \in 1 .. l : i + 1 \in 1 .. l + 1 /\ i + 1 = 1 + i
  OBVIOUS
<1>6. string[1] = quote /\ \A i \in 1 .. l : string[i + 1] = name[i]
  BY <1>2, <1>4, <1>5
<1> QED BY <1>4, <1>6

LEMMA NameRead ==
  ASSUME NEW string \in Seq(Unit), NEW name, NameSent(string, name)
  PROVE  ReadAs(Unquoted(string), <<name>>, <<>>)
<1>1. PICK quote : quote = QUOTE
  OBVIOUS
<1>2. /\ name \in Seq(Unit) /\ \A i \in DOMAIN name : name[i] # quote
      /\ string = name \/ string = <<quote>> \o name \o <<quote>>
  BY <1>1, Zenon DEF NameSent
<1>3. PICK l \in Nat : l = Len(name) /\ DOMAIN name = 1 .. l
  BY <1>2
<1>4. PICK open, close :
        open = Place(quote, string) /\ close = Place(quote, From(string, open + 1))
  OBVIOUS
<1>5. PICK text : text = IF open > 0 /\ close > 0 THEN SubSeq(string, open + 1, open + close - 1)
                         ELSE string
  OBVIOUS
<1>6. Unquoted(string) = [ok |-> TRUE, rest |-> <<>>, list |-> <<text>>]
  BY <1>1, <1>4, <1>5, Zenon DEF Unquoted
<1>7. text = name
  <2>1. CASE string = name
    <3>1. \A i \in 1 .. Len(string) : string[i] # quote
      BY <1>2, <1>3, <2>1, Zenon
    <3>2. open = 0
      BY <1>4, <3>1, PlaceNowhere
    <3>3. ~(open > 0)
      BY <3>2
    <3> QED BY <1>5, <2>1, <3>3, Zenon
  <2>2. CASE string = <<quote>> \o name \o <<quote>>
    <3>1. /\ Len(string) = l + 2 /\ string[1] = quote /\ string[l + 2] = quote
          /\ \A i \in 1 .. l : string[i + 1] = name[i]
      BY <1>2, <1>3, <2>2, QuotedName
    <3>2. open = 1
      <4>1. 1 \in 1 .. Len(string) /\ \A i \in 1 .. 1 - 1 : string[i] # quote
        BY <3>1
      <4> QED BY <1>4, <3>1, <4>1, PlaceIs
    <3> DEFINE body == From(string, 2)
    <3>3. /\ body \in Seq(Unit) /\ Len(body) = l + 1
          /\ \A i \in 1 .. l + 1 : body[i] = string[i + 1]
      <4>1. PICK m \in Nat : m = l + 2 /\ 2 \in 1 .. m + 1 /\ m + 1 - 2 = l + 1
        OBVIOUS
      <4>2. /\ body \in Seq(Unit) /\ Len(body) = m + 1 - 2
            /\ \A i \in 1 .. m + 1 - 2 : body[i] = string[2 + i - 1]
        BY <3>1, <4>1, FromUnits
      <4>3. \A i \in 1 .. l + 1 : 2 + i - 1 = i + 1
        OBVIOUS
      <4> HIDE DEF body
      <4> QED BY <4>1, <4>2, <4>3
    <3>4. close = Place(quote, body)
      <4>1. open + 1 = 2
        BY <3>2
      <4> QED BY <1>4, <4>1, Zenon
    <3> HIDE DEF body
    <3>5. close = l + 1
      <4>1. l + 1 \in 1 .. Len(body) /\ body[l + 1] = quote
        <5>1. l + 1 \in 1 .. l + 1 /\ (l + 1) + 1 = l + 2
          OBVIOUS
        <5> QED BY <3>1, <3>3, <5>1
      <4>2. \A i \in 1 .. (l + 1) - 1 : body[i] # quote
        <5>1. ASSUME NEW i \in 1 .. l PROVE body[i] # quote
          <6>1. i \in 1 .. l + 1
            OBVIOUS
          <6> QED BY <1>2, <1>3, <3>1, <3>3, <6>1
        <5> QED BY <5>1
      <4> QED BY <3>3, <3>4, <4>1, <4>2, PlaceIs
    <3>6. open > 0 /\ close > 0 /\ open + 1 = 2 /\ open + close - 1 = l + 1
      BY <3>2, <3>5
    <3>7. text = SubSeq(string, 2, l + 1)
      BY <1>5, <3>6, Zenon
    <3>8. Part(SubSeq(string, 2, l + 1), string, 2, l)
      <4> DEFINE e == l + 1
      <4>1. e \in Nat /\ e <= Len(string) /\ 2 + l = e + 1 /\ 2 \in Nat \ {0}
        BY <3>1
      <4> HIDE DEF e
      <4>2. Fits(string, 2, e, l)
        BY <4>1 DEF Fits
      <4>3. Part(SubSeq(string, 2, e), string, 2, l)
        BY <4>2, SubIs
      <4> QED BY <4>3 DEF e
    <3>9. /\ text \in Seq(Unit) /\ Len(text) = l
          /\ \A i \in 1 .. l : text[i] = string[2 + i - 1]
      BY <3>7, <3>8, Zenon DEF Part
    <3>10. \A i \in 1 .. l : text[i] = name[i]
      <4>1. \A i \in 1 .. l : 2 + i - 1 = i + 1
        OBVIOUS
      <4> QED BY <3>1, <3>9, <4>1
    <3>11. \A i \in 1 .. Len(text) : text[i] = name[i]
      BY <3>9, <3>10
    <3> QED BY <1>2, <1>3, <3>9, <3>11
  <2> QED BY <1>2, <2>1, <2>2
<1>8. [ok |-> TRUE, rest |-> <<>>, list |-> <<name>>] = [ok |-> TRUE, list |-> <<name>>, rest |-> <<>>]
  OBVIOUS
<1> QED BY <1>6, <1>7, <1>8, Zenon DEF ReadAs

LEMMA OneItem ==
  ASSUME NEW table \in Seq(Seq(Seq(Unit))), NEW i \in 1 .. Len(table), Len(table[i]) = 1
  PROVE  table[i] = <<table[i][1]>>
<1>1. PICK row \in Seq(Seq(Unit)) : row = table[i]
  OBVIOUS
<1>2. Len(row) = 1
  BY <1>1
<1>3. row = <<row[1]>>
  BY <1>2
<1> QED BY <1>1, <1>3

\* The names of the data sources.
NamesSent(c) ==
  /\ c.parser = "dsninfo" /\ IsTable(c) /\ Len(c.at) - 1 <= MaxItems
  /\ \A k \in 1 .. Len(c.at) - 1 : Len(c.table[k]) = 1
                                   /\ NameSent(Sent(c.whole, c.at, k), c.table[k][1])
\* A well-formed list of names is read as it is.
LEMMA NamesAreRead ==
  ASSUME NEW c, Complete(c), NamesSent(c)
  PROVE  ParserResult(c.parser, c.text) = Read(c.table)
<1>1. PICK n, reply, table, strings :
        /\ n = Len(c.at) - 1 /\ reply = ParseStrings(c.text) /\ table = c.table
        /\ strings = reply.strings.list
  OBVIOUS
<1>2. /\ table \in Seq(Seq(Seq(Unit))) /\ Len(table) = n /\ n <= MaxItems
      /\ \A k \in 1 .. n : Len(table[k]) = 1 /\ NameSent(Sent(c.whole, c.at, k), table[k][1])
  BY <1>1, Zenon DEF NamesSent, IsTable
<1>3. n \in Nat /\ reply.count = n /\ reply.strings.ok /\ DOMAIN strings = 1 .. n
  BY <1>1, ReplyRead, Zenon
<1>4. ASSUME NEW k \in 1 .. n PROVE strings[k] = Sent(c.whole, c.at, k)
  <2>1. IsSent(c, reply, k)
    BY <1>1, ReplyRead, Zenon
  <2>2. c.parser # "file_content"
    BY Zenon DEF NamesSent
  <2> QED BY <1>1, <2>1, <2>2, Zenon DEF IsSent
<1>5. PICK read : read = [k \in DOMAIN strings |-> Unquoted(strings[k])]
  OBVIOUS
<1>6. ASSUME NEW k \in 1 .. n PROVE ReadAs(read[k], table[k], <<>>)
  <2>1. read[k] = Unquoted(Sent(c.whole, c.at, k))
    BY <1>3, <1>4, <1>5, Zenon
  <2>2. PICK name : name = table[k][1]
    OBVIOUS
  <2>3. Sent(c.whole, c.at, k) \in Seq(Unit)
    BY <1>1, SentRead, Zenon
  <2>4. ReadAs(read[k], <<name>>, <<>>)
    BY <1>2, <2>1, <2>2, <2>3, NameRead, Zenon
  <2>5. table[k] = <<name>>
    <3>2. Len(table[k]) = 1 /\ k \in 1 .. Len(table)
      BY <1>2, Zenon
    <3> QED BY <1>2, <2>2, <3>2, OneItem, Zenon
  <2> QED BY <2>4, <2>5, Zenon
<1>7. RowsIn(reply, read) = Read(table)
  <2>1. DOMAIN read = 1 .. n
    BY <1>3, <1>5, Zenon
  <2>2. reply.count \in 0 .. MaxItems
    BY <1>2, <1>3, LimitAssumption
  <2>3. \A k \in 1 .. n : ReadAs(read[k], table[k], <<>>)
    BY <1>6, Zenon
  <2>4. table \in Seq(Seq(Seq(Unit))) /\ Len(table) = n
    BY <1>2, Zenon
  <2> QED BY <1>3, <2>1, <2>2, <2>3, <2>4, RowsAreRead
<1>8. ParserResult(c.parser, c.text) = RowsIn(reply, read)
  BY <1>1, <1>5, ParserResultIs, Zenon DEF NamesSent, DsnInfo, Rows, RowsOf
<1> QED BY <1>1, <1>7, <1>8, Zenon

\* The entries of a directory, five strings each.
DirectorySent(c) ==
  /\ c.parser = "browse_dir" /\ c.table \in Seq(Seq(Seq(Unit)))
  /\ Len(c.at) - 1 = 5 * Len(c.table) /\ Len(c.table) <= MaxItems
  /\ \A k \in DOMAIN c.table : /\ Len(c.table[k]) = 5 /\ EntrySent(c.table[k])
                              /\ \A i \in 1 .. 5 : c.table[k][i] = Sent(c.whole, c.at, 5 * k - 5 + i)

LEMMA OnePart ==
  ASSUME NEW x
  PROVE  Len(<<x>>) = 1 /\ <<x>>[1] = x
  OBVIOUS

LEMMA EntryIs ==
  ASSUME NEW e, EntrySent(e)
  PROVE  IsEntry(e)
<1>1. e[1] \in {<<"F", ":">>, <<"D", ":">>}
  BY Zenon DEF EntrySent
<1>2. ASSUME NEW numeral \in DOMAIN Value
      PROVE  IsNumeral(<<numeral>>) /\ <<numeral>>[1] = numeral
  BY OnePart, Zenon DEF IsNumeral
<1>3. IsNumeral(e[3]) /\ Value[e[3][1]] \in 0 .. 255
  <2>1. PICK numeral \in DOMAIN Value : e[3] = <<numeral>> /\ Value[numeral] \in 0 .. 255
    BY Zenon DEF EntrySent
  <2> QED BY <1>2, <2>1, Zenon
<1>4. IsNumeral(e[4]) /\ Value[e[4][1]] >= 0
  <2>1. PICK numeral \in DOMAIN Value : e[4] = <<numeral>> /\ Value[numeral] >= 0
    BY Zenon DEF EntrySent
  <2> QED BY <1>2, <2>1, Zenon
<1>5. Len(e[5]) = 3 /\ e[5][2] = "," /\ IsNumeral(<<e[5][1]>>) /\ IsNumeral(<<e[5][3]>>)
  <2>1. PICK low \in DOMAIN Value, high \in DOMAIN Value : e[5] = <<low, Comma, high>>
    BY Zenon DEF EntrySent, Comma
  <2>2. Len(e[5]) = 3 /\ e[5][1] = low /\ e[5][2] = Comma /\ e[5][3] = high
    <3>1. PICK five, comma : five = e[5] /\ comma = Comma
      OBVIOUS
    <3>2. five = <<low, comma, high>>
      BY <2>1, <3>1, Zenon
    <3>3. Len(five) = 3 /\ five[1] = low /\ five[2] = comma /\ five[3] = high
      BY <3>2
    <3> QED BY <3>1, <3>3, Zenon
  <2> QED BY <1>2, <2>1, <2>2, Zenon DEF Comma
<1> QED BY <1>1, <1>3, <1>4, <1>5, Zenon DEF IsEntry

\* Two lists with the same elements are the same.
LEMMA SameList ==
  ASSUME NEW S, NEW s \in Seq(S), NEW t \in Seq(S), Len(s) = Len(t),
         \A i \in 1 .. Len(s) : s[i] = t[i]
  PROVE  s = t
  OBVIOUS

\* Of five strings for each, the k-th five.
LEMMA Fives ==
  ASSUME NEW list \in Seq(Seq(Unit)), NEW k \in Nat \ {0}, NEW l \in Nat,
         Len(list) = 5 * l, k <= l,
         NEW e \in Seq(Seq(Unit)), Len(e) = 5, \A i \in 1 .. 5 : e[i] = list[5 * k - 5 + i]
  PROVE  SubSeq(list, 5 * k - 4, 5 * k) = e
<1>1. PICK a \in Nat, b \in Nat : a = 5 * k - 4 /\ b = 5 * k
  <2>1. 5 * k - 4 \in Nat /\ 5 * k \in Nat
    OBVIOUS
  <2> QED BY <2>1
<1>2. a >= 1 /\ b <= Len(list) /\ b = a + 4
  BY <1>1
<1> DEFINE s == SubSeq(list, a, b)
<1>3. s \in Seq(Seq(Unit)) /\ Len(s) = 5 /\ \A i \in 1 .. 5 : s[i] = list[a + i - 1]
  BY <1>2
<1>4. \A i \in 1 .. 5 : a + i - 1 = 5 * k - 5 + i
  BY <1>1
<1> HIDE DEF s
<1>5. \A i \in 1 .. Len(s) : s[i] = e[i]
  BY <1>3, <1>4
<1>6. s = e
  <2>1. s \in Seq(Seq(Unit)) /\ Len(s) = Len(e)
    BY <1>3
  <2> QED BY <1>5, <2>1, SameList, Zenon
<1> QED BY <1>1, <1>6 DEF s

\* A well-formed directory is read entry by entry.
LEMMA DirectoryRead ==
  ASSUME NEW c, Complete(c), DirectorySent(c)
  PROVE  ParserResult(c.parser, c.text) = Read(c.table)
<1>1. PICK n, reply, table, list :
        /\ n = Len(c.at) - 1 /\ reply = ParseStrings(c.text) /\ table = c.table
        /\ list = reply.strings.list
  OBVIOUS
<1>2. /\ table \in Seq(Seq(Seq(Unit))) /\ n = 5 * Len(table) /\ Len(table) <= MaxItems
      /\ \A k \in DOMAIN table :
           /\ Len(table[k]) = 5 /\ EntrySent(table[k])
           /\ \A i \in 1 .. 5 : table[k][i] = Sent(c.whole, c.at, 5 * k - 5 + i)
  BY <1>1, Zenon DEF DirectorySent
<1>3. PICK l \in Nat : l = Len(table) /\ DOMAIN table = 1 .. l
  BY <1>2
<1>4. n \in Nat /\ reply.count = n /\ reply.strings.ok /\ DOMAIN list = 1 .. n /\ Len(list) = n
  BY <1>1, ReplyRead, Zenon
<1>5. ASSUME NEW k \in 1 .. n PROVE list[k] = Sent(c.whole, c.at, k) /\ list[k] \in Seq(Unit)
  <2>1. IsSent(c, reply, k)
    BY <1>1, ReplyRead, Zenon
  <2>2. c.parser # "file_content"
    BY Zenon DEF DirectorySent
  <2>3. Sent(c.whole, c.at, k) \in Seq(Unit)
    BY <1>1, SentRead, Zenon
  <2> QED BY <1>1, <2>1, <2>2, <2>3, Zenon DEF IsSent
<1>6. list \in Seq(Seq(Unit))
  <2>1. list = [j \in 1 .. n |-> list[j]]
    <3>1. IsListOf(reply.strings.list, n)
      BY <1>1, ReplyRead, Zenon
    <3> QED BY <1>1, <3>1, Zenon DEF IsListOf
  <2> QED BY <1>4, <1>5, <2>1, SMTT(30)
<1>7. PICK entries : entries = Entries(reply.strings)
  OBVIOUS
<1>8. entries = table
  <2>1. Len(list) \div 5 = l
    BY <1>2, <1>3, <1>4
  <2>2. \A k \in 1 .. l : SubSeq(list, 5 * k - 4, 5 * k) = table[k]
    <3>1. ASSUME NEW k \in 1 .. l PROVE SubSeq(list, 5 * k - 4, 5 * k) = table[k]
      <4>1. PICK e \in Seq(Seq(Unit)) : e = table[k]
        BY <1>2, <1>3
      <4>2. \A i \in 1 .. 5 : 5 * k - 5 + i \in 1 .. n
        BY <1>2, <1>3
      <4>3. Len(e) = 5 /\ \A i \in 1 .. 5 : e[i] = list[5 * k - 5 + i]
        BY <1>2, <1>3, <1>5, <4>1, <4>2, Zenon
      <4>4. k \in Nat \ {0} /\ k <= l /\ Len(list) = 5 * l
        BY <1>2, <1>3, <1>4
      <4>5. SubSeq(list, 5 * k - 4, 5 * k) = e
        BY <1>6, <4>3, <4>4, Fives
      <4> QED BY <4>1, <4>5
    <3> QED BY <3>1
  <2>3. entries = [k \in 1 .. l |-> SubSeq(list, 5 * k - 4, 5 * k)]
    BY <1>1, <1>7, <2>1, Zenon DEF Entries
  <2>4. entries = [k \in 1 .. l |-> table[k]]
    BY <2>2, <2>3, Zenon
  <2>5. table = [k \in 1 .. l |-> table[k]]
    BY <1>2, <1>3
  <2> QED BY <2>4, <2>5, Zenon
<1>9. \A i \in DOMAIN entries : IsEntry(entries[i])
  BY <1>2, <1>8, EntryIs, Zenon
<1>10. reply.count >= 0 /\ reply.count % 5 = 0 /\ reply.count \div 5 <= MaxItems
  <2>1. n >= 0 /\ n % 5 = 0 /\ n \div 5 = l
    BY <1>2, <1>3
  <2> QED BY <1>2, <1>3, <1>4, <2>1, Zenon
<1>11. BrowseDir(c.text) = Read(table)
  <2>1. Directory(reply, entries) = Read(entries)
    BY <1>4, <1>9, <1>10, Zenon DEF Directory, ReadIf
  <2> QED BY <1>1, <1>7, <1>8, <2>1, Zenon DEF BrowseDir
<1>12. c.parser = "browse_dir"
  BY Zenon DEF DirectorySent
<1> QED BY <1>1, <1>11, <1>12, ParserResultIs, Zenon

\* A row of items in quotes is read as such also if more follows.
LEMMA QuotesOnly ==
  ASSUME NEW row, NEW cuts, NEW items, IsRow(row, cuts, items), AllInQuotes(row, cuts),
         NEW j \in 1 .. Len(items)
  PROVE  InQuotes(row, cuts[j], cuts[j + 1] - 2, items[j])
<1>1. items \in Seq(Seq(Unit)) /\ Len(items) = Len(cuts) - 1
  BY RowPlaces, Zenon DEF IsRow
<1>2. j \in DOMAIN items /\ j \in 1 .. Len(cuts) - 1
  BY <1>1
<1>3. \/ InQuotes(row, cuts[j], cuts[j + 1] - 2, items[j])
      \/ IsBare(row, cuts[j], cuts[j + 1] - 2, items[j])
  BY <1>2, Zenon DEF IsRow
<1>4. row[cuts[j]] = QUOTE
  BY <1>2, Zenon DEF AllInQuotes
<1> QED BY <1>3, <1>4, Zenon DEF IsBare

\* The text begins with the row.
Begins(text, row, m) ==
  /\ text \in Seq(Unit) /\ m \in Nat /\ Len(row) = m /\ m <= Len(text)
  /\ \A i \in 1 .. m : text[i] = row[i]

\* An item within the row is the same item in the longer text.
LEMMA QuotesBegin ==
  ASSUME NEW text, NEW row, NEW m, Begins(text, row, m), NEW a \in Nat \ {0}, NEW b \in Nat,
         b <= m, NEW item \in Seq(Unit), InQuotes(row, a, b, item)
  PROVE  InQuotes(text, a, b, item)
<1>1. PICK l \in Nat : l = Len(item) /\ DOMAIN item = 1 .. l
  OBVIOUS
<1>2. PICK quote : quote = QUOTE
  OBVIOUS
<1>3. /\ b = a + l + 1 /\ row[a] = quote /\ row[b] = quote
      /\ \A i \in 1 .. l : row[a + i] = item[i] /\ item[i] # quote
  BY <1>1, <1>2, Zenon DEF InQuotes
<1>4. m \in Nat /\ \A i \in 1 .. m : text[i] = row[i]
  BY Zenon DEF Begins
<1>5. a \in 1 .. m /\ b \in 1 .. m /\ \A i \in 1 .. l : a + i \in 1 .. m
  BY <1>1, <1>3, <1>4
<1>6. /\ text[a] = quote /\ text[b] = quote
      /\ \A i \in 1 .. l : text[a + i] = item[i] /\ item[i] # quote
  BY <1>3, <1>4, <1>5, Zenon
<1> QED BY <1>1, <1>2, <1>3, <1>6, Zenon DEF InQuotes

\* An item in quotes is read as such.
LEMMA QuotedPart ==
  ASSUME NEW text \in Seq(Unit), NEW a \in Nat \ {0}, NEW b \in Nat, b <= Len(text),
         NEW item \in Seq(Unit), InQuotes(text, a, b, item),
         NEW part, part = ParseListItem(From(text, a))
  PROVE  part.ok /\ part.text = item
<1>1. PICK l \in Nat : l = Len(item) /\ DOMAIN item = 1 .. l
  OBVIOUS
<1>2. PICK quote : quote = QUOTE
  OBVIOUS
<1>3. /\ b = a + l + 1 /\ text[a] = quote /\ text[b] = quote
      /\ \A i \in 1 .. l : text[a + i] = item[i] /\ item[i] # quote
  BY <1>1, <1>2, Zenon DEF InQuotes
<1>4. PICK m \in Nat : m = Len(text)
  OBVIOUS
<1>5. a \in 1 .. m + 1 /\ b <= m
  BY <1>1, <1>3, <1>4
<1> DEFINE s == From(text, a)
<1>6. s \in Seq(Unit) /\ Len(s) = m + 1 - a /\ \A i \in 1 .. m + 1 - a : s[i] = text[a + i - 1]
  BY <1>4, <1>5, FromUnits
<1> HIDE DEF s
<1>7. /\ 1 \in 1 .. m + 1 - a /\ a + 1 - 1 = a
      /\ l + 2 \in 1 .. m + 1 - a /\ a + (l + 2) - 1 = b /\ l + 2 <= Len(s)
  BY <1>3, <1>5, <1>6
<1>8. s[1] = quote /\ s[l + 2] = quote
  BY <1>3, <1>6, <1>7
<1>9. ASSUME NEW i \in 1 .. l PROVE s[i + 1] = item[i] /\ item[i] # quote
  <2>1. i + 1 \in 1 .. m + 1 - a /\ a + (i + 1) - 1 = a + i
    BY <1>3, <1>5
  <2> QED BY <1>3, <1>6, <2>1
<1>10. PICK rest : rest = SkipComma(From(s, l + 3))
  OBVIOUS
<1>11. part = [ok |-> TRUE, text |-> item, rest |-> rest]
  <2>1. ParseListItem(s) = [ok |-> TRUE, text |-> item, rest |-> SkipComma(From(s, l + 3))]
    <3>1. s[1] = QUOTE /\ s[l + 2] = QUOTE /\ Len(item) = l
      BY <1>1, <1>2, <1>8, Zenon
    <3>2. \A i \in 1 .. l : s[i + 1] = item[i] /\ item[i] # QUOTE
      BY <1>2, <1>9, Zenon
    <3>3. s \in Seq(Unit) /\ l + 2 <= Len(s)
      BY <1>6, <1>7, Zenon
    <3> QED BY <3>1, <3>2, <3>3, QuotedRead
  <2> QED BY <1>10, <2>1, Zenon DEF s
<1> QED BY <1>11

TakenAs(read, items) == read.ok /\ read.list = items

\* The items of such a row are taken one after the other, whatever follows it.
LEMMA ItemsBeyond ==
  ASSUME NEW row, NEW cuts, NEW items, IsRow(row, cuts, items), AllInQuotes(row, cuts),
         NEW text, NEW m, Begins(text, row, m),
         NEW n, n = Len(items)
  PROVE  TakenAs(Items(text, n), items)
<1>0. PICK read : read = Items(text, n)
  OBVIOUS
<1>1. /\ Places(cuts, n, m) /\ row \in Seq(Unit) /\ items \in Seq(Seq(Unit)) /\ Len(cuts) = n + 1
  BY RowPlaces, Zenon DEF Begins
<1>2. n \in Nat \ {0} /\ n \in Nat /\ m \in Nat
  BY <1>1 DEF Places
<1>3. /\ \A i \in 1 .. n + 1 : cuts[i] \in Nat /\ cuts[i] >= i /\ cuts[i] <= m + 2
      /\ \A i \in 1 .. n : cuts[i + 1] >= cuts[i] + 1 /\ cuts[i] < m
  BY <1>1, PlacesGrow, Zenon
<1>4. text \in Seq(Unit) /\ m <= Len(text) /\ \A i \in 1 .. m : text[i] = row[i]
  BY Zenon DEF Begins
<1>5. ASSUME NEW j \in 1 .. n
      PROVE  /\ cuts[j] \in Nat \ {0} /\ cuts[j + 1] - 2 \in Nat /\ cuts[j + 1] - 2 <= m
             /\ InQuotes(text, cuts[j], cuts[j + 1] - 2, items[j])
  <2>1. j \in 1 .. Len(items) /\ j \in 1 .. n + 1 /\ j + 1 \in 1 .. n + 1 /\ items[j] \in Seq(Unit)
        /\ j \in 1 .. Len(cuts) - 1
    BY <1>1, <1>2
  <2>2. InQuotes(row, cuts[j], cuts[j + 1] - 2, items[j])
    BY <2>1, QuotesOnly, Zenon
  <2>3. PICK a \in Nat, b \in Nat : a = cuts[j] /\ b = cuts[j + 1] /\ a >= j /\ b <= m + 2 /\ b >= a + 3
    <3>1. cuts[j + 1] >= cuts[j] + 3
      BY <2>1, Zenon DEF AllInQuotes
    <3> QED BY <1>3, <2>1, <3>1, Zenon
  <2>4. PICK e \in Nat : e = b - 2 /\ e <= m
    <3>1. b - 2 \in Nat /\ b - 2 <= m
      <4>1. b >= a + 3 /\ b <= m + 2
        BY <2>3, Zenon
      <4> QED BY <1>2, <4>1
    <3> QED BY <3>1
  <2>5. a \in Nat \ {0}
    BY <2>3
  <2>6. InQuotes(text, a, e, items[j])
    BY <2>1, <2>2, <2>3, <2>4, <2>5, QuotesBegin, Zenon
  <2> QED BY <2>3, <2>4, <2>5, <2>6, Zenon
<1>6. \A j \in Nat : Items(text, j + 1) = NextItem(Items(text, j))
  <2>1. ASSUME NEW j \in Nat PROVE Items(text, j + 1) = NextItem(Items(text, j))
    <3>1. Repeated(j + 1, text, "item") = ReadNext("item", Repeated(j, text, "item"))
      BY RepeatedIs, Zenon
    <3>2. \A r : ReadNext("item", r) = NextItem(r)
      BY DEF ReadNext
    <3> QED BY <3>1, <3>2, Zenon DEF Items
  <2> QED BY <2>1, Zenon
<1> DEFINE T == {j \in Nat : j < n => Items(text, j) = Have(text, cuts, items, j)}
<1>7. 0 \in T
  <2>1. 0 \in Int /\ 0 <= 0 /\ 0 + 1 = 1 /\ 0 \in Nat
    OBVIOUS
  <2>2. Items(text, 0) = Nothing(text)
    BY <2>1, RepeatedIs, Zenon DEF Items
  <2>3. From(text, cuts[0 + 1]) = text
    <3>1. cuts[1] = 1
      BY <1>1, Zenon DEF Places
    <3> QED BY <1>4, <2>1, <3>1, FromFirst, Zenon
  <2>4. Have(text, cuts, items, 0) = Nothing(text)
    BY <2>3, FirstNone, Zenon DEF Have, Nothing
  <2> QED BY <2>1, <2>2, <2>4, Zenon
<1>8. ASSUME NEW j \in Nat, j \in T PROVE j + 1 \in T
  <2> SUFFICES ASSUME j + 1 < n PROVE Items(text, j + 1) = Have(text, cuts, items, j + 1)
    OBVIOUS
  <2>1. /\ j < n /\ j + 1 \in 1 .. n /\ (j + 1) + 1 \in 1 .. n /\ (j + 1) + 1 \in 1 .. n + 1
        /\ (j + 1) + 1 \in 2 .. (n + 1) - 1
    BY <1>2
  <2>2. Items(text, j) = Have(text, cuts, items, j)
    BY <1>8, <2>1
  <2>3. PICK a \in Nat, b \in Nat, item \in Seq(Unit) :
          a = cuts[j + 1] /\ b = cuts[(j + 1) + 1] /\ item = items[j + 1]
    <3>1. cuts[j + 1] \in Nat /\ cuts[(j + 1) + 1] \in Nat
      BY <1>3, <2>1
    <3>2. items[j + 1] \in Seq(Unit)
      BY <1>1, <2>1
    <3> QED BY <3>1, <3>2, Zenon
  <2>4. /\ a \in Nat \ {0} /\ InQuotes(text, a, b - 2, item) /\ b - 2 <= m /\ b - 2 \in Nat
    BY <1>5, <2>1, <2>3, Zenon
  <2>5. b < m /\ a < b
    <3>1. cuts[(j + 1) + 1] < m /\ cuts[(j + 1) + 1] >= cuts[j + 1] + 1
      BY <1>3, <2>1, Zenon
    <3> QED BY <2>3, <3>1
  <2>6. text[b - 1] = Comma
    <3>1. \A i \in 2 .. (n + 1) - 1 : row[cuts[i] - 1] = Comma
      BY <1>1, Zenon DEF AllInQuotes, Cut, Comma
    <3>2. row[b - 1] = Comma
      BY <2>1, <2>3, <3>1, Zenon
    <3>3. b - 1 \in 1 .. m
      BY <1>2, <2>4, <2>5
    <3> QED BY <1>4, <3>2, <3>3, Zenon
  <2>7. PICK l \in Nat : l = Len(text)
    BY <1>4
  <2>8. item \in Seq(Unit)
    BY <1>1, <2>1, <2>3
  <2>9. ItemEnds(text, l, a, b, item)
    <3>1. a < l /\ b <= l + 2
      BY <1>2, <1>4, <2>5, <2>7
    <3> QED BY <1>4, <2>4, <2>5, <2>6, <2>7, <2>8, <3>1, Zenon DEF ItemEnds
  <2>10. ParseListItem(From(text, a)) = [ok |-> TRUE, text |-> item, rest |-> From(text, b)]
    BY <2>4, <2>9, QuotedItemAt, Zenon
  <2>11. NextItem(Have(text, cuts, items, j)) = Have(text, cuts, items, j + 1)
    BY <2>3, <2>10, HaveGrows, Zenon
  <2> QED BY <1>6, <2>2, <2>11, Zenon
<1> HIDE DEF T
<1>9. PICK j \in Nat : j + 1 = n /\ j < n
  <2>1. n - 1 \in Nat /\ (n - 1) + 1 = n /\ n - 1 < n
    BY <1>2
  <2> QED BY <2>1
<1>10. Items(text, j) = Have(text, cuts, items, j)
  <2>1. \A i \in Nat : i \in T
    BY <1>7, <1>8, NatSetInduction
  <2> QED BY <1>9, <2>1 DEF T
<1>11. n \in 1 .. n
  BY <1>2
<1>12. PICK a \in Nat \ {0}, b \in Nat, item \in Seq(Unit) :
         a = cuts[j + 1] /\ b = cuts[n + 1] - 2 /\ item = items[n]
  <2>1. cuts[j + 1] \in Nat \ {0} /\ cuts[n + 1] - 2 \in Nat
    BY <1>5, <1>9, <1>11
  <2>2. items[n] \in Seq(Unit)
    BY <1>1, <1>11
  <2> QED BY <2>1, <2>2, Zenon
<1>13. b <= Len(text) /\ InQuotes(text, a, b, item) /\ item \in Seq(Unit)
  <2>1. b <= m /\ InQuotes(text, a, b, item)
    BY <1>5, <1>9, <1>11, <1>12, Zenon
  <2>2. item \in Seq(Unit)
    BY <1>1, <1>11, <1>12
  <2>3. b <= Len(text)
    BY <1>2, <1>4, <2>1
  <2> QED BY <2>1, <2>2, <2>3
<1>14. PICK part : part = ParseListItem(From(text, a))
  OBVIOUS
<1>15. part.ok /\ part.text = item
  BY <1>4, <1>13, <1>14, QuotedPart, Zenon
<1>16. PICK have : have = Have(text, cuts, items, j)
  OBVIOUS
<1>17. have.ok /\ have.list = FirstOf(items, j) /\ have.rest = From(text, a)
  BY <1>12, <1>16 DEF Have
<1>18. read = Then(have, part)
  <2>1. read = NextItem(have)
    BY <1>0, <1>6, <1>9, <1>10, <1>16, Zenon
  <2> QED BY <1>14, <1>17, <2>1, Zenon DEF NextItem
<1>19. read.ok = part.ok /\ read.list = Append(have.list, part.text)
  BY <1>18 DEF Then
<1>20. read.list = FirstOf(items, n)
  <2>1. Append(FirstOf(items, j), items[j + 1]) = FirstOf(items, j + 1)
    BY FirstGrows, Zenon
  <2> QED BY <1>9, <1>12, <1>15, <1>17, <1>19, <2>1, ZenonT(30)
<1>21. FirstOf(items, n) = items
  BY <1>1, FirstAll
<1> QED BY <1>0, <1>15, <1>19, <1>20, <1>21, Zenon DEF TakenAs

\* The commands that the server supports: one row, of items in quotes.
CommandsSent(c) ==
  /\ c.parser = "supportedcommands" /\ Len(c.at) - 1 = 1 /\ c.table = <<c.sent[1]>>
  /\ IsRow(Sent(c.whole, c.at, 1), c.cuts[1], c.sent[1])
  /\ AllInQuotes(Sent(c.whole, c.at, 1), c.cuts[1])

\* One byte follows the row.
LEMMA SpareByte ==
  ASSUME NEW c, Delivered(c, 1), Spare(c.parser) = 1, NEW row, row = Sent(c.whole, c.at, 1),
         NEW length, length = ParseNumber(From(c.whole, c.at[1]))
  PROVE  /\ length.ok /\ Len(length.rest) = length.n + 1 /\ length.rest # <<>>
         /\ Front(length.rest) = row /\ Begins(length.rest, row, Len(row))
<1>1. PICK whole, at : whole = c.whole /\ at = c.at
  OBVIOUS
<1>2. Received(whole, whole, at, 1) /\ Len(at) = 1 + 1
  BY <1>1, Zenon DEF Delivered
<1>3. /\ at[1] = 3 /\ 1 \in 1 .. Len(at) - 1 /\ 1 + 1 = 2 /\ 2 \in 1 .. Len(at) /\ Len(at) = 2
  BY <1>2, StringsAt
<1>4. whole \in Seq(Unit)
  BY <1>2, Zenon DEF Received
<1>5. PICK b \in Nat : b = at[2] /\ b = Len(whole) /\ b >= 5
  <2>1. at[2] \in Nat /\ at[1 + 1] >= at[1] + 2 /\ at[Len(at)] + 1 = Len(whole) + 1
    <3>1. Received(whole, whole, at, 1) /\ 2 \in 1 .. Len(at) /\ 1 \in 1 .. Len(at) - 1
      BY <1>2, <1>3, Zenon
    <3> QED BY <3>1, StringsAt, ZenonT(30)
  <2>2. at[2] + 1 = Len(whole) + 1 /\ at[2] >= 5
    BY <1>3, <2>1
  <2>3. Len(whole) \in Nat
    BY <1>4
  <2>4. at[2] = Len(whole)
    BY <2>1, <2>2, <2>3
  <2> QED BY <2>1, <2>2, <2>4
<1>6. whole[3] \in DOMAIN Value /\ Value[whole[3]] = b - 5 /\ whole[4] = ":"
  <2>1. /\ whole[at[1]] \in DOMAIN Value /\ Value[whole[at[1]]] = at[1 + 1] - at[1] - 2
        /\ whole[at[1] + 1] = ":"
    BY <1>2, <1>3, Zenon DEF Received, Framed
  <2>2. 3 + 1 = 4 /\ b - 3 - 2 = b - 5
    BY <1>5
  <2> QED BY <1>3, <1>5, <2>1, <2>2, Zenon
<1> DEFINE text == From(whole, 3)
           rest == From(whole, 5)
<1>7. /\ text \in Seq(Unit) /\ Len(text) = b - 2 /\ text[1] = whole[3] /\ text[2] = whole[4]
  <2>1. /\ text \in Seq(Unit) /\ Len(text) = b + 1 - 3
        /\ \A i \in 1 .. b + 1 - 3 : text[i] = whole[3 + i - 1]
    <3>1. 3 \in 1 .. b + 1
      BY <1>5
    <3> QED BY <1>4, <1>5, <3>1, FromUnits
  <2>2. 1 \in 1 .. b + 1 - 3 /\ 2 \in 1 .. b + 1 - 3 /\ 3 + 1 - 1 = 3 /\ 3 + 2 - 1 = 4
        /\ b + 1 - 3 = b - 2
    BY <1>5
  <2> HIDE DEF text
  <2> QED BY <2>1, <2>2
<1>8. rest \in Seq(Unit) /\ Len(rest) = b - 4 /\ \A i \in 1 .. b - 4 : rest[i] = whole[5 + i - 1]
  <2>1. /\ rest \in Seq(Unit) /\ Len(rest) = b + 1 - 5
        /\ \A i \in 1 .. b + 1 - 5 : rest[i] = whole[5 + i - 1]
    <3>1. 5 \in 1 .. b + 1
      BY <1>5
    <3> QED BY <1>4, <1>5, <3>1, FromUnits
  <2>2. b + 1 - 5 = b - 4
    BY <1>5
  <2> HIDE DEF rest
  <2> QED BY <2>1, <2>2
<1>9. From(text, 3) = rest
  <2>1. 3 \in 1 .. b + 1 /\ 3 \in Nat \ {0} /\ 5 \in Nat /\ 5 = 3 + 3 - 1
    BY <1>5
  <2> QED BY <1>4, <1>5, <2>1, FromTwice
<1> HIDE DEF text, rest
<1>10. length = [ok |-> TRUE, n |-> b - 5, rest |-> rest]
  <2>1. ParseNumber(text) = [ok |-> TRUE, n |-> Value[text[1]], rest |-> From(text, 3)]
    <3>1. Len(text) >= 2
      BY <1>5, <1>7
    <3>2. text[1] \in DOMAIN Value /\ text[2] = ":"
      BY <1>6, <1>7, Zenon
    <3> QED BY <1>7, <3>1, <3>2, NumberRead
  <2> QED BY <1>1, <1>3, <1>6, <1>7, <1>9, <2>1, Zenon DEF text
<1>11. length.ok /\ length.n = b - 5 /\ length.rest = rest
  BY <1>10
<1>12. row = SubSeq(whole, 5, b - 1)
  <2>1. 3 + 2 = 5
    OBVIOUS
  <2> QED BY <1>1, <1>3, <1>5, <2>1, Zenon DEF Sent
<1>13. row \in Seq(Unit) /\ Len(row) = b - 5 /\ \A i \in 1 .. b - 5 : row[i] = whole[5 + i - 1]
  <2>1. PICK k \in Nat, e \in Nat : k = b - 5 /\ e = b - 1
    <3>1. b \in Nat /\ b >= 5
      BY <1>5, Zenon
    <3>2. b - 5 \in Nat /\ b - 1 \in Nat
      BY <3>1
    <3> QED BY <3>2, Zenon
  <2>2. Fits(whole, 5, e, k)
    <3>1. 5 \in Nat \ {0} /\ e <= Len(whole) /\ 5 + k = e + 1
      BY <1>5, <2>1
    <3> QED BY <1>4, <3>1 DEF Fits
  <2>3. Part(SubSeq(whole, 5, e), whole, 5, k)
    BY <2>2, SubIs
  <2> QED BY <1>12, <2>1, <2>3, Zenon DEF Part
<1>14. \A i \in 1 .. Len(row) : rest[i] = row[i]
  <2>1. \A i \in 1 .. b - 5 : i \in 1 .. b - 4
    BY <1>5
  <2> QED BY <1>8, <1>13, <2>1
<1>15. Begins(rest, row, Len(row))
  <2>1. Len(row) \in Nat /\ Len(row) <= Len(rest)
    BY <1>5, <1>8, <1>13
  <2> QED BY <1>8, <1>14, <2>1, Zenon DEF Begins
<1>16. Front(rest) = row
  <2>1. Len(row) <= Len(rest) /\ Len(rest) - 1 = Len(row)
    BY <1>5, <1>8, <1>13
  <2>2. SubSeq(rest, 1, Len(row)) = row
    BY <1>8, <1>13, <1>14, <2>1, StartIs
  <2> QED BY <2>1, <2>2, Zenon DEF Front
<1>17. Len(rest) = (b - 5) + 1 /\ rest # <<>>
  BY <1>5, <1>8
<1> QED BY <1>11, <1>15, <1>16, <1>17, Zenon

\* The commands are read as they were sent.
LEMMA CommandsRead ==
  ASSUME NEW c, Complete(c), CommandsSent(c)
  PROVE  ParserResult(c.parser, c.text) = Read(c.table)
<1>1. PICK row, cuts, items : row = Sent(c.whole, c.at, 1) /\ cuts = c.cuts[1] /\ items = c.sent[1]
  OBVIOUS
<1>2. /\ c.parser = "supportedcommands" /\ Len(c.at) - 1 = 1 /\ c.table = <<items>>
      /\ IsRow(row, cuts, items) /\ AllInQuotes(row, cuts)
  BY <1>1, Zenon DEF CommandsSent
<1>3. PICK count, length, counted, taken, n :
        /\ count = ParseNumber(c.text) /\ length = ParseNumber(count.rest)
        /\ counted = AllItems(Front(length.rest)) /\ taken = Items(length.rest, Len(counted.list))
        /\ n = Len(items)
  OBVIOUS
<1>4. Delivered(c, 1)
  BY <1>2, CompleteIs, Zenon
<1>5. count.ok /\ count.n = 1 /\ count.rest = From(c.whole, c.at[1])
  <2>1. count = [ok |-> TRUE, n |-> 1, rest |-> From(c.whole, c.at[1])]
    BY <1>3, <1>4, DeliveredRead, Zenon
  <2> QED BY <2>1
<1>6. Spare(c.parser) = 1
  BY <1>2, Zenon DEF Spare
<1>7. /\ length.ok /\ Len(length.rest) = length.n + 1 /\ length.rest # <<>>
      /\ Front(length.rest) = row /\ Begins(length.rest, row, Len(row))
  BY <1>1, <1>3, <1>4, <1>5, <1>6, SpareByte, Zenon
<1>8. ReadAs(counted, items, <<>>)
  BY <1>2, <1>3, <1>7, ItemsWhole, Zenon
<1>9. counted.ok /\ counted.list = items
  BY <1>8, Zenon DEF ReadAs
<1>10. taken = Items(length.rest, n)
  BY <1>3, <1>9, Zenon
<1>11. taken.ok /\ taken.list = items
  <2>1. PICK text, m : text = length.rest /\ m = Len(row)
    OBVIOUS
  <2>2. Begins(text, row, m) /\ taken = Items(text, n) /\ n = Len(items)
    BY <1>3, <1>7, <1>10, <2>1, Zenon
  <2>3. IsRow(row, cuts, items) /\ AllInQuotes(row, cuts)
    BY <1>2, Zenon
  <2>4. TakenAs(Items(text, n), items)
    BY <2>2, <2>3, ItemsBeyond, Zenon
  <2> QED BY <2>2, <2>4, Zenon DEF TakenAs
<1>12. SupportedCommands(c.text) = ReadIf(counted.ok /\ taken.ok, <<taken.list>>)
  BY <1>3, <1>5, <1>7, Zenon DEF SupportedCommands
<1>13. SupportedCommands(c.text) = Read(<<items>>)
  BY <1>9, <1>11, <1>12, Zenon DEF ReadIf
<1> QED BY <1>2, <1>13, ParserResultIs, Zenon

\* A packet, for the three parsers of packets.
PacketSent(c) ==
  \E packet \in DOMAIN Packet :
    /\ Len(c.at) - 1 = 1 /\ Sent(c.whole, c.at, 1) = <<packet>>
    /\ \/ c.parser = "debugger_event" /\ c.table = << << <<packet>> >> >>
       \/ /\ Packet[packet].status = "RDS_OK"
          /\ \/ c.parser = "debugger_stop" /\ c.table = <<>>
             \/ c.parser = "debugger_info" /\ c.table = << << <<Packet[packet].port>> >> >>

\* A packet is recognised by its parser.
LEMMA PacketIsRead ==
  ASSUME NEW c, Complete(c), PacketSent(c)
  PROVE  ParserResult(c.parser, c.text) = Read(c.table)
<1>1. PICK packet \in DOMAIN Packet :
        /\ Len(c.at) - 1 = 1 /\ Sent(c.whole, c.at, 1) = <<packet>>
        /\ \/ c.parser = "debugger_event" /\ c.table = << << <<packet>> >> >>
           \/ /\ Packet[packet].status = "RDS_OK"
              /\ \/ c.parser = "debugger_stop" /\ c.table = <<>>
                 \/ c.parser = "debugger_info" /\ c.table = << << <<Packet[packet].port>> >> >>
  BY Zenon DEF PacketSent
<1>2. PacketOf(c.text) = packet
  <2>1. c.parser # "file_content"
    BY <1>1
  <2> QED BY <1>1, <2>1, PacketRead, Zenon
<1>3. CASE c.parser = "debugger_event" /\ c.table = << << <<packet>> >> >>
  <2>1. DebuggerEvent(c.text) = Read(<< << <<packet>> >> >>)
    BY <1>2, Zenon DEF DebuggerEvent, ReadIf
  <2> QED BY <1>3, <2>1, ParserResultIs, Zenon
<1>4. CASE Packet[packet].status = "RDS_OK" /\ c.parser = "debugger_stop" /\ c.table = <<>>
  <2>1. DebuggerStop(c.text) = Read(<<>>)
    BY <1>2, <1>4, Zenon DEF DebuggerStop, ReadIf, Accepted
  <2> QED BY <1>4, <2>1, ParserResultIs, Zenon
<1>5. CASE /\ Packet[packet].status = "RDS_OK" /\ c.parser = "debugger_info"
           /\ c.table = << << <<Packet[packet].port>> >> >>
  <2>1. DebuggerInfo(c.text) = Read(<< << <<Packet[packet].port>> >> >>)
    BY <1>2, <1>5, Zenon DEF DebuggerInfo, ReadIf, Accepted
  <2> QED BY <1>5, <2>1, ParserResultIs, Zenon
<1> QED BY <1>1, <1>3, <1>4, <1>5, Zenon

\* Whatever the parser, a well-formed reply is read as its table.
LEMMA CleanRead ==
  ASSUME NEW c, Complete(c), Encodes(c)
  PROVE  ParserResult(c.parser, c.text) = Read(c.table)
<1> DEFINE file == /\ c.parser = "file_content" /\ Len(c.at) - 1 = 3
                   /\ c.table = << <<Sent(c.whole, c.at, 1), Sent(c.whole, c.at, 2),
                                     Sent(c.whole, c.at, 3)>> >>
           session == /\ c.parser = "debugger_start" /\ Len(c.at) - 1 = 2
                      /\ c.table = << <<Sent(c.whole, c.at, 1)>> >>
<1>1. \/ TableSent(c) \/ DirectorySent(c) \/ file \/ NamesSent(c) \/ CommandsSent(c)
      \/ session \/ PacketSent(c)
  BY Zenon DEF Encodes, TableSent, DirectorySent, NamesSent, CommandsSent, PacketSent
<1>2. CASE file
  BY <1>2, FileRead, Zenon
<1>3. CASE session
  BY <1>3, SessionRead, Zenon
<1> HIDE DEF file, session
<1> QED BY <1>1, <1>2, <1>3, TableIsRead, DirectoryRead, NamesAreRead, CommandsRead, PacketIsRead,
        Zenon

(* A well-formed reply, however it was split over the calls of recv(), is      *)
(* read by its parser as the table that it encodes, unless memory runs out.    *)
THEOREM CleanIsRead == Spec => []CleanReplyIsRead
<1>1. ASSUME ReplyInv PROVE CleanReplyIsRead
  <2> SUFFICES ASSUME case.how = "clean", result.status # "none", result.status # "no_memory"
               PROVE  result = Read(case.table)
    BY Zenon DEF CleanReplyIsRead
  <2>1. case \in Cases /\ result \in Results
    BY <1>1, Zenon DEF ReplyInv
  <2>2. Complete(case) /\ Encodes(case)
    BY <2>1, CasesAssumption, Zenon
  <2>3. NoResult.status = "none" /\ NoMemory.status = "no_memory"
    BY DEF NoResult, NoMemory
  <2>4. result = ParserResult(case.parser, case.text)
    BY <2>1, <2>3, Zenon DEF Results
  <2> QED BY <2>2, <2>4, CleanRead, Zenon
<1> QED BY <1>1, ReplyInvariance, PTL

(* A reply with quotes inside the items of one row, if it is taken, has as     *)
(* many rows as were sent, and all but that one are as they were sent.         *)
THEOREM DamageIsContained == Spec => []DamageStaysInItsRow
<1>1. ASSUME ReplyInv PROVE DamageStaysInItsRow
  <2> SUFFICES ASSUME case.how = "damaged", result.status = "read"
               PROVE  /\ Len(result.rows) = Len(case.table)
                      /\ \A i \in DOMAIN case.table :
                           i # case.row => result.rows[i] = case.table[i]
    BY Zenon DEF DamageStaysInItsRow
  <2>1. case \in Cases /\ result \in Results
    BY <1>1, Zenon DEF ReplyInv
  <2>2. Complete(case) /\ Damages(case)
    BY <2>1, CasesAssumption, Zenon
  <2>3. NoResult.status # "read" /\ NoMemory.status # "read"
    BY DEF NoResult, NoMemory
  <2>4. result = ParserResult(case.parser, case.text)
    BY <2>1, <2>3, Zenon DEF Results
  <2> QED BY <2>2, <2>4, OtherRowsKept, Zenon
<1> QED BY <1>1, ReplyInvariance, PTL
=============================================================================
