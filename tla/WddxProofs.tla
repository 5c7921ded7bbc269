----------------------------- MODULE WddxProofs -----------------------------
(***************************************************************************)
(* Theorems about Wddx, for every set of paths, values and documents, and  *)
(* every limit.                                                            *)
(***************************************************************************)
EXTENDS Wddx, FiniteSetTheorems, WellFoundedInduction, TLAPS

-----------------------------------------------------------------------------
(* Induction over the numbers                                              *)

Precedes == {ss \in Nat \X Nat : ss[1] < ss[2]}

\* A set of numbers has a least one.
LEMMA Least ==
  ASSUME NEW T \in SUBSET Nat, T # {}
  PROVE  \E x \in T : \A y \in T : x <= y
<1>0. IsWellFoundedOn(Precedes, Nat)
  BY NatLessThanWellFounded DEF OpToRel, Precedes
<1>1. PICK x \in T : \A y \in T : ~(<<y, x>> \in Precedes)
  BY <1>0, WFMin
<1>2. \A y \in T : <<y, x>> \in Precedes <=> y < x
  BY DEF Precedes
<1>3. \A y \in T : ~(y < x) /\ y \in Nat
  BY <1>1, <1>2
<1>4. \A y \in T : x <= y
  BY <1>3
<1> QED
  BY <1>4

\* Induction, over a set of numbers.
LEMMA NatSetInduction ==
  ASSUME NEW T, 0 \in T, \A n \in Nat : n \in T => n + 1 \in T
  PROVE  \A n \in Nat : n \in T
<1> SUFFICES ASSUME NEW m \in Nat, m \notin T PROVE FALSE
  OBVIOUS
<1> DEFINE U == {n \in Nat : n \notin T}
<1>1. PICK x \in U : \A y \in U : x <= y
  BY Least
<1>2. x # 0 /\ x - 1 \in Nat /\ x - 1 # x /\ ~(x <= x - 1)
  OBVIOUS
<1>3. x - 1 \in T
  BY <1>1, <1>2
<1> QED
  BY <1>1, <1>2, <1>3

-----------------------------------------------------------------------------
(* Recursion over the numbers                                              *)

\* One step of each recursion of the model.
Step(what, x, y, before, i) ==
  CASE what = "reached"  -> Child(before, x[i])
    [] what = "put"      -> PutInto(x[Len(y) - i], y[Len(y) - i + 1], before)
    [] what = "trees"    -> x \cup Arrays(before) \cup Structs(before)
    [] what = "elements" -> [tag : STRING, val : STRING, len : Int, kids : Seq(before)]
    [] what = "xml"      -> [t \in Trees(i - 1) |-> NodeToXml(t, before)]
    [] what = "node"     -> [e \in ElementsTo(i) |-> NodeFromXml(e, before)]
    [] what = "found"    -> Below(before, x[i])
    [] what = "compact"  -> {e \in ElementsTo(i) : IsCompact(e, before)}
    [] what = "chosen"   -> IF i \in y THEN Append(before, x[i]) ELSE before

Recursive(f, what, x, y, start) ==
  f = [i \in Nat |-> IF i = 0 THEN start ELSE Step(what, x, y, f[i - 1], i)]

\* The first n values of a recursion.
Steps(what, x, y, start, n, f) ==
  /\ DOMAIN f = 0 .. n /\ f[0] = start
  /\ \A i \in 1 .. n : f[i] = Step(what, x, y, f[i - 1], i)

\* There are such values for every n.
LEMMA StepsExist ==
  ASSUME NEW what, NEW x, NEW y, NEW start
  PROVE  \A n \in Nat : \E f : Steps(what, x, y, start, n, f)
<1> DEFINE T == {n \in Nat : \E f : Steps(what, x, y, start, n, f)}
<1>1. 0 \in T
  <2> DEFINE f == [i \in 0 .. 0 |-> start]
  <2>1. Steps(what, x, y, start, 0, f)
    BY DEF Steps
  <2> QED BY <2>1
<1>2. ASSUME NEW n \in Nat, n \in T PROVE n + 1 \in T
  <2>1. PICK f : Steps(what, x, y, start, n, f)
    BY <1>2
  <2> DEFINE g == [i \in 0 .. n + 1 |-> IF i <= n THEN f[i] ELSE Step(what, x, y, f[n], n + 1)]
  <2>2. DOMAIN g = 0 .. n + 1 /\ g[0] = start
    BY <2>1 DEF Steps
  <2>3. ASSUME NEW i \in 1 .. n + 1 PROVE g[i] = Step(what, x, y, g[i - 1], i)
    <3>1. CASE i <= n
      <4>1. i \in 1 .. n /\ i - 1 \in 0 .. n /\ i \in 0 .. n + 1 /\ i - 1 \in 0 .. n + 1
        BY <3>1
      <4>2. g[i] = f[i] /\ g[i - 1] = f[i - 1]
        BY <3>1, <4>1
      <4> QED BY <2>1, <4>1, <4>2 DEF Steps
    <3>2. CASE i = n + 1
      <4>1. g[n + 1] = Step(what, x, y, f[n], n + 1) /\ g[n] = f[n] /\ i - 1 = n
        BY <3>2
      <4> QED BY <3>2, <4>1
    <3> QED BY <3>1, <3>2
  <2>4. Steps(what, x, y, start, n + 1, g)
    <3> HIDE DEF g
    <3> QED BY <2>2, <2>3 DEF Steps
  <2> QED BY <2>4
<1> HIDE DEF T
<1>3. \A n \in Nat : n \in T
  BY <1>1, <1>2, NatSetInduction
<1> QED BY <1>3 DEF T

\* They are the same, however far they go.
LEMMA StepsAgree ==
  ASSUME NEW what, NEW x, NEW y, NEW start, NEW n \in Nat, NEW m \in Nat, NEW f, NEW g,
         Steps(what, x, y, start, n, f), Steps(what, x, y, start, m, g)
  PROVE  \A i \in Nat : i <= n /\ i <= m => f[i] = g[i]
<1> DEFINE T == {i \in Nat : i <= n /\ i <= m => f[i] = g[i]}
<1>1. 0 \in T
  BY DEF Steps
<1>2. ASSUME NEW i \in Nat, i \in T PROVE i + 1 \in T
  <2> SUFFICES ASSUME i + 1 <= n, i + 1 <= m PROVE f[i + 1] = g[i + 1]
    OBVIOUS
  <2>1. i + 1 \in 1 .. n /\ i + 1 \in 1 .. m /\ (i + 1) - 1 = i /\ f[i] = g[i]
    BY <1>2
  <2> QED BY <2>1 DEF Steps
<1> HIDE DEF T
<1>3. \A i \in Nat : i \in T
  BY <1>1, <1>2, NatSetInduction
<1> QED BY <1>3 DEF T

\* So there is a function of which they are the values.
LEMMA RecursionExists ==
  ASSUME NEW what, NEW x, NEW y, NEW start
  PROVE  \E f : Recursive(f, what, x, y, start)
<1> DEFINE part(n) == CHOOSE f : Steps(what, x, y, start, n, f)
           whole == [n \in Nat |-> part(n)[n]]
<1>1. \A n \in Nat : Steps(what, x, y, start, n, part(n))
  BY StepsExist
<1> HIDE DEF part
<1>2. ASSUME NEW n \in Nat
      PROVE  whole[n] = IF n = 0 THEN start ELSE Step(what, x, y, whole[n - 1], n)
  <2>1. CASE n = 0
    BY <1>1, <2>1 DEF Steps
  <2>2. CASE n # 0
    <3>1. n - 1 \in Nat /\ n \in 1 .. n
      BY <2>2
    <3>2. part(n)[n] = Step(what, x, y, part(n)[n - 1], n)
      BY <1>1, <3>1 DEF Steps
    <3>3. part(n)[n - 1] = part(n - 1)[n - 1]
      <4>1. Steps(what, x, y, start, n, part(n)) /\ Steps(what, x, y, start, n - 1, part(n - 1))
        BY <1>1, <3>1
      <4>2. n - 1 <= n /\ n - 1 <= n - 1
        BY <3>1
      <4> QED BY <3>1, <4>1, <4>2, StepsAgree
    <3>4. whole[n] = part(n)[n] /\ whole[n - 1] = part(n - 1)[n - 1]
      BY <3>1
    <3> QED BY <2>2, <3>2, <3>3, <3>4
  <2> QED BY <2>1, <2>2
<1>3. Recursive(whole, what, x, y, start)
  <2>1. whole = [i \in Nat |-> whole[i]]
    OBVIOUS
  <2> HIDE DEF whole
  <2> QED BY <1>2, <2>1 DEF Recursive
<1> QED BY <1>3

\* The recursion, by its values.
LEMMA RecursionIs ==
  ASSUME NEW what, NEW x, NEW y, NEW start, NEW f, Recursive(f, what, x, y, start)
  PROVE  /\ f[0] = start
         /\ \A n \in Nat : f[n + 1] = Step(what, x, y, f[n], n + 1)
<1>1. f[0] = start
  BY DEF Recursive
<1>2. ASSUME NEW n \in Nat PROVE f[n + 1] = Step(what, x, y, f[n], n + 1)
  <2>1. n + 1 \in Nat /\ n + 1 # 0 /\ (n + 1) - 1 = n
    OBVIOUS
  <2> QED BY <2>1 DEF Recursive
<1> QED BY <1>1, <1>2

\* What a path reaches.
LEMMA ReachedIs ==
  ASSUME NEW node, NEW path
  PROVE  /\ Reached(node, path)[0] = node
         /\ \A n \in Nat : Reached(node, path)[n + 1] = Child(Reached(node, path)[n], path[n + 1])
<1> DEFINE f == Reached(node, path)
<1>1. Recursive(f, "reached", path, 0, node)
  <2>1. \A g : Recursive(g, "reached", path, 0, node)
               <=> g = [i \in Nat |-> IF i = 0 THEN node ELSE Child(g[i - 1], path[i])]
    BY DEF Recursive, Step
  <2>2. \E g : Recursive(g, "reached", path, 0, node)
    BY RecursionExists
  <2> QED BY <2>1, <2>2, Zenon DEF Reached
<1> HIDE DEF f
<1>2. f[0] = node /\ \A n \in Nat : f[n + 1] = Step("reached", path, 0, f[n], n + 1)
  BY <1>1, RecursionIs
<1> QED BY <1>2 DEF f, Step

\* The outcomes of the puts on the way back up.
Puts(put, at, n, node, path, leaf) ==
  /\ put[0] = PutLeaf(at[n], leaf)
  /\ \A k \in Nat : put[k + 1] = PutInto(at[n - (k + 1)], path[n - (k + 1) + 1], put[k])
  /\ Put(node, path, leaf) = put[n]

\* A put is the last of its outcomes on the way back up.
LEMMA PutIs ==
  ASSUME NEW node, NEW path, NEW leaf
  PROVE  \E put : Puts(put, Reached(node, path), Len(path), node, path, leaf)
<1> DEFINE at == Reached(node, path)
           n == Len(path)
           f == CHOOSE g : g = [k \in Nat |->
                  IF k = 0 THEN PutLeaf(at[n], leaf)
                  ELSE PutInto(at[n - k], path[n - k + 1], g[k - 1])]
<1>1. Put(node, path, leaf) = f[n]
  BY Zenon DEF Put
<1> HIDE DEF at, n
<1>2. Recursive(f, "put", at, path, PutLeaf(at[n], leaf))
  <2>1. \A g : Recursive(g, "put", at, path, PutLeaf(at[n], leaf))
               <=> g = [k \in Nat |->
                          IF k = 0 THEN PutLeaf(at[n], leaf)
                          ELSE PutInto(at[n - k], path[n - k + 1], g[k - 1])]
    BY DEF Recursive, Step, n
  <2>2. \E g : Recursive(g, "put", at, path, PutLeaf(at[n], leaf))
    BY RecursionExists
  <2> QED BY <2>1, <2>2, Zenon
<1> HIDE DEF f
<1>3. f[0] = PutLeaf(at[n], leaf)
      /\ \A k \in Nat : f[k + 1] = Step("put", at, path, f[k], k + 1)
  BY <1>2, RecursionIs
<1>4. \A k \in Nat : f[k + 1] = PutInto(at[n - (k + 1)], path[n - (k + 1) + 1], f[k])
  BY <1>3 DEF Step, n
<1>5. Puts(f, at, n, node, path, leaf)
  BY <1>1, <1>3, <1>4, Zenon DEF Puts, at, n
<1> QED BY <1>5, Zenon DEF at, n

\* The trees of a depth.
LEMMA TreesIs ==
  ASSUME NEW bottom
  PROVE  /\ TreesOf(bottom, 0) = bottom
         /\ \A n \in Nat : TreesOf(bottom, n + 1) = bottom \cup Arrays(TreesOf(bottom, n))
                                                     \cup Structs(TreesOf(bottom, n))
<1> DEFINE f == CHOOSE g : g = [i \in Nat |->
                  IF i = 0 THEN bottom
                  ELSE bottom \cup Arrays(g[i - 1]) \cup Structs(g[i - 1])]
<1>1. Recursive(f, "trees", bottom, 0, bottom)
  <2>1. \A g : Recursive(g, "trees", bottom, 0, bottom)
               <=> g = [i \in Nat |->
                          IF i = 0 THEN bottom
                          ELSE bottom \cup Arrays(g[i - 1]) \cup Structs(g[i - 1])]
    BY DEF Recursive, Step
  <2>2. \E g : Recursive(g, "trees", bottom, 0, bottom)
    BY RecursionExists
  <2> QED BY <2>1, <2>2, Zenon
<1>2. \A d : TreesOf(bottom, d) = f[d]
  BY Zenon DEF TreesOf
<1> HIDE DEF f
<1>3. f[0] = bottom /\ \A n \in Nat : f[n + 1] = Step("trees", bottom, 0, f[n], n + 1)
  BY <1>1, RecursionIs
<1>4. \A n \in Nat : f[n + 1] = bottom \cup Arrays(f[n]) \cup Structs(f[n])
  BY <1>3 DEF Step
<1> QED BY <1>2, <1>3, <1>4, Zenon

\* The elements of a depth.
LEMMA ElementsToIs ==
  /\ ElementsTo(0) = {}
  /\ \A n \in Nat : ElementsTo(n + 1)
                      = [tag : STRING, val : STRING, len : Int, kids : Seq(ElementsTo(n))]
<1> DEFINE f == CHOOSE g : g = [i \in Nat |->
                  IF i = 0 THEN {}
                  ELSE [tag : STRING, val : STRING, len : Int, kids : Seq(g[i - 1])]]
<1>1. Recursive(f, "elements", 0, 0, {})
  <2>1. \A g : Recursive(g, "elements", 0, 0, {})
               <=> g = [i \in Nat |->
                          IF i = 0 THEN {}
                          ELSE [tag : STRING, val : STRING, len : Int, kids : Seq(g[i - 1])]]
    BY DEF Recursive, Step
  <2>2. \E g : Recursive(g, "elements", 0, 0, {})
    BY RecursionExists
  <2> QED BY <2>1, <2>2, Zenon
<1>2. \A d : ElementsTo(d) = f[d]
  BY Zenon DEF ElementsTo
<1> HIDE DEF f
<1>3. f[0] = {} /\ \A n \in Nat : f[n + 1] = Step("elements", 0, 0, f[n], n + 1)
  BY <1>1, RecursionIs
<1>4. \A n \in Nat : f[n + 1] = [tag : STRING, val : STRING, len : Int, kids : Seq(f[n])]
  BY <1>3 DEF Step
<1> QED BY <1>2, <1>3, <1>4, Zenon

\* The elements that trees are written as.
LEMMA ToXmlIs ==
  \E xml : /\ \A n \in Nat : xml[n + 1] = [x \in Trees(n) |-> NodeToXml(x, xml[n])]
           /\ \A tree : ToXml(tree) = xml[MaxDepth + 1][tree]
<1> DEFINE f == CHOOSE g : g = [i \in Nat |->
                  IF i = 0 THEN <<>> ELSE [x \in Trees(i - 1) |-> NodeToXml(x, g[i - 1])]]
<1>1. Recursive(f, "xml", 0, 0, <<>>)
  <2>1. \A g : Recursive(g, "xml", 0, 0, <<>>)
               <=> g = [i \in Nat |->
                          IF i = 0 THEN <<>>
                          ELSE [x \in Trees(i - 1) |-> NodeToXml(x, g[i - 1])]]
    BY DEF Recursive, Step
  <2>2. \E g : Recursive(g, "xml", 0, 0, <<>>)
    BY RecursionExists
  <2> QED BY <2>1, <2>2, Zenon
<1>2. \A tree : ToXml(tree) = f[MaxDepth + 1][tree]
  BY Zenon DEF ToXml
<1> HIDE DEF f
<1>3. \A n \in Nat : f[n + 1] = Step("xml", 0, 0, f[n], n + 1)
  BY <1>1, RecursionIs
<1>4. \A n \in Nat : f[n + 1] = [x \in Trees(n) |-> NodeToXml(x, f[n])]
  <2>1. \A n \in Nat : (n + 1) - 1 = n
    OBVIOUS
  <2> QED BY <1>3, <2>1 DEF Step
<1> QED BY <1>2, <1>4, Zenon

\* The trees that elements are read as.
LEMMA FromXmlIs ==
  \E node : /\ \A n \in Nat : node[n + 1] = [e \in ElementsTo(n + 1) |-> NodeFromXml(e, node[n])]
            /\ \A element : FromXml(element) = node[XmlDepth][element]
<1> DEFINE f == CHOOSE g : g = [i \in Nat |->
                  IF i = 0 THEN <<>> ELSE [e \in ElementsTo(i) |-> NodeFromXml(e, g[i - 1])]]
<1>1. Recursive(f, "node", 0, 0, <<>>)
  <2>1. \A g : Recursive(g, "node", 0, 0, <<>>)
               <=> g = [i \in Nat |->
                          IF i = 0 THEN <<>>
                          ELSE [e \in ElementsTo(i) |-> NodeFromXml(e, g[i - 1])]]
    BY DEF Recursive, Step
  <2>2. \E g : Recursive(g, "node", 0, 0, <<>>)
    BY RecursionExists
  <2> QED BY <2>1, <2>2, Zenon
<1>2. \A element : FromXml(element) = f[XmlDepth][element]
  BY Zenon DEF FromXml
<1> HIDE DEF f
<1>3. \A n \in Nat : f[n + 1] = Step("node", 0, 0, f[n], n + 1)
  BY <1>1, RecursionIs
<1>4. \A n \in Nat : f[n + 1] = [e \in ElementsTo(n + 1) |-> NodeFromXml(e, f[n])]
  BY <1>3 DEF Step
<1> QED BY <1>2, <1>4, Zenon

\* What a path names in the XML.
Finds(found, kids, path) ==
  /\ found[0] = kids
  /\ \A n \in Nat : found[n + 1] = Below(found[n], path[n + 1])
  /\ XmlAt(kids, path) = found[Len(path)]

\* What a path names in the XML is found segment after segment.
LEMMA FoundIs ==
  ASSUME NEW kids, NEW path
  PROVE  \E found : Finds(found, kids, path)
<1> DEFINE f == CHOOSE g : g = [i \in Nat |->
                  IF i = 0 THEN kids ELSE Below(g[i - 1], path[i])]
<1>1. Recursive(f, "found", path, 0, kids)
  <2>1. \A g : Recursive(g, "found", path, 0, kids)
               <=> g = [i \in Nat |-> IF i = 0 THEN kids ELSE Below(g[i - 1], path[i])]
    BY DEF Recursive, Step
  <2>2. \E g : Recursive(g, "found", path, 0, kids)
    BY RecursionExists
  <2> QED BY <2>1, <2>2, Zenon
<1>2. XmlAt(kids, path) = f[Len(path)]
  BY Zenon DEF XmlAt
<1> HIDE DEF f
<1>3. f[0] = kids /\ \A n \in Nat : f[n + 1] = Step("found", path, 0, f[n], n + 1)
  BY <1>1, RecursionIs
<1>4. \A n \in Nat : f[n + 1] = Below(f[n], path[n + 1])
  BY <1>3 DEF Step
<1> QED BY <1>2, <1>3, <1>4, Zenon DEF Finds

\* The compact elements of a depth.
LEMMA CompactIs ==
  /\ Compact(0) = {}
  /\ \A n \in Nat : Compact(n + 1) = {e \in ElementsTo(n + 1) : IsCompact(e, Compact(n))}
<1> DEFINE f == CHOOSE g : g = [i \in Nat |->
                  IF i = 0 THEN {} ELSE {e \in ElementsTo(i) : IsCompact(e, g[i - 1])}]
<1>1. Recursive(f, "compact", 0, 0, {})
  <2>1. \A g : Recursive(g, "compact", 0, 0, {})
               <=> g = [i \in Nat |->
                          IF i = 0 THEN {} ELSE {e \in ElementsTo(i) : IsCompact(e, g[i - 1])}]
    BY DEF Recursive, Step
  <2>2. \E g : Recursive(g, "compact", 0, 0, {})
    BY RecursionExists
  <2> QED BY <2>1, <2>2, Zenon
<1>2. \A d : Compact(d) = f[d]
  BY Zenon DEF Compact
<1> HIDE DEF f
<1>3. f[0] = {} /\ \A n \in Nat : f[n + 1] = Step("compact", 0, 0, f[n], n + 1)
  BY <1>1, RecursionIs
<1>4. \A n \in Nat : f[n + 1] = {e \in ElementsTo(n + 1) : IsCompact(e, f[n])}
  BY <1>3 DEF Step
<1> QED BY <1>2, <1>3, <1>4, Zenon

\* What is chosen of a sequence.
LEMMA ChosenIs ==
  ASSUME NEW s, NEW places
  PROVE  \E chosen :
           /\ chosen[0] = <<>>
           /\ \A n \in Nat : chosen[n + 1] = IF n + 1 \in places THEN Append(chosen[n], s[n + 1])
                                             ELSE chosen[n]
           /\ Chosen(s, places) = chosen[Len(s)]
<1> DEFINE f == CHOOSE g : g = [i \in Nat |->
                  IF i = 0 THEN <<>>
                  ELSE IF i \in places THEN Append(g[i - 1], s[i])
                  ELSE g[i - 1]]
<1>1. Recursive(f, "chosen", s, places, <<>>)
  <2>1. \A g : Recursive(g, "chosen", s, places, <<>>)
               <=> g = [i \in Nat |->
                          IF i = 0 THEN <<>>
                          ELSE IF i \in places THEN Append(g[i - 1], s[i])
                          ELSE g[i - 1]]
    BY DEF Recursive, Step
  <2>2. \E g : Recursive(g, "chosen", s, places, <<>>)
    BY RecursionExists
  <2> QED BY <2>1, <2>2, Zenon
<1>2. Chosen(s, places) = f[Len(s)]
  BY Zenon DEF Chosen
<1> HIDE DEF f
<1>3. f[0] = <<>> /\ \A n \in Nat : f[n + 1] = Step("chosen", s, places, f[n], n + 1)
  BY <1>1, RecursionIs
<1>4. \A n \in Nat : f[n + 1] = IF n + 1 \in places THEN Append(f[n], s[n + 1]) ELSE f[n]
  BY <1>3 DEF Step
<1> QED BY <1>2, <1>3, <1>4, Zenon

\* They are elements of the sequence, no more than it has, and all of them if
\* all places are chosen.
LEMMA ChosenOf ==
  ASSUME NEW T, NEW s \in Seq(T), NEW places
  PROVE  /\ Chosen(s, places) \in Seq({s[i] : i \in {j \in places : j \in 1 .. Len(s)}})
         /\ 1 .. Len(s) \subseteq places => Chosen(s, places) = s
<1> DEFINE U == {s[i] : i \in {j \in places : j \in 1 .. Len(s)}}
<1>1. PICK chosen :
        /\ chosen[0] = <<>>
        /\ \A n \in Nat : chosen[n + 1] = IF n + 1 \in places THEN Append(chosen[n], s[n + 1])
                                          ELSE chosen[n]
        /\ Chosen(s, places) = chosen[Len(s)]
  BY ChosenIs, Zenon
<1> DEFINE P == {n \in Nat : n <= Len(s) => chosen[n] \in Seq(U)}
           Q == {n \in Nat : n <= Len(s) =>
                   /\ chosen[n] \in Seq(T) /\ Len(chosen[n]) = n
                   /\ \A i \in 1 .. n : chosen[n][i] = s[i]}
<1>2. \A n \in Nat : n + 1 <= Len(s) => n + 1 \in 1 .. Len(s) /\ n <= Len(s)
  OBVIOUS
<1>3. \A i \in 1 .. Len(s) : i \in places => s[i] \in U
  BY Zenon
<1> HIDE DEF U
<1>4. 0 \in P
  <2>1. <<>> \in Seq(U)
    OBVIOUS
  <2> QED BY <1>1, <2>1
<1>5. ASSUME NEW n \in Nat, n \in P PROVE n + 1 \in P
  <2> SUFFICES ASSUME n + 1 <= Len(s) PROVE chosen[n + 1] \in Seq(U)
    OBVIOUS
  <2>1. n + 1 \in 1 .. Len(s) /\ n <= Len(s)
    BY <1>2
  <2>2. PICK c, x : c = chosen[n] /\ x = s[n + 1]
    OBVIOUS
  <2>3. c \in Seq(U)
    BY <1>5, <2>1, <2>2
  <2>4. chosen[n + 1] = IF n + 1 \in places THEN Append(c, x) ELSE c
    BY <1>1, <2>2
  <2>5. CASE n + 1 \in places
    <3>1. x \in U
      BY <1>3, <2>1, <2>2, <2>5
    <3>2. Append(c, x) \in Seq(U)
      BY <2>3, <3>1
    <3> QED BY <2>4, <2>5, <3>2
  <2>6. CASE n + 1 \notin places
    BY <2>3, <2>4, <2>6
  <2> QED BY <2>5, <2>6
<1> HIDE DEF P
<1>6. \A n \in Nat : n \in P
  BY <1>4, <1>5, NatSetInduction
<1>7. Chosen(s, places) \in Seq(U)
  <2>1. Len(s) \in Nat /\ Len(s) <= Len(s)
    OBVIOUS
  <2> QED BY <1>1, <1>6, <2>1, Zenon DEF P
<1>8. ASSUME 1 .. Len(s) \subseteq places PROVE Chosen(s, places) = s
  <2>1. 0 \in Q
    <3>1. <<>> \in Seq(T) /\ Len(<<>>) = 0 /\ 1 .. 0 = {}
      OBVIOUS
    <3> QED BY <1>1, <3>1
  <2>2. ASSUME NEW n \in Nat, n \in Q PROVE n + 1 \in Q
    <3> SUFFICES ASSUME n + 1 <= Len(s)
                 PROVE  /\ chosen[n + 1] \in Seq(T) /\ Len(chosen[n + 1]) = n + 1
                        /\ \A i \in 1 .. n + 1 : chosen[n + 1][i] = s[i]
      OBVIOUS
    <3>1. n + 1 \in 1 .. Len(s) /\ n <= Len(s)
      BY <1>2
    <3>2. PICK c, x : c = chosen[n] /\ x = s[n + 1]
      OBVIOUS
    <3>3. c \in Seq(T) /\ Len(c) = n /\ \A i \in 1 .. n : c[i] = s[i]
      BY <2>2, <3>1, <3>2
    <3>4. n + 1 \in places
      BY <1>8, <3>1
    <3>5. chosen[n + 1] = Append(c, x)
      BY <1>1, <3>2, <3>4
    <3>6. x \in T
      BY <3>1, <3>2
    <3>7. /\ Append(c, x) \in Seq(T) /\ Len(Append(c, x)) = n + 1
          /\ \A i \in 1 .. n + 1 : Append(c, x)[i] = IF i = n + 1 THEN x ELSE c[i]
      BY <3>3, <3>6
    <3>8. \A i \in 1 .. n + 1 : i = n + 1 \/ i \in 1 .. n
      OBVIOUS
    <3>9. \A i \in 1 .. n + 1 : Append(c, x)[i] = s[i]
      BY <3>2, <3>3, <3>7, <3>8
    <3> QED BY <3>5, <3>7, <3>9
  <2> HIDE DEF Q
  <2>3. \A n \in Nat : n \in Q
    BY <2>1, <2>2, NatSetInduction
  <2>4. Len(s) \in Nat /\ Len(s) <= Len(s)
    OBVIOUS
  <2>5. PICK c : c = Chosen(s, places)
    OBVIOUS
  <2>6. c \in Seq(T) /\ Len(c) = Len(s) /\ \A i \in 1 .. Len(s) : c[i] = s[i]
    BY <1>1, <2>3, <2>4, <2>5, Zenon DEF Q
  <2>7. c = s
    BY <2>6
  <2> QED BY <2>5, <2>7
<1> QED BY <1>7, <1>8 DEF U

-----------------------------------------------------------------------------
(* Paths                                                                   *)

\* What a path reaches is what the rest of it reaches from the first child.
LEMMA GetFrom ==
  ASSUME NEW node, NEW path \in Seq(Segments), path # <<>>
  PROVE  Get(node, path) = Get(Child(node, path[1]), Tail(path))
<1> DEFINE at == Reached(node, path)
           below == Reached(Child(node, path[1]), Tail(path))
           T == {i \in Nat : i < Len(path) => at[i + 1] = below[i]}
<1>1. at[0] = node /\ \A n \in Nat : at[n + 1] = Child(at[n], path[n + 1])
  BY ReachedIs
<1>2. below[0] = Child(node, path[1])
      /\ \A n \in Nat : below[n + 1] = Child(below[n], Tail(path)[n + 1])
  <2>1. \A x, y : /\ Reached(x, y)[0] = x
                   /\ \A n \in Nat : Reached(x, y)[n + 1] = Child(Reached(x, y)[n], y[n + 1])
    BY ReachedIs, Zenon
  <2> QED BY <2>1, Zenon
<1>3. Len(path) \in Nat \ {0} /\ Len(Tail(path)) = Len(path) - 1
  OBVIOUS
<1>4. \A n \in Nat : n + 1 < Len(path) => Tail(path)[n + 1] = path[(n + 1) + 1]
  OBVIOUS
<1>5. Get(node, path) = at[Len(path)]
      /\ Get(Child(node, path[1]), Tail(path)) = below[Len(path) - 1]
  BY <1>3 DEF Get
<1> HIDE DEF at, below
<1>6. 0 \in T
  <2>1. 0 \in Nat /\ 0 + 1 = 1
    OBVIOUS
  <2>2. at[1] = Child(at[0], path[1])
    BY <1>1, <2>1
  <2> QED BY <1>1, <1>2, <2>1, <2>2
<1>7. ASSUME NEW n \in Nat, n \in T PROVE n + 1 \in T
  <2> SUFFICES ASSUME n + 1 < Len(path) PROVE at[(n + 1) + 1] = below[n + 1]
    OBVIOUS
  <2>1. at[n + 1] = below[n]
    BY <1>3, <1>7
  <2>2. at[(n + 1) + 1] = Child(at[n + 1], path[(n + 1) + 1])
    BY <1>1
  <2> QED BY <1>2, <1>4, <2>1, <2>2
<1> HIDE DEF T
<1>8. \A n \in Nat : n \in T
  BY <1>6, <1>7, NatSetInduction
<1>9. Len(path) - 1 \in Nat /\ Len(path) - 1 < Len(path) /\ (Len(path) - 1) + 1 = Len(path)
  BY <1>3
<1> QED BY <1>5, <1>8, <1>9 DEF T

\* The empty path reaches the node.
LEMMA GetHere ==
  ASSUME NEW node
  PROVE  Get(node, <<>>) = node
BY ReachedIs DEF Get

\* What is left of a sequence behind its first.
Rest(rest, s) ==
  /\ rest \in Seq(Segments) /\ Len(s) = Len(rest) + 1
  /\ \A i \in 1 .. Len(rest) : rest[i] = s[i + 1]

\* The tail of a path is the rest of it.
LEMMA TailIsRest ==
  ASSUME NEW s \in Seq(Segments), s # <<>>
  PROVE  Rest(Tail(s), s) /\ s[1] \in Segments
BY DEF Rest

\* A prefix, by its segments.
LEMMA PrefixIs ==
  ASSUME NEW s \in Seq(Segments), NEW t \in Seq(Segments)
  PROVE  IsPrefix(s, t) <=> Len(s) <= Len(t) /\ \A i \in 1 .. Len(s) : s[i] = t[i]
<1>1. CASE ~(Len(s) <= Len(t))
  BY <1>1 DEF IsPrefix
<1>2. CASE Len(s) <= Len(t)
  <2> DEFINE a == SubSeq(s, 1, Len(s))
             b == SubSeq(t, 1, Len(s))
  <2>1. /\ a \in Seq(Segments) /\ b \in Seq(Segments) /\ Len(a) = Len(s) /\ Len(b) = Len(s)
        /\ \A i \in 1 .. Len(s) : a[i] = s[i] /\ b[i] = t[i]
    BY <1>2
  <2>2. IsPrefix(s, t) <=> a = b
    BY <1>2 DEF IsPrefix
  <2> HIDE DEF a, b
  <2>3. a = b <=> \A i \in 1 .. Len(s) : s[i] = t[i]
    BY <2>1
  <2> QED BY <1>2, <2>2, <2>3
<1>3. Len(s) \in Nat /\ Len(t) \in Nat
  OBVIOUS
<1> QED BY <1>1, <1>2, <1>3

\* Two paths are the same when they have the same segments.
LEMMA SameSegments ==
  \A s, t \in Seq(Segments) :
    s = t <=> Len(s) = Len(t) /\ \A i \in 1 .. Len(s) : s[i] = t[i]
  OBVIOUS

\* Two paths agree as far as both go.
SoFarSame(s, t) == \A i \in 1 .. Len(s) : i <= Len(t) => s[i] = t[i]

\* A segment more, on both sides.
LEMMA SegmentMore ==
  ASSUME NEW p \in Seq(Segments), NEW q \in Seq(Segments),
         NEW a, NEW b, Rest(a, p), Rest(b, q)
  PROVE  SoFarSame(p, q) <=> p[1] = q[1] /\ SoFarSame(a, b)
<1> USE DEF Rest, SoFarSame
<1>1. Len(a) \in Nat /\ Len(b) \in Nat
  OBVIOUS
<1>2. ASSUME \A i \in 1 .. Len(p) : i <= Len(q) => p[i] = q[i]
      PROVE  p[1] = q[1] /\ \A i \in 1 .. Len(a) : i <= Len(b) => a[i] = b[i]
  <2>1. 1 \in 1 .. Len(p) /\ 1 <= Len(q)
    BY <1>1
  <2>2. ASSUME NEW i \in 1 .. Len(a), i <= Len(b) PROVE a[i] = b[i]
    <3> DEFINE j == i + 1
    <3>1. j \in 1 .. Len(p) /\ j <= Len(q) /\ i \in 1 .. Len(b)
      BY <1>1, <2>2
    <3>2. a[i] = p[j] /\ b[i] = q[j]
      BY <3>1
    <3> HIDE DEF j
    <3> QED BY <1>2, <3>1, <3>2
  <2> QED BY <1>2, <2>1, <2>2
<1>3. ASSUME p[1] = q[1], \A i \in 1 .. Len(a) : i <= Len(b) => a[i] = b[i],
             NEW i \in 1 .. Len(p), i <= Len(q)
      PROVE  p[i] = q[i]
  <2>1. CASE i = 1
    BY <1>3, <2>1
  <2>2. CASE i # 1
    <3> DEFINE j == i - 1
    <3>1. j \in 1 .. Len(a) /\ j <= Len(b) /\ j + 1 = i /\ j \in 1 .. Len(b)
      BY <1>1, <1>3, <2>2
    <3> HIDE DEF j
    <3> QED BY <1>3, <3>1
  <2> QED BY <2>1, <2>2
<1> QED BY <1>2, <1>3

\* Prefixes, segment by segment.
LEMMA PrefixFrom ==
  ASSUME NEW p \in Seq(Segments), p # <<>>, NEW q \in Seq(Segments)
  PROVE  /\ IsPrefix(p, q) <=> q # <<>> /\ q[1] = p[1] /\ IsPrefix(Tail(p), Tail(q))
         /\ q = p <=> q # <<>> /\ q[1] = p[1] /\ Tail(q) = Tail(p)
<1>1. Len(p) \in Nat \ {0}
  OBVIOUS
<1>2. CASE q = <<>>
  <2>1. Len(q) = 0
    BY <1>2
  <2>2. ~(Len(p) <= Len(q))
    BY <1>1, <2>1
  <2>3. ~IsPrefix(p, q)
    BY <2>2, PrefixIs
  <2> QED BY <1>2, <2>3
<1>3. CASE q # <<>>
  <2> DEFINE a == Tail(p)
             b == Tail(q)
  <2>1. Rest(a, p) /\ Rest(b, q)
    BY <1>3, TailIsRest
  <2> HIDE DEF a, b
  <2>2. /\ a \in Seq(Segments) /\ b \in Seq(Segments) /\ Len(p) = Len(a) + 1
        /\ Len(q) = Len(b) + 1 /\ Len(a) \in Nat /\ Len(b) \in Nat
    BY <2>1 DEF Rest
  <2>3. IsPrefix(p, q) <=> Len(p) <= Len(q) /\ \A i \in 1 .. Len(p) : p[i] = q[i]
    BY PrefixIs
  <2>4. IsPrefix(a, b) <=> Len(a) <= Len(b) /\ \A i \in 1 .. Len(a) : a[i] = b[i]
    BY <2>2, PrefixIs
  <2>5. p = q <=> Len(p) = Len(q) /\ \A i \in 1 .. Len(p) : p[i] = q[i]
    BY SameSegments
  <2>6. a = b <=> Len(a) = Len(b) /\ \A i \in 1 .. Len(a) : a[i] = b[i]
    BY <2>2, SameSegments, Zenon
  <2>7. SoFarSame(p, q) <=> p[1] = q[1] /\ SoFarSame(a, b)
    BY <2>1, SegmentMore, Zenon
  <2>8. Len(p) <= Len(q) => (SoFarSame(p, q) <=> \A i \in 1 .. Len(p) : p[i] = q[i])
    BY <2>2 DEF SoFarSame
  <2>9. Len(a) <= Len(b) => (SoFarSame(a, b) <=> \A i \in 1 .. Len(a) : a[i] = b[i])
    BY <2>2 DEF SoFarSame
  <2>10. /\ Len(p) <= Len(q) <=> Len(a) <= Len(b)
         /\ Len(p) = Len(q) <=> Len(a) = Len(b)
         /\ Len(p) = Len(q) => Len(p) <= Len(q)
         /\ Len(a) = Len(b) => Len(a) <= Len(b)
    BY <2>2
  <2>11. IsPrefix(p, q) <=> q[1] = p[1] /\ IsPrefix(a, b)
    BY <2>3, <2>4, <2>7, <2>8, <2>9, <2>10, Zenon
  <2>12. q = p <=> q[1] = p[1] /\ b = a
    BY <2>5, <2>6, <2>7, <2>8, <2>9, <2>10, Zenon
  <2> QED BY <1>3, <2>11, <2>12 DEF a, b
<1> QED BY <1>2, <1>3

-----------------------------------------------------------------------------
(* Nodes                                                                   *)

\* The place of a member: there is none of the name, or it is the first.
LEMMA MemberFinds ==
  ASSUME NEW node, NEW n, NEW T, node.items \in Seq(T)
  PROVE  \/ Member(node, n) = 0 /\ \A i \in 1 .. Len(node.items) : node.items[i].name # n
         \/ /\ Member(node, n) \in 1 .. Len(node.items)
            /\ node.items[Member(node, n)].name = n
<1> DEFINE found == {i \in 1 .. Len(node.items) : node.items[i].name = n}
<1>1. Member(node, n) = IF found # {} THEN Min(found) ELSE 0
  BY DEF Member, SelectInSeq
<1>2. CASE found = {}
  BY <1>1, <1>2
<1>3. CASE found # {}
  <2>1. found \in SUBSET Nat
    OBVIOUS
  <2>2. PICK x \in found : \A y \in found : x <= y
    BY <1>3, <2>1, Least
  <2>3. Min(found) \in found
    BY <2>2 DEF Min
  <2> QED BY <1>1, <1>3, <2>3
<1> QED BY <1>2, <1>3

\* The kinds, apart.
LEMMA Kinds ==
  /\ Nil.kind = "nil" /\ Nil \notin Leaves /\ Content(Nil) = <<>>
  /\ \A x \in Leaves : x.kind \in LeafKinds /\ Content(x) = <<x.kind, x.text>>
  /\ \A N : \A x \in Arrays(N) : x.kind = "array" /\ Content(x) = <<>>
  /\ \A N : \A x \in Structs(N) : x.kind = "struct" /\ Content(x) = <<>>
<1>1. \A v \in Values : Leaf(v[1], v[2]).kind \in {"boolean", "number", "string"}
  BY ValuesAssumption DEF Leaf
<1>2. \A x \in Leaves : x.kind \in {"boolean", "number", "string"}
  BY <1>1, Zenon DEF Leaves
<1>3. Nil.kind = "nil"
  BY DEF Nil, Leaf
<1>4. \A N : \A x \in Arrays(N) : x.kind = "array"
  BY DEF Arrays
<1>5. \A N : \A x \in Structs(N) : x.kind = "struct"
  BY DEF Structs
<1> QED BY <1>2, <1>3, <1>4, <1>5 DEF Content, LeafKinds

\* A leaf, and no document, have no children.
LEMMA ChildOfLeaf ==
  ASSUME NEW x, x = Nil \/ x \in Leaves, NEW s
  PROVE  Child(x, s) = Nil
BY Kinds DEF Child, LeafKinds

\* The trees of a depth, and those of the next.
LEMMA TreesFrom ==
  ASSUME NEW d \in Nat
  PROVE  /\ Trees(0) = Leaves \cup {Nil}
         /\ Trees(d + 1) = Leaves \cup {Nil} \cup Arrays(Trees(d)) \cup Structs(Trees(d))
         /\ Nil \in Trees(d) /\ Leaves \subseteq Trees(d)
<1>1. /\ TreesOf(Leaves \cup {Nil}, 0) = Leaves \cup {Nil}
      /\ \A n \in Nat : TreesOf(Leaves \cup {Nil}, n + 1)
           = Leaves \cup {Nil} \cup Arrays(TreesOf(Leaves \cup {Nil}, n))
               \cup Structs(TreesOf(Leaves \cup {Nil}, n))
  BY TreesIs
<1>2. /\ Trees(0) = Leaves \cup {Nil}
      /\ \A n \in Nat : Trees(n + 1) = Leaves \cup {Nil} \cup Arrays(Trees(n))
                                         \cup Structs(Trees(n))
  BY <1>1, Zenon DEF Trees
<1>3. d = 0 \/ \E n \in Nat : d = n + 1
  <2>1. d = 0 \/ (d - 1 \in Nat /\ d = (d - 1) + 1)
    OBVIOUS
  <2> QED BY <2>1
<1> QED BY <1>2, <1>3

Names  == STRING \ {""}
NoName == {""}
ItemsOf(A, N) == [name : A, node : N]

\* An array.
IsArray(x, N) ==
  /\ x.kind = "array"
  /\ x.items \in Seq(ItemsOf(NoName, N))
  /\ Len(x.items) \in 1 .. MaxArray

\* A node, by its three fields.
Node(x, k, t) == x = [kind |-> k, text |-> t, items |-> x.items]

\* A record of three fields.
LEMMA Fields ==
  ASSUME NEW A, NEW B, NEW C, NEW x
  PROVE  x \in [kind : A, text : B, items : C]
           <=> /\ Node(x, x.kind, x.text)
               /\ x.kind \in A /\ x.text \in B /\ x.items \in C
BY DEF Node

\* The kind and the text of a node.
LEMMA FieldsOf ==
  ASSUME NEW a, NEW b, NEW x, Node(x, a, b)
  PROVE  x.kind = a /\ x.text = b
BY DEF Node

\* An array is a node whose items are one to MaxArray nodes without names.
LEMMA ArraysAre ==
  ASSUME NEW N, NEW x
  PROVE  x \in Arrays(N) <=> /\ Node(x, "array", "")
                             /\ IsArray(x, N)
<1> DEFINE I == {s \in Seq(ItemsOf(NoName, N)) : Len(s) \in 1 .. MaxArray}
<1>1. x \in Arrays(N) <=> /\ Node(x, x.kind, x.text)
                          /\ x.kind = "array" /\ x.text = "" /\ x.items \in I
  BY Fields, Zenon DEF Arrays, Node, ItemsOf, NoName
<1>2. x.items \in I <=> x.items \in Seq(ItemsOf(NoName, N)) /\ Len(x.items) \in 1 .. MaxArray
  OBVIOUS
<1>3. ASSUME Node(x, "array", "")
      PROVE  x.kind = "array" /\ x.text = ""
  BY <1>3, FieldsOf
<1> HIDE DEF I
<1> QED BY <1>1, <1>2, <1>3, Zenon DEF IsArray

\* What an index leads to in an array.
LEMMA ArrayChild ==
  ASSUME NEW x, x.kind = "array", NEW t
  PROVE  Child(x, t) = IF t.index \in 0 .. Len(x.items) - 1
                         THEN x.items[t.index + 1].node ELSE Nil
BY DEF Child

\* The same of structs.
IsStruct(x, N) ==
  /\ x.kind = "struct"
  /\ x.items \in Seq(ItemsOf(Names, N))
  /\ Named(x.items)

\* A struct is a node whose items have distinct names.
LEMMA StructsAre ==
  ASSUME NEW N, NEW x
  PROVE  x \in Structs(N) <=> /\ Node(x, "struct", "")
                              /\ IsStruct(x, N)
<1> DEFINE I == {s \in Seq(ItemsOf(Names, N)) : Named(s)}
<1>1. x \in Structs(N) <=> /\ Node(x, x.kind, x.text)
                           /\ x.kind = "struct" /\ x.text = "" /\ x.items \in I
  BY Fields, Zenon DEF Structs, Node, ItemsOf, Names
<1>2. x.items \in I <=> x.items \in Seq(ItemsOf(Names, N)) /\ Named(x.items)
  OBVIOUS
<1>3. ASSUME Node(x, "struct", "")
      PROVE  x.kind = "struct" /\ x.text = ""
  BY <1>3, FieldsOf
<1> HIDE DEF I
<1> QED BY <1>1, <1>2, <1>3, Zenon DEF IsStruct

\* An item, by its fields.
LEMMA Items ==
  /\ \A n, x : Item(n, x).name = n /\ Item(n, x).node = x
  /\ \A A, N : \A n \in A, x \in N : Item(n, x) \in ItemsOf(A, N)
  /\ \A A, N : \A item \in ItemsOf(A, N) :
       item.name \in A /\ item.node \in N /\ item = Item(item.name, item.node)
BY DEF Item, ItemsOf

\* Another list of items.
WithItems(x, i) == [x EXCEPT !.items = i]

\* With other items it is a node of the same kind.
LEMMA NewItems ==
  ASSUME NEW x, NEW k, NEW t, Node(x, k, t), NEW i
  PROVE  Node(WithItems(x, i), k, t) /\ WithItems(x, i).items = i /\ WithItems(x, i).kind = k
BY DEF Node, WithItems

\* With its own items it is what it was.
LEMMA SameItems ==
  ASSUME NEW x, NEW k, NEW t, Node(x, k, t)
  PROVE  WithItems(x, x.items) = x
BY DEF Node, WithItems

\* An array, or one that is still empty.
ArrayLike(x, N) ==
  /\ Node(x, "array", "")
  /\ x.items \in Seq(ItemsOf(NoName, N)) /\ Len(x.items) <= MaxArray

\* A new array, and one of the tree, are such.
LEMMA ArrayLikeIs ==
  ASSUME NEW N, NEW x, x = NewArray \/ x \in Arrays(N)
  PROVE  ArrayLike(x, N) /\ x.kind = "array"
<1>1. CASE x \in Arrays(N)
  <2>1. Node(x, "array", "") /\ IsArray(x, N)
    BY <1>1, ArraysAre, Zenon
  <2>2. Len(x.items) <= MaxArray
    <3>1. Len(x.items) \in 1 .. MaxArray
      BY <2>1, Zenon DEF IsArray
    <3> QED BY <3>1, BoundsAssumption
  <2> QED BY <2>1, <2>2, Zenon DEF ArrayLike, IsArray
<1>2. CASE x = NewArray
  <2>1. x.kind = "array" /\ x.items = <<>>
    BY <1>2 DEF NewArray, Leaf
  <2>2. Node(x, "array", "")
    BY <1>2, <2>1, Zenon DEF NewArray, Leaf, Node
  <2>3. x.items \in Seq(ItemsOf(NoName, N)) /\ Len(x.items) <= MaxArray
    BY <2>1, BoundsAssumption
  <2> QED BY <2>1, <2>2, <2>3 DEF ArrayLike
<1> QED BY <1>1, <1>2

\* New slots change nothing that can be reached.
LEMMA GrownIs ==
  ASSUME NEW N, Nil \in N, NEW x, ArrayLike(x, N), NEW i \in Nat, i < MaxArray
  PROVE  /\ Grown(x, i + 1) \in Arrays(N)
         /\ i + 1 \in 1 .. Len(Grown(x, i + 1).items)
         /\ \A t \in Segments : Child(Grown(x, i + 1), t) = Child(x, t)
<1> DEFINE I == ItemsOf(NoName, N)
           empty == Item("", Nil)
           old == x.items
           m == IF i + 1 > Len(old) THEN i + 1 ELSE Len(old)
           new == [j \in 1 .. m |-> IF j <= Len(old) THEN old[j] ELSE empty]
           g == Grown(x, i + 1)
<1>1. g = WithItems(x, new)
  BY Zenon DEF Grown, WithItems
<1>2. Node(x, "array", "")
  BY Zenon DEF ArrayLike
<1>10. old \in Seq(I) /\ Len(old) <= MaxArray
  BY Zenon DEF ArrayLike
<1> HIDE DEF new, g
<1>3. Node(g, "array", "") /\ g.items = new /\ g.kind = "array"
  BY <1>1, <1>2, NewItems, Zenon
<1> USE DEF new
<1>4. empty \in I /\ empty.node = Nil
  <2>1. "" \in NoName
    BY Zenon DEF NoName
  <2> QED BY <2>1, Items, Zenon
<1>5. x.kind = "array"
  BY <1>2, FieldsOf
<1> HIDE DEF I, empty, old
<1>6. m \in 1 .. MaxArray /\ m \in Nat /\ i + 1 \in 1 .. m
  BY <1>10, BoundsAssumption
<1>7. new \in Seq(I) /\ Len(new) = m
  BY <1>10, <1>4, <1>6
<1>8. g \in Arrays(N)
  BY <1>3, <1>6, <1>7, ArraysAre, Zenon DEF IsArray, I
<1>9. ASSUME NEW t \in Segments PROVE Child(g, t) = Child(x, t)
  <2>1. Child(g, t) = IF t.index \in 0 .. Len(new) - 1 THEN new[t.index + 1].node ELSE Nil
    BY <1>3, ArrayChild
  <2>2. Child(x, t) = IF t.index \in 0 .. Len(old) - 1 THEN old[t.index + 1].node ELSE Nil
    BY <1>5, ArrayChild DEF old
  <2>3. t.index \in Int
    BY DEF Segments
  <2>4. CASE t.index \in 0 .. Len(old) - 1
    BY <1>10, <1>6, <1>7, <2>1, <2>2, <2>3, <2>4
  <2>5. CASE t.index \notin 0 .. Len(old) - 1
    BY <1>10, <1>4, <1>6, <1>7, <2>1, <2>2, <2>3, <2>5
  <2> QED BY <2>4, <2>5
<1> QED BY <1>3, <1>6, <1>7, <1>8, <1>9 DEF g

\* Nor is anything added where there are slots enough.
LEMMA GrownSame ==
  ASSUME NEW N, NEW x, ArrayLike(x, N), NEW i \in Nat, i + 1 <= Len(x.items)
  PROVE  Grown(x, i + 1) = x
<1> DEFINE I == ItemsOf(NoName, N)
           empty == Item("", Nil)
           old == x.items
           m == IF i + 1 > Len(old) THEN i + 1 ELSE Len(old)
           new == [j \in 1 .. m |-> IF j <= Len(old) THEN old[j] ELSE empty]
<1>1. Grown(x, i + 1) = WithItems(x, new)
  BY Zenon DEF Grown, WithItems
<1>2. Node(x, "array", "") /\ old \in Seq(I)
  BY Zenon DEF ArrayLike
<1> HIDE DEF I, empty, old
<1>3. old \in Seq(I) /\ i + 1 <= Len(old)
  BY <1>2, Zenon DEF old
<1>4. m = Len(old) /\ \A j \in 1 .. Len(old) : j <= Len(old)
  BY <1>3
<1>5. new = [j \in 1 .. Len(old) |-> old[j]]
  BY <1>4
<1>6. [j \in 1 .. Len(old) |-> old[j]] = old
  BY <1>3
<1> HIDE DEF new
<1>7. WithItems(x, x.items) = x
  BY <1>2, SameItems, Zenon
<1> QED BY <1>1, <1>5, <1>6, <1>7, Zenon DEF old

\* What a name leads to in a struct.
LEMMA StructChild ==
  ASSUME NEW x, x.kind = "struct", NEW T, x.items \in Seq(T), Named(x.items), NEW t \in Segments
  PROVE  /\ \A i \in 1 .. Len(x.items) :
              t.index < 0 /\ x.items[i].name = t.name => Child(x, t) = x.items[i].node
         /\ t.index >= 0 \/ (\A i \in 1 .. Len(x.items) : x.items[i].name # t.name)
              => Child(x, t) = Nil
<1> DEFINE m == Member(x, t.name)
<1>1. Child(x, t) = IF t.index < 0 /\ m > 0 THEN x.items[m].node ELSE Nil
  BY DEF Child
<1>2. \/ m = 0 /\ \A i \in 1 .. Len(x.items) : x.items[i].name # t.name
      \/ m \in 1 .. Len(x.items) /\ x.items[m].name = t.name
  BY MemberFinds
<1>3. t.index \in Int
  BY DEF Segments
<1> HIDE DEF m
<1>4. ASSUME NEW i \in 1 .. Len(x.items), t.index < 0, x.items[i].name = t.name
      PROVE  Child(x, t) = x.items[i].node
  <2>1. m \in 1 .. Len(x.items) /\ x.items[m].name = x.items[i].name
    BY <1>2, <1>4
  <2>2. m \in DOMAIN x.items /\ i \in DOMAIN x.items
    BY <2>1
  <2>3. m = i
    BY <2>1, <2>2, Zenon DEF Named
  <2>4. m > 0
    BY <2>1
  <2> QED BY <1>1, <1>4, <2>3, <2>4
<1>5. t.index >= 0 => Child(x, t) = Nil
  BY <1>1, <1>3
<1>6. (\A i \in 1 .. Len(x.items) : x.items[i].name # t.name) => Child(x, t) = Nil
  BY <1>1, <1>2
<1> QED BY <1>4, <1>5, <1>6

\* The items, with another node in one of them.
Updated(x, kind, text, A, N, j, y, w) ==
  /\ Node(w, kind, text) /\ w.kind = kind
  /\ w.items \in Seq(ItemsOf(A, N)) /\ Len(w.items) = Len(x.items)
  /\ \A i \in 1 .. Len(x.items) :
       /\ w.items[i].name = x.items[i].name
       /\ w.items[i].node = IF i = j THEN y ELSE x.items[i].node

\* Another child in a slot is one item replaced.
LEMMA WithNodeIs ==
  ASSUME NEW A, NEW N, NEW x, NEW kind, NEW text, Node(x, kind, text),
         x.items \in Seq(ItemsOf(A, N)), NEW j \in 1 .. Len(x.items), NEW y \in N
  PROVE  Updated(x, kind, text, A, N, j, y, WithNode(x, j, y))
<1> DEFINE w == WithNode(x, j, y)
           I == ItemsOf(A, N)
           new == [i \in DOMAIN x.items |->
                     IF i = j THEN Item(x.items[i].name, y) ELSE x.items[i]]
<1>1. w = WithItems(x, new)
  BY Zenon DEF WithNode, WithItems
<1> HIDE DEF new, w
<1>2. Node(w, kind, text) /\ w.items = new /\ w.kind = kind
  BY <1>1, NewItems, Zenon
<1>3. \A i \in 1 .. Len(x.items) : x.items[i] \in I
  OBVIOUS
<1>4. \A i \in 1 .. Len(x.items) : Item(x.items[i].name, y) \in I
  BY <1>3, Items, Zenon
<1> HIDE DEF I
<1>5. DOMAIN x.items = 1 .. Len(x.items)
  OBVIOUS
<1>6. new \in Seq(I) /\ Len(new) = Len(x.items)
  BY <1>3, <1>4, <1>5 DEF I, new
<1>7. \A i \in 1 .. Len(x.items) :
        new[i] = IF i = j THEN Item(x.items[i].name, y) ELSE x.items[i]
  BY <1>5 DEF new
<1>8. \A i \in 1 .. Len(x.items) :
        /\ new[i].name = x.items[i].name
        /\ new[i].node = IF i = j THEN y ELSE x.items[i].node
  <2> TAKE i \in 1 .. Len(x.items)
  <2>1. CASE i = j
    <3>1. new[i] = Item(x.items[i].name, y)
      BY <1>7, <2>1
    <3> QED BY <2>1, <3>1, Items
  <2>2. CASE i # j
    BY <1>7, <2>2
  <2> QED BY <2>1, <2>2
<1> QED BY <1>2, <1>6, <1>8, Zenon DEF I, w, Updated

\* The same node in it: the same tree.
LEMMA WithNodeSame ==
  ASSUME NEW A, NEW N, NEW x, NEW kind, NEW text, Node(x, kind, text),
         x.items \in Seq(ItemsOf(A, N)), NEW j \in 1 .. Len(x.items)
  PROVE  WithNode(x, j, x.items[j].node) = x
<1> DEFINE new == [i \in DOMAIN x.items |->
                     IF i = j THEN Item(x.items[i].name, x.items[j].node) ELSE x.items[i]]
<1>1. WithNode(x, j, x.items[j].node) = [x EXCEPT !.items = new]
  BY Zenon DEF WithNode
<1>2. \A i \in 1 .. Len(x.items) : x.items[i] \in ItemsOf(A, N)
  OBVIOUS
<1>3. \A i \in 1 .. Len(x.items) : x.items[i] = Item(x.items[i].name, x.items[i].node)
  BY <1>2, Items, Zenon
<1>4. DOMAIN x.items = 1 .. Len(x.items) /\ x.items = [i \in DOMAIN x.items |-> x.items[i]]
  OBVIOUS
<1>5. \A i \in DOMAIN x.items :
        x.items[i] = IF i = j THEN Item(x.items[i].name, x.items[j].node) ELSE x.items[i]
  BY <1>3, <1>4, Zenon
<1>6. new = x.items
  BY <1>4, <1>5, Zenon
<1> HIDE DEF new
<1>7. [x EXCEPT !.items = x.items] = x
  BY DEF Node
<1> QED BY <1>1, <1>6, <1>7, Zenon

\* y is made the child of x that a segment names; nothing else is changed.
Sets(x, s, y, z) ==
  /\ z # Nil /\ Content(x) = <<>> /\ Content(z) = <<>>
  /\ \A t \in Segments : Child(z, t) = IF t = s THEN y ELSE Child(x, t)

\* A segment that is an index, by the index; a name, by the name.
LEMMA SegmentsAre ==
  ASSUME NEW t \in Segments
  PROVE  /\ t.index \in Int /\ t.name \in STRING
         /\ \A i \in Nat : t = Idx(i) <=> t.index = i
         /\ t.index < 0 <=> t.index = -1
         /\ t.index >= 0 <=> ~(t.index < 0)
         /\ \A n : t = Key(n) <=> t.index < 0 /\ t.name = n
         /\ t.index < 0 => t = Key(t.name)
<1>1. t \in [index : Int, name : STRING] /\ (t.index = -1 \/ (t.index >= 0 /\ t.name = ""))
  BY Zenon DEF Segments
<1>2. t = [index |-> t.index, name |-> t.name] /\ t.index \in Int /\ t.name \in STRING
  BY <1>1
<1>3. ASSUME NEW i \in Nat, t.index = i PROVE t = Idx(i)
  <2>1. t.index # -1
    BY <1>3
  <2> QED BY <1>1, <1>2, <1>3, <2>1, Zenon DEF Idx
<1>4. \A i \in Nat : Idx(i).index = i
  BY DEF Idx
<1>5. \A n : Key(n).index = -1 /\ Key(n).name = n
  BY DEF Key
<1>6. t.index < 0 <=> t.index = -1
  <2>1. t.index = -1 \/ t.index >= 0
    BY <1>1, Zenon
  <2> QED BY <1>2, <2>1
<1>7. ASSUME NEW n, t.index = -1, t.name = n PROVE t = Key(n)
  BY <1>2, <1>7, Zenon DEF Key
<1>8. \A i \in Nat : t = Idx(i) <=> t.index = i
  BY <1>3, <1>4, Zenon
<1>9. \A n : t = Key(n) <=> t.index < 0 /\ t.name = n
  BY <1>5, <1>6, <1>7, Zenon
<1>10. t.index >= 0 <=> ~(t.index < 0)
  BY <1>2
<1> QED BY <1>2, <1>6, <1>8, <1>9, <1>10, Zenon

\* A slot of an array is set.
LEMMA SetsIndex ==
  ASSUME NEW N, NEW x \in Arrays(N), NEW j \in 1 .. Len(x.items), NEW y \in N
  PROVE  /\ Sets(x, Idx(j - 1), y, WithNode(x, j, y))
         /\ WithNode(x, j, y) \in Arrays(N)
<1> DEFINE w == WithNode(x, j, y)
           I == ItemsOf(NoName, N)
<1>1. Node(x, "array", "") /\ x.kind = "array" /\ x.items \in Seq(I) /\ Len(x.items) \in 1 .. MaxArray
  BY ArraysAre, Zenon DEF IsArray
<1>2. Updated(x, "array", "", NoName, N, j, y, w)
  BY <1>1, WithNodeIs, Zenon
<1> HIDE DEF w
<1>3. w \in Arrays(N)
  BY <1>1, <1>2, ArraysAre, Zenon DEF IsArray, Updated
<1>4. w # Nil /\ Content(x) = <<>> /\ Content(w) = <<>>
  BY <1>3, Kinds
<1> HIDE DEF I
<1>5. x.items \in Seq(I)
  BY <1>1, Zenon
<1>6. Len(x.items) \in Nat
  BY <1>5
<1>7. \A k \in 1 .. Len(x.items) : w.items[k].node = IF k = j THEN y ELSE x.items[k].node
  BY <1>2, Zenon DEF Updated
<1>8. ASSUME NEW t \in Segments PROVE Child(w, t) = IF t = Idx(j - 1) THEN y ELSE Child(x, t)
  <2>1. Child(w, t) = IF t.index \in 0 .. Len(x.items) - 1 THEN w.items[t.index + 1].node ELSE Nil
    BY <1>2, ArrayChild, Zenon DEF Updated
  <2>2. Child(x, t) = IF t.index \in 0 .. Len(x.items) - 1 THEN x.items[t.index + 1].node ELSE Nil
    BY <1>1, ArrayChild, Zenon
  <2>3. j - 1 \in Nat
    OBVIOUS
  <2>4. t.index \in Int /\ (t = Idx(j - 1) <=> t.index = j - 1)
    BY <2>3, SegmentsAre, Zenon
  <2>5. CASE t = Idx(j - 1)
    <3>1. t.index \in 0 .. Len(x.items) - 1 /\ t.index + 1 = j
      BY <1>6, <2>4, <2>5
    <3>2. w.items[t.index + 1].node = y
      BY <1>7, <3>1, Zenon
    <3> QED BY <2>1, <2>5, <3>1, <3>2, Zenon
  <2>6. CASE t # Idx(j - 1) /\ t.index \in 0 .. Len(x.items) - 1
    <3>1. t.index + 1 \in 1 .. Len(x.items) /\ t.index + 1 # j
      BY <1>6, <2>4, <2>6
    <3>2. w.items[t.index + 1].node = x.items[t.index + 1].node
      BY <1>7, <3>1, Zenon
    <3> QED BY <2>1, <2>2, <2>6, <3>2, Zenon
  <2>7. CASE t # Idx(j - 1) /\ t.index \notin 0 .. Len(x.items) - 1
    BY <2>1, <2>2, <2>7, Zenon
  <2> QED BY <2>5, <2>6, <2>7, Zenon
<1> QED BY <1>3, <1>4, <1>8, Zenon DEF Sets, w

\* A member of a struct is set.
LEMMA SetsMember ==
  ASSUME NEW N, NEW x \in Structs(N), NEW n, NEW j \in 1 .. Len(x.items), x.items[j].name = n,
         NEW y \in N
  PROVE  /\ Sets(x, Key(n), y, WithNode(x, j, y))
         /\ WithNode(x, j, y) \in Structs(N)
<1> DEFINE w == WithNode(x, j, y)
           A == Names
           I == ItemsOf(A, N)
<1>1. Node(x, "struct", "") /\ x.kind = "struct" /\ x.items \in Seq(I) /\ Named(x.items)
  BY StructsAre, Zenon DEF IsStruct
<1>2. Updated(x, "struct", "", A, N, j, y, w)
  BY <1>1, WithNodeIs, Zenon
<1> HIDE DEF w
<1>3. /\ w.kind = "struct" /\ w.items \in Seq(I) /\ Len(w.items) = Len(x.items)
      /\ \A k \in 1 .. Len(x.items) :
           /\ w.items[k].name = x.items[k].name
           /\ w.items[k].node = IF k = j THEN y ELSE x.items[k].node
  BY <1>2, Zenon DEF Updated
<1> HIDE DEF I, A
<1>4. DOMAIN w.items = 1 .. Len(x.items) /\ DOMAIN x.items = 1 .. Len(x.items)
  <2>1. x.items \in Seq(I)
    BY <1>1, Zenon
  <2>2. w.items \in Seq(I) /\ Len(w.items) = Len(x.items)
    BY <1>3, Zenon
  <2> QED BY <2>1, <2>2
<1>5. Named(w.items)
  BY <1>1, <1>3, <1>4, Zenon DEF Named
<1>6. w \in Structs(N)
  <2>1. Node(w, "struct", "")
    BY <1>2, Zenon DEF Updated
  <2> QED BY <1>3, <1>5, <2>1, StructsAre, Zenon DEF IsStruct, I, A
<1>7. w # Nil /\ Content(x) = <<>> /\ Content(w) = <<>>
  BY <1>6, Kinds
<1>8. ASSUME NEW t \in Segments PROVE Child(w, t) = IF t = Key(n) THEN y ELSE Child(x, t)
  <2>1. /\ \A i \in 1 .. Len(x.items) :
              t.index < 0 /\ x.items[i].name = t.name => Child(x, t) = x.items[i].node
        /\ t.index >= 0 \/ (\A i \in 1 .. Len(x.items) : x.items[i].name # t.name)
              => Child(x, t) = Nil
    BY <1>1, StructChild, Zenon
  <2>2. /\ \A i \in 1 .. Len(w.items) :
              t.index < 0 /\ w.items[i].name = t.name => Child(w, t) = w.items[i].node
        /\ t.index >= 0 \/ (\A i \in 1 .. Len(w.items) : w.items[i].name # t.name)
              => Child(w, t) = Nil
    BY <1>3, <1>5, StructChild, Zenon
  <2>3. \A m : t = Key(m) <=> t.index < 0 /\ t.name = m
    BY SegmentsAre, Zenon
  <2>4. t.index >= 0 \/ t.index < 0
    BY SegmentsAre, Zenon
  <2>5. CASE t = Key(n)
    <3>1. w.items[j].name = t.name /\ t.index < 0 /\ w.items[j].node = y
      BY <1>3, <2>3, <2>5, Zenon
    <3>2. j \in 1 .. Len(w.items)
      BY <1>3, Zenon
    <3> QED BY <2>2, <2>5, <3>1, <3>2, Zenon
  <2>6. CASE t # Key(n) /\ t.index < 0 /\ \E i \in 1 .. Len(x.items) : x.items[i].name = t.name
    <3>1. PICK i \in 1 .. Len(x.items) : x.items[i].name = t.name
      BY <2>6
    <3>2. i # j
      BY <2>3, <2>6, <3>1, Zenon
    <3>3. w.items[i].name = t.name /\ w.items[i].node = x.items[i].node
      BY <1>3, <3>1, <3>2, Zenon
    <3>4. i \in 1 .. Len(w.items)
      BY <1>3, Zenon
    <3> QED BY <2>1, <2>2, <2>6, <3>1, <3>3, <3>4, Zenon
  <2>7. CASE t.index >= 0 \/ \A i \in 1 .. Len(x.items) : x.items[i].name # t.name
    <3>1. t # Key(n)
      <4>1. ~(t.index >= 0 /\ t.index < 0)
        BY SegmentsAre, Zenon
      <4> SUFFICES ASSUME t.index < 0, t.name = n PROVE FALSE
        BY <2>3, Zenon
      <4>2. x.items[j].name = t.name
        OBVIOUS
      <4> QED BY <2>7, <4>1, <4>2, Zenon
    <3>2. (\A i \in 1 .. Len(x.items) : x.items[i].name # t.name)
            => \A i \in 1 .. Len(w.items) : w.items[i].name # t.name
      BY <1>3, Zenon
    <3> QED BY <2>1, <2>2, <2>7, <3>1, <3>2, Zenon
  <2> QED BY <2>4, <2>5, <2>6, <2>7, Zenon
<1> QED BY <1>6, <1>7, <1>8, Zenon DEF Sets, w

\* A struct, or one that is still empty.
StructLike(x, N) ==
  /\ Node(x, "struct", "") /\ x.kind = "struct"
  /\ x.items \in Seq(ItemsOf(Names, N)) /\ Named(x.items)

\* A new struct, and one of the tree, are such.
LEMMA StructLikeIs ==
  ASSUME NEW N, NEW x, x = NewStruct \/ x \in Structs(N)
  PROVE  StructLike(x, N)
<1>1. CASE x \in Structs(N)
  BY <1>1, StructsAre, Zenon DEF StructLike, IsStruct
<1>2. CASE x = NewStruct
  <2>1. x.kind = "struct" /\ x.items = <<>>
    BY <1>2 DEF NewStruct, Leaf
  <2>2. Node(x, "struct", "")
    BY <1>2, <2>1, Zenon DEF NewStruct, Leaf, Node
  <2> DEFINE I == ItemsOf(Names, N)
  <2> HIDE DEF I
  <2>3. <<>> \in Seq(I) /\ DOMAIN <<>> = {}
    OBVIOUS
  <2>4. x.items \in Seq(I) /\ Named(x.items)
    BY <2>1, <2>3, Zenon DEF Named
  <2> QED BY <2>1, <2>2, <2>4, Zenon DEF StructLike, I
<1> QED BY <1>1, <1>2

\* A member is added to a struct that has none of that name.
WithMember(x, n, y) == [x EXCEPT !.items = Append(@, Item(n, y))]

\* It is set to the new value, and all others are as before.
LEMMA AddsMember ==
  ASSUME NEW N, NEW x, StructLike(x, N), NEW n \in Names, NEW y \in N,
         \A i \in 1 .. Len(x.items) : x.items[i].name # n
  PROVE  Sets(x, Key(n), y, WithMember(x, n, y)) /\ WithMember(x, n, y) \in Structs(N)
<1> DEFINE w == WithMember(x, n, y)
           A == Names
           I == ItemsOf(A, N)
           new == Append(x.items, Item(n, y))
           L == Len(x.items)
<1>1. Node(x, "struct", "") /\ x.kind = "struct" /\ x.items \in Seq(I) /\ Named(x.items)
  BY Zenon DEF StructLike
<1>2. w = WithItems(x, new)
  BY Zenon DEF WithItems, WithMember
<1>3. Item(n, y) \in I /\ Item(n, y).name = n /\ Item(n, y).node = y
  BY Items, Zenon
<1> HIDE DEF new, I, A, w
<1>4. Node(w, "struct", "") /\ w.items = new /\ w.kind = "struct"
  <2>1. /\ Node(WithItems(x, new), "struct", "") /\ WithItems(x, new).items = new
        /\ WithItems(x, new).kind = "struct"
    <3>1. Node(x, "struct", "")
      BY <1>1, Zenon
    <3> QED BY <3>1, NewItems, Zenon
  <2> QED BY <1>2, <2>1, Zenon
<1>5. x.items \in Seq(I)
  BY <1>1, Zenon
<1>6. /\ new \in Seq(I) /\ Len(new) = L + 1 /\ L \in Nat
      /\ DOMAIN new = 1 .. L + 1 /\ DOMAIN x.items = 1 .. L
      /\ \A i \in 1 .. L : new[i] = x.items[i]
      /\ new[L + 1] = Item(n, y)
  <2> DEFINE item == Item(n, y)
  <2>1. item \in I
    BY <1>3, Zenon
  <2> HIDE DEF item
  <2>2. /\ new \in Seq(I) /\ Len(new) = L + 1 /\ L \in Nat
        /\ \A i \in 1 .. L : new[i] = x.items[i]
        /\ new[L + 1] = item
    <3>1. new = Append(x.items, item)
      BY Zenon DEF new, item
    <3> QED BY <1>5, <2>1, <3>1
  <2>3. DOMAIN new = 1 .. L + 1 /\ DOMAIN x.items = 1 .. L
    BY <1>5, <2>2
  <2> QED BY <2>2, <2>3, Zenon DEF item
<1>14. L \in Nat
  BY <1>6
<1>7. PICK last : last = L + 1 /\ last \in 1 .. L + 1
                  /\ \A i \in 1 .. L + 1 : i = last \/ i \in 1 .. L
  <2>1. L + 1 \in 1 .. L + 1 /\ \A i \in 1 .. L + 1 : i = L + 1 \/ i \in 1 .. L
    BY <1>14
  <2> QED BY <2>1
<1>8. 1 .. L \subseteq 1 .. L + 1
  BY <1>14
<1>9. new[last].name = n /\ new[last].node = y
  BY <1>3, <1>6, <1>7, Zenon
<1> HIDE DEF L
<1>10. Named(new)
  BY <1>1, <1>6, <1>7, <1>9, Zenon DEF Named, L
<1>11. w \in Structs(N)
  BY <1>4, <1>6, <1>10, StructsAre, Zenon DEF IsStruct, I, A
<1>12. w # Nil /\ Content(x) = <<>> /\ Content(w) = <<>>
  <2>1. x.kind \notin LeafKinds
    BY <1>1 DEF LeafKinds
  <2> QED BY <1>11, <2>1, Kinds DEF Content
<1>13. ASSUME NEW t \in Segments PROVE Child(w, t) = IF t = Key(n) THEN y ELSE Child(x, t)
  <2>1. /\ \A i \in 1 .. L : t.index < 0 /\ x.items[i].name = t.name => Child(x, t) = x.items[i].node
        /\ t.index >= 0 \/ (\A i \in 1 .. L : x.items[i].name # t.name) => Child(x, t) = Nil
    BY <1>1, StructChild, Zenon DEF L
  <2>2. /\ \A i \in 1 .. L + 1 : t.index < 0 /\ new[i].name = t.name => Child(w, t) = new[i].node
        /\ t.index >= 0 \/ (\A i \in 1 .. L + 1 : new[i].name # t.name) => Child(w, t) = Nil
    <3>1. new \in Seq(I) /\ Len(new) = L + 1
      BY <1>6, Zenon
    <3>2. w.items = new /\ w.kind = "struct"
      BY <1>4, Zenon
    <3> QED BY <1>10, <3>1, <3>2, StructChild, Zenon
  <2>3. \A m : t = Key(m) <=> t.index < 0 /\ t.name = m
    BY SegmentsAre, Zenon
  <2>4. t.index >= 0 \/ t.index < 0
    BY SegmentsAre, Zenon
  <2>5. CASE t = Key(n)
    BY <1>7, <1>9, <2>2, <2>3, <2>5, Zenon
  <2>6. CASE t # Key(n) /\ t.index < 0 /\ \E i \in 1 .. L : x.items[i].name = t.name
    <3>1. PICK i \in 1 .. L : x.items[i].name = t.name
      BY <2>6
    <3>2. i \in 1 .. L + 1 /\ new[i] = x.items[i]
      BY <1>6, <1>8, <3>1, Zenon
    <3>3. Child(x, t) = x.items[i].node
      BY <2>1, <2>6, <3>1, Zenon
    <3>4. Child(w, t) = new[i].node
      BY <2>2, <2>6, <3>1, <3>2, Zenon
    <3> QED BY <2>6, <3>2, <3>3, <3>4, Zenon
  <2>7. CASE t # Key(n) /\ (t.index >= 0 \/ \A i \in 1 .. L : x.items[i].name # t.name)
    <3>1. t.index < 0 => \A i \in 1 .. L + 1 : (i = last \/ i \in 1 .. L) => new[i].name # t.name
      <4> SUFFICES ASSUME t.index < 0 PROVE \A i \in 1 .. L + 1 : (i = last \/ i \in 1 .. L) => new[i].name # t.name
        OBVIOUS
      <4>1. t.name # n
        BY <2>3, <2>7, Zenon
      <4>2. ~(t.index >= 0)
        BY SegmentsAre, Zenon
      <4> QED BY <1>6, <1>9, <2>7, <4>1, <4>2, Zenon
    <3> QED BY <1>7, <2>1, <2>2, <2>4, <2>7, <3>1, Zenon
  <2>8. t = Key(n) => t.index < 0
    BY <2>3
  <2> QED BY <2>4, <2>5, <2>6, <2>7, Zenon
<1> QED BY <1>11, <1>12, <1>13, Zenon DEF Sets, w

-----------------------------------------------------------------------------
(* What a put does to what can be read                                     *)

Same(x, y) == \A q \in Seq(Segments) : Read(y, q) = Read(x, q)

\* y is x, with a leaf stored under p.
Reads(x, p, leaf, y) ==
  \A q \in Seq(Segments) :
    Read(y, q) = IF q = p THEN Content(leaf)
                 ELSE IF IsPrefix(p, q) THEN <<>>
                 ELSE Read(x, q)

\* s is the first segment of p, and q the others.
OnPath(p, s, q) ==
  p \in Seq(Segments) /\ p # <<>> /\ s = p[1] /\ q = Tail(p)
OnPathIs(p, s, q) ==
  /\ p \in Seq(Segments) /\ q \in Seq(Segments) /\ s \in Segments /\ p # <<>>
  /\ \A node : Get(node, p) = Get(Child(node, s), q)
  /\ CleanPath(p) => CleanPath(q) /\ s # NoSegment /\ s.index < MaxArray

\* What a path reads is what its rest reads below its first segment.
LEMMA OnPaths ==
  ASSUME NEW p, NEW s, NEW q, OnPath(p, s, q)
  PROVE  OnPathIs(p, s, q)
<1>1. p \in Seq(Segments) /\ p # <<>> /\ s = p[1] /\ q = Tail(p)
  BY DEF OnPath
<1>2. Rest(q, p) /\ s \in Segments
  BY <1>1, TailIsRest
<1>3. \A node : Get(node, p) = Get(Child(node, s), q)
  BY <1>1, GetFrom, Zenon
<1>4. /\ q \in Seq(Segments) /\ Len(p) = Len(q) + 1 /\ Len(q) \in Nat
      /\ \A i \in 1 .. Len(q) : q[i] = p[i + 1]
  BY <1>2 DEF Rest
<1>5. DOMAIN q = 1 .. Len(q) /\ DOMAIN p = 1 .. Len(q) + 1
  BY <1>1, <1>4
<1>6. 1 \in DOMAIN p /\ \A i \in DOMAIN q : i + 1 \in DOMAIN p /\ q[i] = p[i + 1]
  BY <1>4, <1>5
<1>7. CleanPath(p) => CleanPath(q) /\ s # NoSegment /\ s.index < MaxArray
  BY <1>1, <1>6, Zenon DEF CleanPath
<1> QED BY <1>1, <1>2, <1>3, <1>4, <1>7, Zenon DEF OnPathIs

\* A change of the first child is one of what is read below it.
LEMMA SetsReads ==
  ASSUME NEW p, NEW s, NEW q, OnPath(p, s, q), NEW x, NEW y, NEW z, Sets(x, s, y, z), NEW leaf
  PROVE  /\ Reads(Child(x, s), q, leaf, y) => Reads(x, p, leaf, z)
         /\ Same(Child(x, s), y) => Same(x, z)
<1>1. p \in Seq(Segments) /\ p # <<>> /\ s = p[1] /\ q = Tail(p)
  BY DEF OnPath
<1>2. /\ \A node : Read(node, <<>>) = Content(node)
      /\ \A node : \A r \in Seq(Segments) : r # <<>> => Read(node, r) = Read(Child(node, r[1]), Tail(r))
  BY GetFrom, GetHere, Zenon DEF Read
<1>3. /\ Content(x) = <<>> /\ Content(z) = <<>>
      /\ \A t \in Segments : Child(z, t) = IF t = s THEN y ELSE Child(x, t)
  BY Zenon DEF Sets
<1>4. \A r \in Seq(Segments) :
        /\ IsPrefix(p, r) <=> r # <<>> /\ r[1] = p[1] /\ IsPrefix(Tail(p), Tail(r))
        /\ r = p <=> r # <<>> /\ r[1] = p[1] /\ Tail(r) = Tail(p)
  BY <1>1, PrefixFrom, Zenon
<1>5. \A r \in Seq(Segments) : r # <<>> => r[1] \in Segments /\ Tail(r) \in Seq(Segments)
  <2> TAKE r \in Seq(Segments)
  <2> QED BY TailIsRest, Zenon DEF Rest
<1>6. ASSUME Reads(Child(x, s), q, leaf, y), NEW r \in Seq(Segments)
      PROVE  Read(z, r) = IF r = p THEN Content(leaf)
                          ELSE IF IsPrefix(p, r) THEN <<>> ELSE Read(x, r)
  <2>1. CASE r = <<>>
    <3>1. Read(z, r) = <<>> /\ Read(x, r) = <<>>
      BY <1>2, <1>3, <2>1, Zenon
    <3>2. r # p /\ ~IsPrefix(p, r)
      BY <1>4, <2>1, Zenon
    <3> QED BY <3>1, <3>2
  <2>2. CASE r # <<>>
    <3> DEFINE t == r[1]
               u == Tail(r)
    <3>1. t \in Segments /\ u \in Seq(Segments)
      BY <1>5, <2>2, Zenon
    <3>2. Read(z, r) = Read(Child(z, t), u) /\ Read(x, r) = Read(Child(x, t), u)
      BY <1>2, <2>2, Zenon
    <3>3. /\ IsPrefix(p, r) <=> t = s /\ IsPrefix(q, u)
          /\ r = p <=> t = s /\ u = q
      BY <1>1, <1>4, <2>2, Zenon
    <3> HIDE DEF t, u
    <3>4. CASE t = s
      <4>1. Child(z, t) = y /\ Child(x, t) = Child(x, s)
        BY <1>3, <3>1, <3>4
      <4>2. Read(y, u) = IF u = q THEN Content(leaf)
                         ELSE IF IsPrefix(q, u) THEN <<>> ELSE Read(Child(x, s), u)
        BY <1>6, <3>1, Zenon DEF Reads
      <4> QED BY <3>2, <3>3, <3>4, <4>1, <4>2
    <3>5. CASE t # s
      <4>1. Child(z, t) = Child(x, t)
        BY <1>3, <3>1, <3>5
      <4> QED BY <3>2, <3>3, <3>5, <4>1
    <3> QED BY <3>4, <3>5
  <2> QED BY <2>1, <2>2
<1>7. ASSUME Same(Child(x, s), y), NEW r \in Seq(Segments)
      PROVE  Read(z, r) = Read(x, r)
  <2>1. CASE r = <<>>
    BY <1>2, <1>3, <2>1, Zenon
  <2>2. CASE r # <<>>
    <3> DEFINE t == r[1]
               u == Tail(r)
    <3>1. t \in Segments /\ u \in Seq(Segments)
      BY <1>5, <2>2, Zenon
    <3>2. Read(z, r) = Read(Child(z, t), u) /\ Read(x, r) = Read(Child(x, t), u)
      BY <1>2, <2>2, Zenon
    <3>3. Read(y, u) = Read(Child(x, s), u)
      BY <1>7, <3>1, Zenon DEF Same
    <3>4. Child(z, t) = IF t = s THEN y ELSE Child(x, t)
      BY <1>3, <3>1, Zenon
    <3> HIDE DEF t, u
    <3> QED BY <3>2, <3>3, <3>4
  <2> QED BY <2>1, <2>2
<1> QED BY <1>6, <1>7, Zenon DEF Reads, Same

-----------------------------------------------------------------------------
(* What a put may come to                                                  *)

Fielded(o) ==
  o = [ret |-> o.ret, old |-> o.old, moved |-> o.moved,
       stored |-> o.stored, leaked |-> o.leaked, oom |-> o.oom]

\* A put under a path in x, of which nothing or a tree of N is returned: it
\* stores its leaf and changes nothing else, or it changes nothing, and tells
\* so, except where the last conjunct does not apply.
Good(N, x, p, leaf, o) ==
  /\ Fielded(o) /\ o.ret \in N
  /\ o.moved \in BOOLEAN /\ o.stored \in BOOLEAN /\ o.leaked \in BOOLEAN /\ o.oom \in BOOLEAN
  /\ o.ret = Nil => o.old = x /\ ~o.stored
  /\ o.stored => Reads(x, p, leaf, o.ret)
  /\ ~o.stored /\ o.ret # Nil => Same(x, o.ret)
  /\ o.moved => o.ret = Nil /\ x # Nil
  /\ CleanPath(p) /\ ~o.oom => /\ ~o.moved
                               /\ o.ret # Nil \/ x = Nil => o.stored
                               /\ o.leaked => Get(x, p) # Nil

\* The outcomes, changed in a field or two.
Returning(o, z) == [o EXCEPT !.ret = z]
Leaving(o, x)   == [o EXCEPT !.old = x]
Moving(o, x)    == [o EXCEPT !.old = x, !.moved = TRUE, !.leaked = TRUE]

\* The outcomes, by their fields.
LEMMA Changes ==
  ASSUME NEW o, Fielded(o), NEW z
  PROVE  /\ Returning(o, z) = [ret |-> z, old |-> o.old, moved |-> o.moved,
                               stored |-> o.stored, leaked |-> o.leaked, oom |-> o.oom]
         /\ Leaving(o, z) = [ret |-> o.ret, old |-> z, moved |-> o.moved,
                             stored |-> o.stored, leaked |-> o.leaked, oom |-> o.oom]
         /\ Moving(o, z) = [ret |-> o.ret, old |-> z, moved |-> TRUE,
                            stored |-> o.stored, leaked |-> TRUE, oom |-> o.oom]
<1>1. PICK a, b, c, d, e, f : /\ a = o.ret /\ b = o.old /\ c = o.moved
                              /\ d = o.stored /\ e = o.leaked /\ f = o.oom
  OBVIOUS
<1>2. o = [ret |-> a, old |-> b, moved |-> c, stored |-> d, leaked |-> e, oom |-> f]
  BY <1>1 DEF Fielded
<1>3. Returning(o, z) = [ret |-> z, old |-> b, moved |-> c, stored |-> d, leaked |-> e, oom |-> f]
  BY <1>2 DEF Returning
<1>4. Leaving(o, z) = [ret |-> a, old |-> z, moved |-> c, stored |-> d, leaked |-> e, oom |-> f]
  BY <1>2 DEF Leaving
<1>5. Moving(o, z) = [ret |-> a, old |-> z, moved |-> TRUE, stored |-> d, leaked |-> TRUE, oom |-> f]
  <2>1. PICK t : t = TRUE
    OBVIOUS
  <2> DEFINE n == [o EXCEPT !.old = z]
             m == [n EXCEPT !.moved = t]
  <2>2. n = [ret |-> a, old |-> z, moved |-> c, stored |-> d, leaked |-> e, oom |-> f]
    BY <1>4 DEF Leaving
  <2>3. Moving(o, z) = [m EXCEPT !.leaked = t]
    BY <2>1, Zenon DEF Moving
  <2> HIDE DEF n
  <2>4. m = [ret |-> a, old |-> z, moved |-> t, stored |-> d, leaked |-> e, oom |-> f]
    BY <2>2
  <2> HIDE DEF m
  <2>5. [m EXCEPT !.leaked = t]
          = [ret |-> a, old |-> z, moved |-> t, stored |-> d, leaked |-> t, oom |-> f]
    BY <2>4
  <2> QED BY <2>1, <2>3, <2>5, Zenon
<1> QED BY <1>1, <1>3, <1>4, <1>5

\* A put that fails at once.
LEMMA FailedIsGood ==
  ASSUME NEW N, Nil \in N, NEW x, NEW p, NEW leaf, NEW o
  PROVE  /\ o = Failed(x) /\ (CleanPath(p) => x # Nil) => Good(N, x, p, leaf, o)
         /\ o \in OutOfMemory(x) => Good(N, x, p, leaf, o)
<1>1. ASSUME o = Failed(x), CleanPath(p) => x # Nil PROVE Good(N, x, p, leaf, o)
  <2>1. /\ o.ret = Nil /\ o.old = x /\ o.moved = FALSE /\ o.stored = FALSE
        /\ o.leaked = FALSE /\ o.oom = FALSE /\ Fielded(o)
    BY <1>1 DEF Failed, Fielded
  <2> QED BY <1>1, <2>1 DEF Good
<1>2. ASSUME o \in OutOfMemory(x) PROVE Good(N, x, p, leaf, o)
  <2>1. o = [Failed(x) EXCEPT !.oom = TRUE]
    BY <1>2 DEF OutOfMemory
  <2>2. /\ o.ret = Nil /\ o.old = x /\ o.moved = FALSE /\ o.stored = FALSE
        /\ o.leaked = FALSE /\ o.oom = TRUE /\ Fielded(o)
    BY <2>1 DEF Failed, Fielded
  <2> QED BY <2>2 DEF Good
<1> QED BY <1>1, <1>2, Zenon

\* A new child, that a put below returned.
LEMMA ReturningIsGood ==
  ASSUME NEW N, NEW M, NEW p, NEW s, NEW q, OnPath(p, s, q), NEW leaf, NEW x, NEW o,
         Good(N, Child(x, s), q, leaf, o), o.ret # Nil \/ Child(x, s) = Nil,
         NEW z \in M, Sets(x, s, o.ret, z)
  PROVE  Good(M, x, p, leaf, Returning(o, z))
<1> DEFINE c == Child(x, s)
           n == Returning(o, z)
<1>1. Fielded(o)
  BY Zenon DEF Good
<1>2. n = [ret |-> z, old |-> o.old, moved |-> o.moved,
           stored |-> o.stored, leaked |-> o.leaked, oom |-> o.oom]
  BY <1>1, Changes, Zenon
<1> HIDE DEF n
<1>3. /\ n.ret = z /\ n.moved = o.moved /\ n.stored = o.stored /\ n.leaked = o.leaked
      /\ n.oom = o.oom /\ Fielded(n)
  BY <1>2 DEF Fielded
<1>4. z # Nil
  BY Zenon DEF Sets
<1>5. OnPathIs(p, s, q)
  BY OnPaths
<1>6. /\ Reads(c, q, leaf, o.ret) => Reads(x, p, leaf, z)
      /\ Same(c, o.ret) => Same(x, z)
  BY SetsReads, Zenon
<1>7. (CleanPath(p) => CleanPath(q)) /\ Get(x, p) = Get(c, q)
  BY <1>5, Zenon DEF OnPathIs
<1>8. c = Nil => (x = Nil => c = Nil) /\ (o.ret = Nil => Same(c, o.ret))
  BY Zenon DEF Same
<1>9. x = Nil => c = Nil
  BY ChildOfLeaf, Zenon
<1> HIDE DEF c
<1>10. Good(N, c, q, leaf, o) /\ (o.ret # Nil \/ c = Nil)
  BY Zenon DEF c
<1>11. o.moved = FALSE
  BY <1>10 DEF Good
<1>12. o.stored => Reads(x, p, leaf, z)
  BY <1>6, <1>10, Zenon DEF Good
<1>13. ~o.stored => Same(x, z)
  BY <1>6, <1>8, <1>10, Zenon DEF Good
<1>14. CleanPath(p) /\ ~o.oom => o.stored /\ (o.leaked => Get(x, p) # Nil)
  BY <1>7, <1>10, Zenon DEF Good
<1>15. o.stored \in BOOLEAN /\ o.leaked \in BOOLEAN /\ o.oom \in BOOLEAN
  BY <1>10 DEF Good
<1> QED BY <1>3, <1>4, <1>11, <1>12, <1>13, <1>14, <1>15 DEF Good, n

\* No new child: what was there stays.
LEMMA LeavingIsGood ==
  ASSUME NEW N, NEW M, Nil \in M, NEW p, NEW s, NEW q, OnPath(p, s, q), NEW leaf, NEW x, NEW o,
         Good(N, Child(x, s), q, leaf, o), o.ret = Nil
  PROVE  /\ x # Nil \/ Child(x, s) = Nil => Good(M, x, p, leaf, Leaving(o, x))
         /\ x # Nil /\ Child(x, s) = Nil => Good(M, x, p, leaf, Moving(o, x))
<1> DEFINE c == Child(x, s)
<1>1. Fielded(o)
  BY Zenon DEF Good
<1>2. OnPathIs(p, s, q)
  BY OnPaths
<1>3. (CleanPath(p) => CleanPath(q)) /\ Get(x, p) = Get(c, q)
  BY <1>2, Zenon DEF OnPathIs
<1> HIDE DEF c
<1>4. Good(N, c, q, leaf, o)
  BY Zenon DEF c
<1>5. /\ o.ret = Nil /\ ~o.stored /\ o.stored = FALSE /\ (o.moved => c # Nil)
      /\ (CleanPath(p) /\ ~o.oom => ~o.moved /\ c # Nil /\ (o.leaked => Get(x, p) # Nil))
      /\ o.moved \in BOOLEAN /\ o.leaked \in BOOLEAN /\ o.oom \in BOOLEAN
  BY <1>3, <1>4 DEF Good
<1>6. ASSUME x # Nil \/ c = Nil, NEW n, n = Leaving(o, x) PROVE Good(M, x, p, leaf, n)
  <2>1. n = [ret |-> o.ret, old |-> x, moved |-> o.moved,
             stored |-> o.stored, leaked |-> o.leaked, oom |-> o.oom]
    BY <1>1, <1>6, Changes, Zenon
  <2>2. /\ n.ret = o.ret /\ n.old = x /\ n.moved = o.moved /\ n.stored = o.stored
        /\ n.leaked = o.leaked /\ n.oom = o.oom /\ Fielded(n)
    BY <2>1 DEF Fielded
  <2> QED BY <1>5, <1>6, <2>2 DEF Good
<1>7. ASSUME x # Nil, c = Nil, NEW n, n = Moving(o, x) PROVE Good(M, x, p, leaf, n)
  <2>1. n = [ret |-> o.ret, old |-> x, moved |-> TRUE,
             stored |-> o.stored, leaked |-> TRUE, oom |-> o.oom]
    BY <1>1, <1>7, Changes, Zenon
  <2>2. /\ n.ret = o.ret /\ n.old = x /\ n.moved = TRUE /\ n.stored = o.stored
        /\ n.leaked = TRUE /\ n.oom = o.oom /\ Fielded(n)
    BY <2>1 DEF Fielded
  <2> QED BY <1>5, <1>7, <2>2 DEF Good
<1> QED BY <1>6, <1>7, Zenon DEF c

\* Slot j of g, which is x or x grown, is the child of x under s.
Slot(N, M, x, s, g, j) ==
  /\ g.items[j].node = Child(x, s) /\ Nil \in M
  /\ \A y \in N : Sets(x, s, y, WithNode(g, j, y)) /\ WithNode(g, j, y) \in M
  /\ Child(x, s) # Nil => WithNode(g, j, Child(x, s)) = x

AllGood(N, x, p, leaf, outcomes) == \A o \in outcomes : Good(N, x, p, leaf, o)

\* A put into a slot is good if the put below is.
LEMMA SlotIsGood ==
  ASSUME NEW N, NEW M, NEW p, NEW s, NEW q, OnPath(p, s, q), NEW leaf, NEW x, NEW g, NEW j,
         Slot(N, M, x, s, g, j), NEW below, AllGood(N, Child(x, s), q, leaf, below)
  PROVE  AllGood(M, x, p, leaf, PutSlot(g, j, below))
<1> DEFINE c == Child(x, s)
<1>1. /\ g.items[j].node = c /\ Nil \in M
      /\ \A y \in N : Sets(x, s, y, WithNode(g, j, y)) /\ WithNode(g, j, y) \in M
      /\ c # Nil => WithNode(g, j, c) = x
  BY Zenon DEF Slot
<1>2. x = Nil => c = Nil
  BY ChildOfLeaf, Zenon
<1>3. ASSUME NEW n \in PutSlot(g, j, below) PROVE Good(M, x, p, leaf, n)
  <2>1. PICK o \in below : n = IF o.ret = Nil /\ c # Nil
                               THEN Leaving(o, WithNode(g, j, o.old))
                               ELSE Returning(o, WithNode(g, j, o.ret))
    BY <1>1, <1>3, Zenon DEF PutSlot, Leaving, Returning
  <2>2. Good(N, c, q, leaf, o)
    BY Zenon DEF AllGood
  <2>3. o.ret \in N /\ (o.ret = Nil => o.old = c)
    BY <2>2, Zenon DEF Good
  <2>4. CASE o.ret = Nil /\ c # Nil
    <3>1. n = Leaving(o, x)
      BY <1>1, <2>1, <2>3, <2>4, Zenon
    <3>2. x # Nil
      BY <1>2, <2>4
    <3> QED BY <1>1, <2>2, <2>4, <3>1, <3>2, LeavingIsGood, Zenon
  <2>5. CASE ~(o.ret = Nil /\ c # Nil)
    <3>1. n = Returning(o, WithNode(g, j, o.ret))
      BY <2>1, <2>5, Zenon
    <3>2. Sets(x, s, o.ret, WithNode(g, j, o.ret)) /\ WithNode(g, j, o.ret) \in M
      BY <1>1, <2>3
    <3>3. o.ret # Nil \/ c = Nil
      BY <2>5
    <3>4. Good(M, x, p, leaf, Returning(o, WithNode(g, j, o.ret)))
      BY <2>2, <3>2, <3>3, ReturningIsGood, Zenon
    <3> QED BY <3>1, <3>4, Zenon
  <2> QED BY <2>4, <2>5
<1> QED BY <1>3, Zenon DEF AllGood

\* Nodes of a depth, by the trees of the depth before.
Nodes(N, M) ==
  M = Leaves \cup {Nil} \cup Arrays(N) \cup Structs(N) /\ Nil \in N

\* A tree is nothing, a leaf, an array or a struct.
LEMMA NodeKinds ==
  ASSUME NEW N, NEW M, Nodes(N, M), NEW x \in M
  PROVE  /\ x.kind = "nil" <=> x = Nil
         /\ x.kind = "array" <=> x \in Arrays(N)
         /\ x.kind = "struct" <=> x \in Structs(N)
         /\ Nil \in M /\ Arrays(N) \subseteq M /\ Structs(N) \subseteq M
<1>1. /\ x \in Leaves \/ x = Nil \/ x \in Arrays(N) \/ x \in Structs(N)
      /\ Nil \in M /\ Arrays(N) \subseteq M /\ Structs(N) \subseteq M
  BY DEF Nodes
<1>2. x \in Leaves => x.kind \notin {"nil", "array", "struct"}
  BY Kinds DEF LeafKinds
<1>3. Nil.kind = "nil" /\ (x \in Arrays(N) => x.kind = "array") /\ (x \in Structs(N) => x.kind = "struct")
  BY Kinds, Zenon
<1>4. x = Nil => x.kind = "nil"
  BY <1>3, Zenon
<1> QED BY <1>1, <1>2, <1>3, <1>4

\* A put under an index.
LEMMA IndexIsGood ==
  ASSUME NEW N, NEW M, Nodes(N, M), NEW i \in Nat, NEW p, NEW q, OnPath(p, Idx(i), q),
         NEW leaf, NEW x \in M, NEW below, AllGood(N, Child(x, Idx(i)), q, leaf, below)
  PROVE  AllGood(M, x, p, leaf, PutIndex(x, i, below))
<1> DEFINE s == Idx(i)
           base == IF x = Nil THEN NewArray ELSE x
           g == Grown(base, i + 1)
<1>1. Nil \in N /\ Nil \in M /\ Arrays(N) \subseteq M
  BY NodeKinds, Zenon DEF Nodes
<1>2. OnPathIs(p, s, q)
  BY OnPaths
<1>3. s \in Segments /\ (CleanPath(p) => s.index < MaxArray)
  BY <1>2, Zenon DEF OnPathIs
<1>4. s.index = i
  BY DEF Idx
<1>5. NewArray.kind = "array" /\ NewArray.items = <<>>
  BY DEF NewArray, Leaf
<1>6. CASE i >= MaxArray \/ base.kind # "array"
  <2>1. PutIndex(x, i, below) = {Failed(x)}
    BY <1>6, Zenon DEF PutIndex
  <2>2. CleanPath(p) => x # Nil
    <3>1. CleanPath(p) => ~(i >= MaxArray)
      BY <1>3, <1>4, BoundsAssumption
    <3>2. x = Nil => base.kind = "array"
      BY <1>5, Zenon
    <3> QED BY <1>6, <3>1, <3>2, Zenon
  <2>3. Good(M, x, p, leaf, Failed(x))
    BY <1>1, <2>2, FailedIsGood, Zenon
  <2> QED BY <2>1, <2>3, Zenon DEF AllGood
<1>7. CASE i < MaxArray /\ base.kind = "array"
  <2>1. base = NewArray \/ base \in Arrays(N)
    BY <1>7, NodeKinds, Zenon
  <2>2. ArrayLike(base, N)
    BY <2>1, ArrayLikeIs
  <2>3. \A t \in Segments : Child(base, t) = Child(x, t)
    <3>1. CASE x = Nil
      <4>1. \A t : Child(Nil, t) = Nil
        BY ChildOfLeaf, Zenon
      <4>2. ASSUME NEW t \in Segments PROVE Child(NewArray, t) = Nil
        <5>1. Child(NewArray, t) = IF t.index \in 0 .. Len(NewArray.items) - 1
                                     THEN NewArray.items[t.index + 1].node ELSE Nil
          BY <1>5, ArrayChild, Zenon
        <5>2. Len(NewArray.items) = 0
          BY <1>5
        <5>3. ~(t.index \in 0 .. 0 - 1)
          OBVIOUS
        <5> QED BY <5>1, <5>2, <5>3, Zenon
      <4> QED BY <3>1, <4>1, <4>2, Zenon
    <3> QED BY <3>1
  <2>4. Content(x) = <<>>
    <3>1. CASE x = Nil
      BY <3>1, Kinds, Zenon
    <3>2. CASE x # Nil
      <4>1. x \in Arrays(N)
        BY <1>7, <3>2, NodeKinds, Zenon
      <4> QED BY <4>1, Kinds, Zenon
    <3> QED BY <3>1, <3>2
  <2> HIDE DEF base
  <2>5. /\ g \in Arrays(N) /\ i + 1 \in 1 .. Len(g.items)
        /\ \A t \in Segments : Child(g, t) = Child(base, t)
    BY <1>1, <1>7, <2>2, GrownIs, Zenon
  <2>6. PICK j : j = i + 1 /\ j - 1 = i
    OBVIOUS
  <2>7. j \in 1 .. Len(g.items) /\ g.kind = "array"
    BY <2>5, <2>6, Kinds, Zenon
  <2>8. ASSUME NEW y \in N
        PROVE  Sets(x, s, y, WithNode(g, j, y)) /\ WithNode(g, j, y) \in M
    <3>1. Sets(g, s, y, WithNode(g, j, y)) /\ WithNode(g, j, y) \in Arrays(N)
      <4>1. Sets(g, Idx(j - 1), y, WithNode(g, j, y)) /\ WithNode(g, j, y) \in Arrays(N)
        BY <2>5, <2>7, SetsIndex, Zenon
      <4> QED BY <2>6, <4>1, Zenon
    <3> QED BY <1>1, <2>3, <2>4, <2>5, <3>1, Zenon DEF Sets
  <2>9. g.items[j].node = Child(x, s)
    <3>1. Child(g, s) = IF s.index \in 0 .. Len(g.items) - 1 THEN g.items[s.index + 1].node ELSE Nil
      BY <2>7, ArrayChild, Zenon
    <3>2. s.index + 1 = j /\ s.index \in 0 .. Len(g.items) - 1
      BY <1>4, <2>6, <2>7
    <3>3. Child(g, s) = Child(x, s)
      BY <1>3, <2>3, <2>5, Zenon
    <3> QED BY <3>1, <3>2, <3>3, Zenon
  <2>10. ASSUME Child(x, s) # Nil PROVE WithNode(g, j, Child(x, s)) = x
    <3>1. Child(base, s) # Nil
      BY <1>3, <2>3, <2>10, Zenon
    <3>2. base.kind = "array" /\ base.items \in Seq(ItemsOf(NoName, N))
      BY <1>7, <2>2, Zenon DEF ArrayLike
    <3>3. Child(base, s) = IF s.index \in 0 .. Len(base.items) - 1
                             THEN base.items[s.index + 1].node ELSE Nil
      BY <3>2, ArrayChild, Zenon
    <3>4. s.index \in 0 .. Len(base.items) - 1
      BY <3>1, <3>3, Zenon
    <3>5. i + 1 <= Len(base.items)
      BY <1>4, <3>4
    <3>6. base = x
      <4>1. CASE x = Nil
        <5>1. \A t : Child(Nil, t) = Nil
          BY ChildOfLeaf, Zenon
        <5> QED BY <2>10, <4>1, <5>1, Zenon
      <4> QED BY <4>1, Zenon DEF base
    <3>7. Grown(base, i + 1) = base
      BY <2>2, <3>5, GrownSame, Zenon
    <3>8. WithNode(g, j, g.items[j].node) = g
      <4>1. Node(g, "array", "") /\ g.items \in Seq(ItemsOf(NoName, N))
        BY <2>5, ArraysAre, Zenon DEF IsArray
      <4> QED BY <2>7, <4>1, WithNodeSame, Zenon
    <3> QED BY <2>9, <3>6, <3>7, <3>8, Zenon
  <2>11. Slot(N, M, x, s, g, j)
    BY <1>1, <2>8, <2>9, <2>10, Zenon DEF Slot
  <2>12. AllGood(M, x, p, leaf, PutSlot(g, j, below))
    BY <2>11, SlotIsGood, Zenon
  <2>13. \A o \in PutIndex(x, i, below) : o \in PutSlot(g, j, below) \/ o \in OutOfMemory(x)
    <3>1. PutIndex(x, i, below)
            = PutSlot(g, i + 1, below) \cup (IF i + 1 > Len(base.items) THEN OutOfMemory(x) ELSE {})
      <4>1. ~(i >= MaxArray)
        BY <1>7, BoundsAssumption
      <4> QED BY <1>7, <4>1, Zenon DEF PutIndex, base
    <3> QED BY <2>6, <3>1, Zenon
  <2>14. \A o \in OutOfMemory(x) : Good(M, x, p, leaf, o)
    BY <1>1, FailedIsGood, Zenon
  <2> QED BY <2>12, <2>13, <2>14, Zenon DEF AllGood
<1>8. i < MaxArray \/ i >= MaxArray
  BY BoundsAssumption
<1> QED BY <1>6, <1>7, <1>8, Zenon

\* A put under a name that a struct has not.
LEMMA AddedIsGood ==
  ASSUME NEW N, NEW M, Nodes(N, M), NEW n \in Names, NEW p, NEW q, OnPath(p, Key(n), q),
         NEW leaf, NEW x \in M, x.kind \in {"nil", "struct"}, ~(Member(x, n) > 0),
         NEW below, AllGood(N, Child(x, Key(n)), q, leaf, below)
  PROVE  AllGood(M, x, p, leaf, AddMember(x, n, below))
<1> DEFINE s == Key(n)
           base == IF x = Nil THEN NewStruct ELSE x
<1>1. Nil \in N /\ Nil \in M /\ Structs(N) \subseteq M
  BY NodeKinds, Zenon DEF Nodes
<1>2. OnPathIs(p, s, q)
  BY OnPaths
<1>3. s \in Segments
  BY <1>2, Zenon DEF OnPathIs
<1>4. base = NewStruct \/ base \in Structs(N)
  BY NodeKinds
<1>5. StructLike(base, N)
  BY <1>4, StructLikeIs
<1>6. NewStruct.kind = "struct" /\ NewStruct.items = <<>> /\ Nil.items = <<>>
  BY DEF NewStruct, Nil, Leaf
<1>7. x = Nil => x.items = <<>>
  BY <1>6, Zenon
<1>8. \A i \in 1 .. Len(base.items) : base.items[i].name # n
  <2>1. CASE x = Nil
    <3>1. base.items = <<>>
      BY <1>6, <2>1, Zenon
    <3>2. Len(<<>>) = 0 /\ 1 .. 0 = {}
      OBVIOUS
    <3> QED BY <3>1, <3>2, Zenon
  <2>2. CASE x # Nil
    <3>1. base = x /\ x.items \in Seq(ItemsOf(Names, N))
      BY <1>5, <2>2, Zenon DEF StructLike
    <3> DEFINE m == Member(x, n)
    <3>2. \/ m = 0 /\ \A i \in 1 .. Len(x.items) : x.items[i].name # n
          \/ m \in 1 .. Len(x.items) /\ x.items[m].name = n
      BY <3>1, MemberFinds, Zenon
    <3>3. ~(m \in 1 .. Len(x.items))
      <4>1. ~(m > 0)
        OBVIOUS
      <4> HIDE DEF m
      <4> QED BY <4>1
    <3> QED BY <3>1, <3>2, <3>3, Zenon
  <2> QED BY <2>1, <2>2
<1>9. \A t \in Segments : Child(base, t) = Child(x, t)
  <2>1. CASE x = Nil
    <3>1. \A t : Child(Nil, t) = Nil
      BY ChildOfLeaf, Zenon
    <3>2. ASSUME NEW t \in Segments PROVE Child(NewStruct, t) = Nil
      <4>1. NewStruct.items \in Seq(N) /\ Named(NewStruct.items) /\ Len(NewStruct.items) = 0
        BY <1>6 DEF Named
      <4>2. \A i \in 1 .. Len(NewStruct.items) : NewStruct.items[i].name # t.name
        BY <4>1
      <4> QED BY <1>6, <4>1, <4>2, StructChild, Zenon
    <3> QED BY <2>1, <3>1, <3>2, Zenon
  <2> QED BY <2>1
<1>10. Content(x) = <<>>
  <2>1. x = Nil \/ x \in Structs(N)
    BY NodeKinds
  <2> QED BY <2>1, Kinds, Zenon
<1>11. Child(x, s) = Nil
  <2>1. base.kind = "struct" /\ base.items \in Seq(ItemsOf(Names, N)) /\ Named(base.items)
    BY <1>5, Zenon DEF StructLike
  <2>2. s.name = n
    BY DEF Key
  <2>3. Child(base, s) = Nil
    BY <1>3, <1>8, <2>1, <2>2, StructChild, Zenon
  <2> QED BY <1>3, <1>9, <2>3, Zenon
<1>12. ASSUME NEW y \in N
       PROVE  Sets(x, s, y, WithMember(base, n, y)) /\ WithMember(base, n, y) \in M
  <2>1. Sets(base, s, y, WithMember(base, n, y)) /\ WithMember(base, n, y) \in Structs(N)
    BY <1>5, <1>8, AddsMember, Zenon
  <2> QED BY <1>1, <1>9, <1>10, <2>1, Zenon DEF Sets
<1>13. \A o \in OutOfMemory(x) : Good(M, x, p, leaf, o)
  BY <1>1, FailedIsGood, Zenon
<1>14. \A o \in below \cup OutOfMemory(Nil) : Good(N, Nil, q, leaf, o)
  <2>1. \A o \in below : Good(N, Nil, q, leaf, o)
    BY <1>11, Zenon DEF AllGood
  <2>2. \A o \in OutOfMemory(Nil) : Good(N, Nil, q, leaf, o)
    BY <1>1, FailedIsGood, Zenon
  <2> QED BY <2>1, <2>2, Zenon
<1>15. ASSUME NEW o, Good(N, Nil, q, leaf, o), o.ret # Nil
       PROVE  Good(M, x, p, leaf, Added(base, n, o))
  <2>1. o.ret \in N
    BY <1>15, Zenon DEF Good
  <2>2. Added(base, n, o) = Returning(o, WithMember(base, n, o.ret))
    BY Zenon DEF Added, Returning, WithMember
  <2>3. Good(N, Child(x, s), q, leaf, o)
    BY <1>11, <1>15, Zenon
  <2>4. Good(M, x, p, leaf, Returning(o, WithMember(base, n, o.ret)))
    BY <1>12, <1>15, <2>1, <2>3, ReturningIsGood, Zenon
  <2> QED BY <2>2, <2>4, Zenon
<1>16. ASSUME NEW o, Good(N, Nil, q, leaf, o), o.ret = Nil, NEW e \in NotAdded(x, o)
       PROVE  Good(M, x, p, leaf, e)
  <2>1. e = Leaving(o, x) \/ (x # Nil /\ e = Moving(o, x))
    BY <1>16, Zenon DEF NotAdded, Leaving, Moving
  <2>2. Good(N, Child(x, s), q, leaf, o)
    BY <1>11, <1>16, Zenon
  <2>3. /\ Good(M, x, p, leaf, Leaving(o, x))
        /\ x # Nil => Good(M, x, p, leaf, Moving(o, x))
    BY <1>1, <1>11, <1>16, <2>2, LeavingIsGood, Zenon
  <2> QED BY <2>1, <2>3, Zenon
<1> HIDE DEF base
<1>17. \A e \in AddMember(x, n, below) :
         e \in OutOfMemory(x)
           \/ \E o \in below \cup OutOfMemory(Nil) :
                IF o.ret # Nil THEN e = Added(base, n, o) ELSE e \in NotAdded(x, o)
  BY Zenon DEF AddMember, base
<1>18. ASSUME NEW e \in AddMember(x, n, below) PROVE Good(M, x, p, leaf, e)
  <2>1. CASE e \in OutOfMemory(x)
    BY <1>13, <2>1, Zenon
  <2>2. CASE \E o \in below \cup OutOfMemory(Nil) :
               IF o.ret # Nil THEN e = Added(base, n, o) ELSE e \in NotAdded(x, o)
    <3>1. PICK o \in below \cup OutOfMemory(Nil) :
                 IF o.ret # Nil THEN e = Added(base, n, o) ELSE e \in NotAdded(x, o)
      BY <2>2, Zenon
    <3>2. Good(N, Nil, q, leaf, o)
      BY <1>14, Zenon
    <3>3. CASE o.ret # Nil
      BY <1>15, <3>1, <3>2, <3>3, Zenon
    <3>4. CASE o.ret = Nil
      BY <1>16, <3>1, <3>2, <3>4, Zenon
    <3> QED BY <3>3, <3>4
  <2> QED BY <1>17, <1>18, <2>1, <2>2, Zenon
<1> QED BY <1>18, Zenon DEF AllGood

\* A put under a name.
LEMMA NameIsGood ==
  ASSUME NEW N, NEW M, Nodes(N, M), NEW n \in Names, NEW p, NEW q, OnPath(p, Key(n), q),
         NEW leaf, NEW x \in M, NEW below, AllGood(N, Child(x, Key(n)), q, leaf, below)
  PROVE  AllGood(M, x, p, leaf, PutName(x, n, below))
<1> DEFINE s == Key(n)
           j == Member(x, n)
<1>1. Nil \in N /\ Nil \in M /\ Structs(N) \subseteq M
  BY NodeKinds, Zenon DEF Nodes
<1>2. CASE x.kind \notin {"nil", "struct"}
  <2>1. PutName(x, n, below) = {Failed(x)}
    BY <1>2, Zenon DEF PutName
  <2>2. x # Nil
    BY <1>2, NodeKinds
  <2>3. Good(M, x, p, leaf, Failed(x))
    BY <1>1, <2>2, FailedIsGood, Zenon
  <2> QED BY <2>1, <2>3, Zenon DEF AllGood
<1>3. CASE x.kind \in {"nil", "struct"} /\ ~(j > 0)
  <2>1. PutName(x, n, below) = AddMember(x, n, below)
    BY <1>3, Zenon DEF PutName
  <2>2. AllGood(M, x, p, leaf, AddMember(x, n, below))
    BY <1>3, AddedIsGood, Zenon
  <2> QED BY <2>1, <2>2, Zenon
<1>4. CASE x.kind \in {"nil", "struct"} /\ j > 0
  <2>1. PutName(x, n, below) = PutSlot(x, j, below)
    BY <1>4, Zenon DEF PutName
  <2>2. Nil.items = <<>>
    BY DEF Nil, Leaf
  <2>3. x = Nil => x.items \in Seq(N) /\ Len(x.items) = 0
    <3>1. <<>> \in Seq(N) /\ Len(<<>>) = 0
      OBVIOUS
    <3> QED BY <2>2, <3>1, Zenon
  <2>4. x # Nil
    <3> SUFFICES ASSUME x = Nil PROVE FALSE
      OBVIOUS
    <3>1. x.items \in Seq(N) /\ Len(x.items) = 0
      BY <2>3, Zenon
    <3>2. j = 0 \/ j \in 1 .. Len(x.items)
      BY <3>1, MemberFinds, Zenon
    <3> HIDE DEF j
    <3> QED BY <1>4, <3>1, <3>2
  <2>5. x \in Structs(N)
    <3>1. x.kind \in {"nil", "struct"}
      BY <1>4, Zenon
    <3> QED BY <2>4, <3>1, NodeKinds
  <2>6. /\ Node(x, "struct", "") /\ x.kind = "struct"
        /\ x.items \in Seq(ItemsOf(Names, N)) /\ Named(x.items)
    BY <2>5, StructsAre, Zenon DEF IsStruct
  <2>7. j \in 1 .. Len(x.items) /\ x.items[j].name = n
    <3>1. j = 0 \/ (j \in 1 .. Len(x.items) /\ x.items[j].name = n)
      BY <2>6, MemberFinds, Zenon
    <3>2. j # 0
      <4>1. j > 0
        BY <1>4, Zenon
      <4> HIDE DEF j
      <4> QED BY <4>1
    <3> QED BY <3>1, <3>2, Zenon
  <2>8. \A y \in N : Sets(x, s, y, WithNode(x, j, y)) /\ WithNode(x, j, y) \in M
    BY <1>1, <2>5, <2>7, SetsMember, Zenon
  <2>9. x.items[j].node = Child(x, s)
    <3>1. OnPathIs(p, s, q)
      BY OnPaths
    <3>2. s \in Segments
      BY <3>1, Zenon DEF OnPathIs
    <3>3. s.index = -1 /\ s.name = n
      BY DEF Key
    <3>4. s.index < 0
      BY <3>3
    <3>5. s.name = n
      BY <3>3, Zenon
    <3> QED BY <2>6, <2>7, <3>2, <3>4, <3>5, StructChild, Zenon
  <2>10. WithNode(x, j, x.items[j].node) = x
    BY <2>6, <2>7, WithNodeSame, Zenon
  <2>11. Slot(N, M, x, s, x, j)
    BY <1>1, <2>8, <2>9, <2>10, Zenon DEF Slot
  <2>12. AllGood(M, x, p, leaf, PutSlot(x, j, below))
    BY <2>11, SlotIsGood, Zenon
  <2> QED BY <2>1, <2>12, Zenon
<1> QED BY <1>2, <1>3, <1>4, Zenon

\* One segment more.
LEMMA IntoIsGood ==
  ASSUME NEW N, NEW M, Nodes(N, M), NEW s, NEW p, NEW q, OnPath(p, s, q),
         NEW leaf, NEW x \in M, NEW below, AllGood(N, Child(x, s), q, leaf, below)
  PROVE  AllGood(M, x, p, leaf, PutInto(x, s, below))
<1>1. OnPathIs(p, s, q)
  BY OnPaths
<1>2. s \in Segments /\ (CleanPath(p) => s # NoSegment)
  BY <1>1, Zenon DEF OnPathIs
<1>3. /\ s.index \in Int /\ s.name \in STRING
      /\ \A i \in Nat : s = Idx(i) <=> s.index = i
      /\ s.index >= 0 <=> ~(s.index < 0)
      /\ s.index < 0 => s = Key(s.name)
  BY <1>2, SegmentsAre, Zenon
<1>4. CASE s = NoSegment
  <2>1. Nil \in M
    BY NodeKinds, Zenon
  <2>2. PutInto(x, s, below) = {Failed(x)} /\ ~CleanPath(p)
    BY <1>2, <1>4, Zenon DEF PutInto
  <2>3. Good(M, x, p, leaf, Failed(x))
    BY <2>1, <2>2, FailedIsGood, Zenon
  <2> QED BY <2>2, <2>3, Zenon DEF AllGood
<1>5. CASE s # NoSegment /\ s.index >= 0
  <2>1. PICK i \in Nat : i = s.index
    BY <1>3, <1>5
  <2>2. s = Idx(i)
    BY <1>3, <2>1, Zenon
  <2>3. PutInto(x, s, below) = PutIndex(x, i, below)
    BY <1>5, <2>1, Zenon DEF PutInto
  <2>4. AllGood(M, x, p, leaf, PutIndex(x, i, below))
    BY <2>2, IndexIsGood, Zenon
  <2> QED BY <2>3, <2>4, Zenon
<1>6. CASE s # NoSegment /\ s.index < 0
  <2>1. PICK n : n = s.name
    BY Zenon
  <2>2. s = Key(n) /\ n \in STRING
    BY <1>3, <1>6, <2>1, Zenon
  <2>3. n \in Names
    BY <1>6, <2>2, Zenon DEF Names, NoSegment
  <2>4. PutInto(x, s, below) = PutName(x, n, below)
    BY <1>3, <1>6, <2>1, Zenon DEF PutInto
  <2>5. AllGood(M, x, p, leaf, PutName(x, n, below))
    BY <2>2, <2>3, NameIsGood, Zenon
  <2> QED BY <2>4, <2>5, Zenon
<1> QED BY <1>3, <1>4, <1>5, <1>6, Zenon

-----------------------------------------------------------------------------
(* A put, down its whole path                                              *)

\* The last k segments of a path, and one more.
LEMMA SuffixIs ==
  ASSUME NEW path \in Seq(Segments), NEW k \in Nat, k + 1 <= Len(path)
  PROVE  OnPath(SubSeq(path, Len(path) - (k + 1) + 1, Len(path)),
                path[Len(path) - (k + 1) + 1],
                SubSeq(path, Len(path) - k + 1, Len(path)))
<1> DEFINE n == Len(path)
           a == n - (k + 1) + 1
           p == SubSeq(path, a, n)
           q == SubSeq(path, n - k + 1, n)
<1>1. n \in Nat /\ a \in 1 .. n /\ n - k + 1 = a + 1 /\ a + k = n /\ n = Len(path)
  OBVIOUS
<1> HIDE DEF n, a
<1>2. p \in Seq(Segments) /\ Len(p) = k + 1 /\ \A i \in 1 .. k + 1 : p[i] = path[a + i - 1]
  BY <1>1
<1>3. SubSeq(path, a + 1, n) \in Seq(Segments) /\ Len(SubSeq(path, a + 1, n)) = k
      /\ \A i \in 1 .. k : SubSeq(path, a + 1, n)[i] = path[(a + 1) + i - 1]
  BY <1>1
<1>4. q = SubSeq(path, a + 1, n)
  BY <1>1
<1> HIDE DEF p, q
<1>5. q \in Seq(Segments) /\ Len(q) = k /\ \A i \in 1 .. k : q[i] = path[(a + 1) + i - 1]
  BY <1>3, <1>4
<1>6. p # <<>> /\ p[1] = path[a]
  <2>1. 1 \in 1 .. k + 1 /\ a + 1 - 1 = a
    BY <1>1
  <2>2. Len(p) # 0
    BY <1>2
  <2> QED BY <1>2, <2>1, <2>2
<1>7. PICK r : r = Tail(p)
  OBVIOUS
<1>8. Rest(r, p)
  BY <1>2, <1>6, <1>7, TailIsRest
<1>9. r \in Seq(Segments) /\ Len(r) = k /\ \A i \in 1 .. k : r[i] = p[i + 1]
  <2>1. /\ r \in Seq(Segments) /\ Len(p) = Len(r) + 1
        /\ \A i \in 1 .. Len(r) : r[i] = p[i + 1]
    BY <1>8, Zenon DEF Rest
  <2>2. Len(r) = k
    BY <1>2, <2>1
  <2> QED BY <2>1, <2>2, Zenon
<1>10. ASSUME NEW i \in 1 .. k PROVE r[i] = q[i]
  <2>1. PICK j : j = i + 1
    OBVIOUS
  <2>2. j \in 1 .. k + 1 /\ a + j - 1 = (a + 1) + i - 1
    BY <1>1, <2>1
  <2>3. r[i] = p[j]
    BY <1>9, <2>1
  <2>4. p[j] = path[a + j - 1] /\ q[i] = path[(a + 1) + i - 1]
    BY <1>2, <1>5, <2>2
  <2> QED BY <2>2, <2>3, <2>4
<1>11. q = r
  BY <1>5, <1>9, <1>10
<1>12. OnPath(p, path[a], q)
  BY <1>2, <1>6, <1>7, <1>11, Zenon DEF OnPath
<1> QED BY <1>12, Zenon DEF p, q, a, n

\* The suffix of length 0, and the one of the whole length.
LEMMA AllOfIt ==
  ASSUME NEW path \in Seq(Segments)
  PROVE  /\ SubSeq(path, Len(path) - 0 + 1, Len(path)) = <<>>
         /\ SubSeq(path, Len(path) - Len(path) + 1, Len(path)) = path
<1>1. Len(path) - 0 + 1 = Len(path) + 1 /\ Len(path) - Len(path) + 1 = 1
  OBVIOUS
<1>2. SubSeq(path, Len(path) + 1, Len(path)) = <<>>
  OBVIOUS
<1>3. SubSeq(path, 1, Len(path)) = path
  OBVIOUS
<1> QED BY <1>1, <1>2, <1>3, Zenon

\* In no document there is nothing to read.
LEMMA NothingInNil ==
  ASSUME NEW path, Len(path) \in Nat
  PROVE  Get(Nil, path) = Nil /\ Read(Nil, path) = <<>>
<1> DEFINE at == Reached(Nil, path)
           T == {i \in Nat : at[i] = Nil}
<1>1. at[0] = Nil /\ \A n \in Nat : at[n + 1] = Child(at[n], path[n + 1])
  BY ReachedIs
<1>2. \A s : Child(Nil, s) = Nil
  BY ChildOfLeaf
<1> HIDE DEF at
<1>3. 0 \in T
  BY <1>1
<1>4. ASSUME NEW n \in Nat, n \in T PROVE n + 1 \in T
  <2>1. at[n + 1] = Nil
    BY <1>1, <1>2, <1>4, Zenon
  <2> QED BY <2>1
<1> HIDE DEF T
<1>5. \A n \in Nat : n \in T
  BY <1>3, <1>4, NatSetInduction
<1>6. at[Len(path)] = Nil
  BY <1>5 DEF T
<1> QED BY <1>6, Kinds, Zenon DEF Get, Read, at

\* A child is a tree, too.
LEMMA ChildIn ==
  ASSUME NEW N, NEW M, Nodes(N, M), NEW x \in M, NEW s \in Segments
  PROVE  Child(x, s) \in N
<1>1. x = Nil \/ x \in Leaves \/ x \in Arrays(N) \/ x \in Structs(N)
  BY DEF Nodes
<1>2. Nil \in N
  BY DEF Nodes
<1>3. CASE x = Nil \/ x \in Leaves
  <2>1. Child(x, s) = Nil
    BY <1>3, ChildOfLeaf
  <2> QED BY <1>2, <2>1
<1>4. CASE x \in Arrays(N)
  <2>1. x.kind = "array" /\ x.items \in Seq(ItemsOf(NoName, N))
    BY <1>4, ArraysAre, Zenon DEF IsArray
  <2>2. Child(x, s) = IF s.index \in 0 .. Len(x.items) - 1 THEN x.items[s.index + 1].node ELSE Nil
    BY <2>1, ArrayChild, Zenon
  <2>3. s.index \in 0 .. Len(x.items) - 1 => x.items[s.index + 1] \in ItemsOf(NoName, N)
    BY <2>1
  <2>4. s.index \in 0 .. Len(x.items) - 1 => x.items[s.index + 1].node \in N
    BY <2>3, Items, Zenon
  <2> QED BY <1>2, <2>2, <2>4
<1>5. CASE x \in Structs(N)
  <2>1. x.kind = "struct" /\ x.items \in Seq(ItemsOf(Names, N)) /\ Named(x.items)
    BY <1>5, StructsAre, Zenon DEF IsStruct
  <2>2. /\ \A i \in 1 .. Len(x.items) :
             s.index < 0 /\ x.items[i].name = s.name => Child(x, s) = x.items[i].node
        /\ s.index >= 0 \/ (\A i \in 1 .. Len(x.items) : x.items[i].name # s.name)
             => Child(x, s) = Nil
    BY <2>1, StructChild, Zenon
  <2>3. s.index >= 0 <=> ~(s.index < 0)
    BY SegmentsAre, Zenon
  <2>4. \A i \in 1 .. Len(x.items) : x.items[i] \in ItemsOf(Names, N)
    BY <2>1
  <2>5. \A i \in 1 .. Len(x.items) : x.items[i].node \in N
    BY <2>4, Items, Zenon
  <2> QED BY <1>2, <2>2, <2>3, <2>5, Zenon
<1> QED BY <1>1, <1>3, <1>4, <1>5

\* The trees of two depths that follow each other.
LEMMA DepthsAre ==
  ASSUME NEW d \in Nat
  PROVE  Nodes(Trees(d), Trees(d + 1))
BY TreesFrom, Zenon DEF Nodes

\* What a path reaches is a tree, less deep by its segments.
LEMMA ReachedIn ==
  ASSUME NEW node \in Trees(MaxDepth), NEW path \in Seq(Segments), Len(path) <= MaxDepth
  PROVE  \A i \in Nat : i <= Len(path) => Reached(node, path)[i] \in Trees(MaxDepth - i)
<1> DEFINE at == Reached(node, path)
           T == {i \in Nat : i <= Len(path) => at[i] \in Trees(MaxDepth - i)}
<1>1. at[0] = node /\ \A n \in Nat : at[n + 1] = Child(at[n], path[n + 1])
  BY ReachedIs
<1>2. MaxDepth \in Nat
  BY BoundsAssumption
<1> HIDE DEF at
<1>3. 0 \in T
  <2>1. MaxDepth - 0 = MaxDepth
    BY <1>2
  <2> QED BY <1>1, <2>1
<1>4. ASSUME NEW n \in Nat, n \in T PROVE n + 1 \in T
  <2> SUFFICES ASSUME n + 1 <= Len(path) PROVE at[n + 1] \in Trees(MaxDepth - (n + 1))
    OBVIOUS
  <2>1. PICK d \in Nat : d = MaxDepth - (n + 1) /\ MaxDepth - n = d + 1 /\ n <= Len(path)
    BY <1>2
  <2>2. at[n] \in Trees(d + 1)
    BY <1>4, <2>1
  <2>3. path[n + 1] \in Segments
    OBVIOUS
  <2>4. Child(at[n], path[n + 1]) \in Trees(d)
    BY <2>2, <2>3, ChildIn, DepthsAre, Zenon
  <2> QED BY <1>1, <2>1, <2>4
<1> HIDE DEF T
<1>5. \A n \in Nat : n \in T
  BY <1>3, <1>4, NatSetInduction
<1> QED BY <1>5 DEF T, at

\* The end of the path.
LEMMA LeafIsGood ==
  ASSUME NEW d \in Nat, NEW x, NEW leaf \in Leaves
  PROVE  AllGood(Trees(d), x, <<>>, leaf, PutLeaf(x, leaf))
<1>1. Nil \in Trees(d) /\ leaf \in Trees(d) /\ leaf # Nil
  <2>1. leaf # Nil
    BY Kinds
  <2> QED BY <2>1, TreesFrom, Zenon
<1>2. ASSUME NEW o, o = [Failed(x) EXCEPT !.ret = leaf, !.stored = TRUE, !.leaked = (x # Nil)]
      PROVE  Good(Trees(d), x, <<>>, leaf, o)
  <2>1. PICK t, l : t = TRUE /\ l = (x # Nil)
    OBVIOUS
  <2>2. o = [Failed(x) EXCEPT !.ret = leaf, !.stored = t, !.leaked = l]
    BY <1>2, <2>1, Zenon
  <2>3. o = [ret |-> leaf, old |-> x, moved |-> FALSE, stored |-> t, leaked |-> l, oom |-> FALSE]
    BY <2>2 DEF Failed
  <2>4. /\ o.ret = leaf /\ o.moved = FALSE /\ o.stored = t /\ o.leaked = l /\ o.oom = FALSE
        /\ Fielded(o)
    BY <2>3 DEF Fielded
  <2>5. Reads(x, <<>>, leaf, leaf)
    <3>1. ASSUME NEW q \in Seq(Segments)
          PROVE  Read(leaf, q) = IF q = <<>> THEN Content(leaf)
                                 ELSE IF IsPrefix(<<>>, q) THEN <<>> ELSE Read(x, q)
      <4>1. CASE q = <<>>
        BY <4>1, GetHere, Zenon DEF Read
      <4>2. CASE q # <<>>
        <5>1. IsPrefix(<<>>, q)
          <6>1. <<>> \in Seq(Segments) /\ Len(<<>>) = 0 /\ Len(q) \in Nat
            OBVIOUS
          <6>2. Len(<<>>) <= Len(q) /\ \A i \in 1 .. Len(<<>>) : <<>>[i] = q[i]
            BY <6>1
          <6> QED BY <6>1, <6>2, PrefixIs, Zenon
        <5>2. PICK r \in Seq(Segments) : r = Tail(q)
          BY <4>2, TailIsRest, Zenon DEF Rest
        <5>3. Get(leaf, q) = Get(Child(leaf, q[1]), r)
          BY <4>2, <5>2, GetFrom, Zenon
        <5>4. Child(leaf, q[1]) = Nil
          BY ChildOfLeaf, Zenon
        <5>5. Len(r) \in Nat
          OBVIOUS
        <5>6. Content(Get(leaf, q)) = <<>>
          <6>1. Get(Nil, r) = Nil
            BY <5>5, NothingInNil, Zenon
          <6> QED BY <5>3, <5>4, <6>1, Kinds, Zenon
        <5> QED BY <4>2, <5>1, <5>6, Zenon DEF Read
      <4> QED BY <4>1, <4>2
    <3> QED BY <3>1, Zenon DEF Reads
  <2>6. Get(x, <<>>) = x
    BY GetHere, Zenon
  <2> QED BY <1>1, <2>1, <2>4, <2>5, <2>6, Zenon DEF Good
<1>3. \A o \in OutOfMemory(x) : Good(Trees(d), x, <<>>, leaf, o)
  BY <1>1, FailedIsGood, Zenon
<1> QED BY <1>2, <1>3, Zenon DEF AllGood, PutLeaf

\* Every put is good.
LEMMA PutIsGood ==
  ASSUME NEW node \in Trees(MaxDepth), NEW path \in Seq(Segments), Len(path) <= MaxDepth,
         NEW leaf \in Leaves
  PROVE  AllGood(Trees(MaxDepth), node, path, leaf, Put(node, path, leaf))
<1> DEFINE n == Len(path)
           at == Reached(node, path)
           d == MaxDepth - n
<1>2. n \in Nat /\ d \in Nat /\ MaxDepth = d + n
  BY BoundsAssumption
<1>3. PICK put : Puts(put, at, n, node, path, leaf)
  BY PutIs, Zenon
<1>4. /\ at[0] = node
      /\ \A k \in Nat : at[k + 1] = Child(at[k], path[k + 1])
  <2>1. \A x, y : /\ Reached(x, y)[0] = x
                   /\ \A k \in Nat : Reached(x, y)[k + 1] = Child(Reached(x, y)[k], y[k + 1])
    BY ReachedIs, Zenon
  <2> QED BY <2>1, Zenon
<1>12. \A k \in Nat : k <= n => at[k] \in Trees(MaxDepth - k)
  BY ReachedIn, Zenon
<1> DEFINE suffix(k) == SubSeq(path, n - k + 1, n)
           T == {k \in Nat : k <= n =>
                   AllGood(Trees(d + k), at[n - k], suffix(k), leaf, put[k])}
<1>5. suffix(0) = <<>> /\ suffix(n) = path
  BY AllOfIt, Zenon
<1>6. \A k \in Nat : k + 1 <= n => OnPath(suffix(k + 1), path[n - (k + 1) + 1], suffix(k))
  BY SuffixIs, Zenon
<1> HIDE DEF suffix, n, at, d
<1>7. 0 \in T
  <2>1. d + 0 = d /\ n - 0 = n
    BY <1>2
  <2>2. AllGood(Trees(d), at[n], <<>>, leaf, put[0])
    BY <1>2, <1>3, LeafIsGood, Zenon DEF Puts
  <2>3. AllGood(Trees(d + 0), at[n - 0], suffix(0), leaf, put[0])
    BY <1>5, <2>1, <2>2, Zenon
  <2> QED BY <2>3
<1>8. ASSUME NEW k \in Nat, k \in T PROVE k + 1 \in T
  <2> SUFFICES ASSUME k + 1 <= n
               PROVE  AllGood(Trees(d + (k + 1)), at[n - (k + 1)], suffix(k + 1), leaf, put[k + 1])
    OBVIOUS
  <2>1. PICK j \in Nat : j = n - (k + 1)
    BY <1>2
  <2>2. n - k = j + 1 /\ k <= n /\ j <= n
    BY <1>2, <2>1
  <2>3. PICK e \in Nat : e = d + k
    BY <1>2
  <2>4. d + (k + 1) = e + 1 /\ MaxDepth - j = e + 1
    BY <1>2, <2>1, <2>3
  <2>5. at[j] \in Trees(e + 1)
    BY <1>12, <2>2, <2>4
  <2>6. at[n - k] = Child(at[j], path[j + 1])
    BY <1>4, <2>2, Zenon
  <2>7. AllGood(Trees(e), Child(at[j], path[j + 1]), suffix(k), leaf, put[k])
    <3>1. AllGood(Trees(d + k), at[n - k], suffix(k), leaf, put[k])
      BY <1>8, <2>2
    <3> QED BY <2>3, <2>6, <3>1, Zenon
  <2>8. OnPath(suffix(k + 1), path[j + 1], suffix(k))
    BY <1>6, <2>1, Zenon
  <2>9. AllGood(Trees(e + 1), at[j], suffix(k + 1), leaf, PutInto(at[j], path[j + 1], put[k]))
    BY <2>5, <2>7, <2>8, IntoIsGood, DepthsAre, Zenon
  <2>10. put[k + 1] = PutInto(at[j], path[j + 1], put[k])
    BY <1>3, <2>1, Zenon DEF Puts
  <2> QED BY <2>1, <2>4, <2>9, <2>10, Zenon
<1> HIDE DEF T
<1>9. \A k \in Nat : k \in T
  BY <1>7, <1>8, NatSetInduction
<1>10. AllGood(Trees(d + n), at[n - n], suffix(n), leaf, put[n])
  <2>1. n <= n
    BY <1>2
  <2> QED BY <1>2, <1>9, <2>1, Zenon DEF T
<1>11. d + n = MaxDepth /\ n - n = 0
  BY <1>2
<1> QED BY <1>3, <1>4, <1>5, <1>10, <1>11, Zenon DEF Puts

-----------------------------------------------------------------------------
(* The inductive invariant                                                 *)

\* What every put keeps: the tree is one that puts make, it reads as what is
\* stored, and clean use is safe.
WddxInv ==
  /\ data \in Trees(MaxDepth)
  /\ stored = [p \in Paths |-> Read(data, p)]
  /\ dangling \in BOOLEAN /\ honest \in BOOLEAN /\ leaked \in BOOLEAN /\ over \in BOOLEAN
  /\ clean \in BOOLEAN /\ oom \in BOOLEAN
  /\ CleanUseIsSafe

\* No document is regular, and nothing reads from it.
LEMMA NilIsEmpty ==
  Nil \in Trees(MaxDepth) /\ [p \in Paths |-> <<>>] = [p \in Paths |-> Read(Nil, p)]
<1>1. Nil \in Trees(MaxDepth)
  BY BoundsAssumption, TreesFrom
<1>2. \A p \in Paths : Read(Nil, p) = <<>>
  <2> TAKE p \in Paths
  <2>1. Len(p) \in Nat
    BY PathsAssumption
  <2> QED BY <2>1, NothingInNil
<1> QED BY <1>1, <1>2

\* It holds at first.
LEMMA InitInv ==
  Init => WddxInv
<1> SUFFICES ASSUME Init PROVE WddxInv
  OBVIOUS
<1>1. /\ data = Nil /\ dangling = FALSE /\ stored = [p \in Paths |-> <<>>]
      /\ honest = TRUE /\ clean = TRUE /\ oom = FALSE /\ leaked = FALSE /\ over = FALSE
  BY DEF Init
<1>2. data \in Trees(MaxDepth) /\ stored = [p \in Paths |-> Read(data, p)]
  BY <1>1, NilIsEmpty, Zenon
<1> QED BY <1>1, <1>2 DEF WddxInv, CleanUseIsSafe

\* The leaf of a value, and what it reads as.
LEMMA ValueIs ==
  ASSUME NEW v \in Values
  PROVE  Leaf(v[1], v[2]) \in Leaves /\ Content(Leaf(v[1], v[2])) = v
<1>1. Leaf(v[1], v[2]) \in Leaves
  BY Zenon DEF Leaves
<1>2. Leaf(v[1], v[2]).kind = v[1] /\ Leaf(v[1], v[2]).text = v[2]
  BY DEF Leaf
<1>3. v = <<v[1], v[2]>>
  BY ValuesAssumption
<1>4. Content(Leaf(v[1], v[2])) = <<v[1], v[2]>>
  BY <1>1, <1>2, Kinds, Zenon
<1> QED BY <1>1, <1>3, <1>4, Zenon

\* A put keeps it.
LEMMA PutInv ==
  ASSUME WddxInv, NEW p \in Paths, NEW v \in Values, WddxPut(p, v)
  PROVE  WddxInv'
<1> DEFINE leaf == Leaf(v[1], v[2])
           M == Trees(MaxDepth)
<1>1. leaf \in Leaves /\ Content(leaf) = v
  BY ValueIs, Zenon
<1>2. p \in Seq(Segments) /\ Len(p) <= MaxDepth /\ \A q \in Paths : q \in Seq(Segments)
  BY PathsAssumption
<1>3. data \in M /\ stored = [q \in Paths |-> Read(data, q)]
  BY Zenon DEF WddxInv
<1>4. AllGood(M, data, p, leaf, Put(data, p, leaf))
  BY <1>1, <1>2, <1>3, PutIsGood, Zenon
<1> HIDE DEF leaf, M
<1>5. PICK o \in Put(data, p, leaf) :
        /\ told' = (o.ret # Nil)
        /\ data' = IF o.ret = Nil THEN o.old ELSE o.ret
        /\ dangling' = o.moved
        /\ stored' = IF ~o.stored THEN stored
                     ELSE [q \in Paths |-> IF q = p THEN v
                                           ELSE IF IsPrefix(p, q) THEN <<>>
                                           ELSE stored[q]]
        /\ honest' = (honest /\ told' = o.stored)
        /\ leaked' = (leaked \/ o.leaked)
        /\ over' = (over \/ Get(data, p) # Nil)
        /\ oom' = (oom \/ o.oom)
  BY Zenon DEF WddxPut, leaf
<1>6. clean' = (clean /\ CleanPath(p))
  BY Zenon DEF WddxPut
<1>7. Good(M, data, p, leaf, o)
  BY <1>4, Zenon DEF AllGood
<1>8. /\ o.ret \in M /\ (o.ret = Nil => o.old = data /\ ~o.stored)
      /\ (o.stored => Reads(data, p, leaf, o.ret))
      /\ (~o.stored /\ o.ret # Nil => Same(data, o.ret))
  BY <1>7, Zenon DEF Good
<1>9. o.moved \in BOOLEAN /\ o.stored \in BOOLEAN /\ o.leaked \in BOOLEAN /\ o.oom \in BOOLEAN
  BY <1>7, Zenon DEF Good
<1>10. data' \in M
  BY <1>3, <1>5, <1>8, Zenon
<1>11. stored' = [q \in Paths |-> Read(data', q)]
  <2>1. CASE o.stored
    <3>1. data' = o.ret
      BY <1>5, <1>8, <2>1, Zenon
    <3>2. \A q \in Paths : Read(o.ret, q) = IF q = p THEN v
                                            ELSE IF IsPrefix(p, q) THEN <<>>
                                            ELSE Read(data, q)
      BY <1>1, <1>2, <1>8, <2>1, Zenon DEF Reads
    <3>3. \A q \in Paths : stored[q] = Read(data, q)
      BY <1>3, Zenon
    <3>4. stored' = [q \in Paths |-> IF q = p THEN v
                                     ELSE IF IsPrefix(p, q) THEN <<>>
                                     ELSE stored[q]]
      BY <1>5, <2>1, Zenon
    <3>5. stored' = [q \in Paths |-> Read(o.ret, q)]
      BY <3>2, <3>3, <3>4
    <3> QED BY <3>1, <3>5, Zenon
  <2>2. CASE ~o.stored
    <3>1. \A q \in Paths : Read(data', q) = Read(data, q)
      <4>1. CASE o.ret = Nil
        BY <1>5, <1>8, <4>1, Zenon
      <4>2. CASE o.ret # Nil
        <5>1. data' = o.ret /\ Same(data, o.ret)
          BY <1>5, <1>8, <2>2, <4>2, Zenon
        <5> QED BY <1>2, <5>1, Zenon DEF Same
      <4> QED BY <4>1, <4>2
    <3>2. stored' = stored
      BY <1>5, <2>2, Zenon
    <3> QED BY <1>3, <3>1, <3>2
  <2> QED BY <2>1, <2>2
<1>12. /\ dangling \in BOOLEAN /\ honest \in BOOLEAN /\ leaked \in BOOLEAN /\ over \in BOOLEAN
       /\ clean \in BOOLEAN /\ oom \in BOOLEAN /\ CleanUseIsSafe
  BY Zenon DEF WddxInv
<1>13. /\ dangling' \in BOOLEAN /\ honest' \in BOOLEAN /\ leaked' \in BOOLEAN /\ over' \in BOOLEAN
       /\ clean' \in BOOLEAN /\ oom' \in BOOLEAN
  BY <1>5, <1>6, <1>9, <1>12
<1>14. ASSUME clean', ~oom' PROVE ~dangling' /\ honest' /\ (leaked' => over')
  <2>1. clean /\ CleanPath(p) /\ ~oom /\ ~o.oom
    BY <1>5, <1>6, <1>14, Zenon
  <2>2. honest /\ (leaked => over)
    BY <1>12, <2>1, Zenon DEF CleanUseIsSafe
  <2>3. /\ ~o.moved /\ (o.ret # Nil => o.stored) /\ (o.leaked => Get(data, p) # Nil)
    BY <1>7, <2>1, Zenon DEF Good
  <2>4. o.ret # Nil <=> o.stored
    BY <1>8, <2>3, Zenon
  <2>5. told' <=> o.stored
    BY <1>5, <2>4, Zenon
  <2>6. ~dangling'
    BY <1>5, <2>3, Zenon
  <2>7. (told' = o.stored)
    <3>1. told' \in BOOLEAN
      BY <1>5
    <3> QED BY <1>9, <2>5, <3>1
  <2>8. honest'
    BY <1>5, <2>2, <2>7, Zenon
  <2>9. leaked' => over'
    BY <1>5, <2>2, <2>3, Zenon
  <2> QED BY <2>6, <2>8, <2>9
<1> QED BY <1>10, <1>11, <1>13, <1>14, Zenon DEF WddxInv, CleanUseIsSafe, M

\* Every step keeps it.
LEMMA NextInv ==
  WddxInv /\ [Next]_vars => WddxInv'
<1> SUFFICES ASSUME WddxInv, [Next]_vars PROVE WddxInv'
  OBVIOUS
<1>1. ASSUME NEW p \in Paths, NEW v \in Values, WddxPut(p, v) PROVE WddxInv'
  BY <1>1, PutInv
<1>2. ASSUME UNCHANGED <<data, dangling, puts, told, ghosts>> PROVE WddxInv'
  <2>1. /\ data' = data /\ dangling' = dangling /\ stored' = stored /\ honest' = honest
        /\ clean' = clean /\ oom' = oom /\ leaked' = leaked /\ over' = over
    BY <1>2, Zenon DEF ghosts
  <2> QED BY <2>1, Zenon DEF WddxInv, CleanUseIsSafe
<1>3. CASE WddxExchange
  BY <1>2, <1>3, Zenon DEF WddxExchange
<1>4. ASSUME NEW x \in Documents, WddxFromXml(x) PROVE WddxInv'
  BY <1>2, <1>4, Zenon DEF WddxFromXml
<1>5. CASE WddxCleanup
  <2>1. /\ data' = Nil /\ stored' = [p \in Paths |-> <<>>] /\ dangling' = dangling
        /\ honest' = honest /\ clean' = clean /\ oom' = oom /\ leaked' = leaked /\ over' = over
    BY <1>5, Zenon DEF WddxCleanup
  <2>2. data' \in Trees(MaxDepth) /\ stored' = [p \in Paths |-> Read(data', p)]
    BY <2>1, NilIsEmpty, Zenon
  <2> QED BY <2>1, <2>2, Zenon DEF WddxInv, CleanUseIsSafe
<1>6. CASE UNCHANGED vars
  BY <1>2, <1>6, Zenon DEF vars
<1> QED BY <1>1, <1>3, <1>4, <1>5, <1>6, Zenon DEF Next

\* The invariant of every document, whatever is put on it and parsed.
THEOREM WddxInvariance ==
  Spec => []WddxInv
<1> QED BY InitInv, NextInv, PTL DEF Spec

\* However puts failed, the tree is regular: no array is empty or longer than
\* the limit, names are distinct and none is empty, every leaf is one that was
\* put, and the tree is no deeper than the paths.
THEOREM Regularity ==
  Spec => []RegularTree
<1>1. WddxInv => RegularTree
  BY Zenon DEF WddxInv, RegularTree
<1> QED BY WddxInvariance, <1>1, PTL

\* Every path reads as the leaf that was last stored under it: no put changes
\* what another path reads, and none that fails changes anything.
THEOREM Dictionary ==
  Spec => []ReadsAsDictionary
<1>1. WddxInv => ReadsAsDictionary
  BY Zenon DEF WddxInv, ReadsAsDictionary
<1> QED BY WddxInvariance, <1>1, PTL

\* On clean paths, and as long as memory lasts, no pointer dangles, every put
\* tells the truth, and memory is lost only by replacing a value.
THEOREM SafeUse ==
  Spec => []CleanUseIsSafe
<1>1. WddxInv => CleanUseIsSafe
  BY Zenon DEF WddxInv
<1> QED BY WddxInvariance, <1>1, PTL

-----------------------------------------------------------------------------
(* Elements of XML                                                         *)

\* An element, by its fields.
Elem(e) == e = [tag |-> e.tag, val |-> e.val, len |-> e.len, kids |-> e.kids]

\* The elements of a depth, by their fields.
LEMMA ElementFields ==
  ASSUME NEW n \in Nat
  PROVE  /\ \A e : e \in ElementsTo(n + 1)
               <=> /\ Elem(e) /\ e.tag \in STRING /\ e.val \in STRING
                   /\ e.len \in Int /\ e.kids \in Seq(ElementsTo(n))
         /\ \A t \in STRING, v \in STRING, l \in Int, k \in Seq(ElementsTo(n)) :
              El(t, v, l, k) \in ElementsTo(n + 1)
<1> DEFINE S == Seq(ElementsTo(n))
<1>1. ElementsTo(n + 1) = [tag : STRING, val : STRING, len : Int, kids : S]
  BY ElementsToIs
<1> HIDE DEF S
<1>2. \A e : e \in [tag : STRING, val : STRING, len : Int, kids : S]
               <=> /\ Elem(e) /\ e.tag \in STRING /\ e.val \in STRING
                   /\ e.len \in Int /\ e.kids \in S
  BY DEF Elem
<1>3. \A t \in STRING, v \in STRING, l \in Int, k \in S :
        El(t, v, l, k) \in [tag : STRING, val : STRING, len : Int, kids : S]
  BY DEF El
<1> QED BY <1>1, <1>2, <1>3, Zenon DEF S

\* An element that nests no deeper than n nests no deeper than n + 1.
LEMMA MoreElements ==
  \A n \in Nat : \A i \in Nat : n <= i => ElementsTo(n) \subseteq ElementsTo(i)
<1> DEFINE T == {n \in Nat : ElementsTo(n) \subseteq ElementsTo(n + 1)}
<1>1. 0 \in T
  <2>1. ElementsTo(0) = {}
    BY ElementsToIs
  <2> QED BY <2>1
<1>2. ASSUME NEW n \in Nat, n \in T PROVE n + 1 \in T
  <2>1. PICK m \in Nat : m = n + 1
    OBVIOUS
  <2>2. PICK A, B : A = ElementsTo(n) /\ B = ElementsTo(m)
    OBVIOUS
  <2>3. A \subseteq B
    BY <1>2, <2>1, <2>2
  <2>4. Seq(A) \subseteq Seq(B)
    BY <2>3
  <2>5. ASSUME NEW e \in ElementsTo(m) PROVE e \in ElementsTo(m + 1)
    <3>1. /\ Elem(e) /\ e.tag \in STRING /\ e.val \in STRING
          /\ e.len \in Int /\ e.kids \in Seq(A)
      BY <2>1, <2>2, ElementFields, Zenon
    <3>2. e.kids \in Seq(B)
      BY <2>4, <3>1
    <3> QED BY <2>2, <3>1, <3>2, ElementFields, Zenon
  <2> QED BY <2>1, <2>5
<1> HIDE DEF T
<1>3. \A n \in Nat : n \in T
  BY <1>1, <1>2, NatSetInduction
<1>4. \A n \in Nat : ElementsTo(n) \subseteq ElementsTo(n + 1)
  BY <1>3 DEF T
<1>5. ASSUME NEW n \in Nat, NEW i \in Nat, n <= i PROVE ElementsTo(n) \subseteq ElementsTo(i)
  <2> DEFINE U == {k \in Nat : ElementsTo(n) \subseteq ElementsTo(n + k)}
  <2>1. 0 \in U
    <3>1. n + 0 = n
      OBVIOUS
    <3> QED BY <3>1
  <2>2. ASSUME NEW k \in Nat, k \in U PROVE k + 1 \in U
    <3>1. n + k \in Nat /\ n + (k + 1) = (n + k) + 1
      OBVIOUS
    <3>2. ElementsTo(n) \subseteq ElementsTo(n + k)
      BY <2>2
    <3>3. ElementsTo(n + k) \subseteq ElementsTo(n + (k + 1))
      BY <1>4, <3>1, Zenon
    <3> QED BY <3>2, <3>3
  <2> HIDE DEF U
  <2>3. \A k \in Nat : k \in U
    BY <2>1, <2>2, NatSetInduction
  <2>4. i - n \in Nat /\ n + (i - n) = i
    BY <1>5
  <2>5. ElementsTo(n) \subseteq ElementsTo(n + (i - n))
    BY <2>3, <2>4, Zenon DEF U
  <2> QED BY <2>4, <2>5, Zenon
<1> QED BY <1>5

-----------------------------------------------------------------------------
(* What is written is read back                                            *)

IsToXml(xml) == \A n \in Nat : xml[n + 1] = [x \in Trees(n) |-> NodeToXml(x, xml[n])]
IsFromXml(node) ==
  \A n \in Nat : node[n + 1] = [e \in ElementsTo(n + 1) |-> NodeFromXml(e, node[n])]

\* At depth n and deeper, the element e is read as x.
Returns(x, n, e, node) ==
  /\ e \in ElementsTo(n) /\ e.tag # "space"
  /\ \A i \in Nat : n <= i => node[i][e] = x

\* What is read back at a depth is read back deeper.
LEMMA ReturnsDeeper ==
  ASSUME NEW x, NEW n \in Nat, NEW m \in Nat, n <= m, NEW e, NEW node, Returns(x, n, e, node)
  PROVE  Returns(x, m, e, node)
<1>1. e \in ElementsTo(m)
  BY MoreElements DEF Returns
<1>2. \A i \in Nat : m <= i => n <= i
  OBVIOUS
<1> QED BY <1>1, <1>2, Zenon DEF Returns

\* It is enough to look at one step of the reading.
LEMMA ReturnsBy ==
  ASSUME NEW x, NEW n \in Nat, NEW e \in ElementsTo(n + 1), e.tag # "space",
         NEW node, IsFromXml(node), \A i \in Nat : n <= i => NodeFromXml(e, node[i]) = x
  PROVE  Returns(x, n + 1, e, node)
<1>1. ASSUME NEW i \in Nat, n + 1 <= i PROVE node[i][e] = x
  <2>1. PICK j \in Nat : i = j + 1 /\ n <= j
    <3>1. i - 1 \in Nat /\ i = (i - 1) + 1 /\ n <= i - 1
      BY <1>1
    <3> QED BY <3>1
  <2>2. node[j + 1] = [f \in ElementsTo(j + 1) |-> NodeFromXml(f, node[j])]
    BY Zenon DEF IsFromXml
  <2>3. e \in ElementsTo(j + 1)
    <3>1. n + 1 \in Nat /\ j + 1 \in Nat /\ n + 1 <= j + 1
      BY <2>1
    <3>2. ElementsTo(n + 1) \subseteq ElementsTo(j + 1)
      BY <3>1, MoreElements, Zenon
    <3> QED BY <3>2
  <2>4. node[j + 1][e] = NodeFromXml(e, node[j])
    BY <2>2, <2>3, Zenon
  <2> QED BY <2>1, <2>4, Zenon
<1> QED BY <1>1, Zenon DEF Returns

\* The leaves without an ampersand: each is read back.
Plain == {x \in Leaves : x.text # "amp"}

\* A leaf is written as one element, and read from it.
LEMMA LeafReturns ==
  ASSUME NEW x \in Plain, NEW xml, NEW node, IsFromXml(node)
  PROVE  Returns(x, 1, NodeToXml(x, xml), node)
<1>1. PICK v \in Values : x = Leaf(v[1], v[2])
  BY Zenon DEF Plain, Leaves
<1>2. PICK k, t : k = v[1] /\ t = v[2]
  OBVIOUS
<1>3. x.kind = k /\ x.text = t /\ x = Leaf(k, t)
  BY <1>1, <1>2 DEF Leaf
<1>4. k \in {"boolean", "number", "string"} /\ t \in STRING /\ ~Unreadable(k, t) /\ TextFromXml(k, t) = t
  BY <1>2, ValuesAssumption
<1>5. t # "amp"
  BY <1>3, Zenon DEF Plain
<1> DEFINE e == El(k, t, 0, <<>>)
<1>6. NodeToXml(x, xml) = e
  <2>1. XmlText(t) = t
    BY <1>5, Zenon DEF XmlText
  <2>2. k # "array" /\ k # "struct"
    BY <1>4
  <2>3. CASE k = "boolean"
    BY <1>3, <2>2, <2>3, Zenon DEF NodeToXml
  <2>4. CASE k # "boolean"
    BY <1>3, <2>1, <2>2, <2>4, Zenon DEF NodeToXml
  <2> QED BY <2>3, <2>4
<1>7. e \in ElementsTo(0 + 1)
  <2>1. k \in STRING /\ t \in STRING
    <3>1. k \in LeafKinds
      BY <1>4 DEF LeafKinds
    <3> QED BY <1>4, <3>1, LiteralsAssumption, Zenon
  <2>3. 0 \in Int /\ <<>> \in Seq(ElementsTo(0))
    OBVIOUS
  <2>2. 0 \in Nat
    OBVIOUS
  <2> QED BY <2>1, <2>2, <2>3, ElementFields, Zenon
<1>8. e.tag = k /\ e.val = t
  BY DEF El
<1> HIDE DEF e
<1>9. e.tag # "space"
  BY <1>4, <1>8
<1>10. \A i \in Nat : NodeFromXml(e, node[i]) = x
  <2>1. k # "array" /\ k # "struct" /\ k \in LeafKinds
    BY <1>4 DEF LeafKinds
  <2>2. \A i \in Nat : NodeFromXml(e, node[i]) = Leaf(k, t)
    BY <1>4, <1>8, <2>1, Zenon DEF NodeFromXml
  <2> QED BY <1>3, <2>2, Zenon
<1>11. 0 \in Nat /\ 0 + 1 = 1
  OBVIOUS
<1>12. Returns(x, 0 + 1, e, node)
  BY <1>7, <1>9, <1>10, <1>11, ReturnsBy, Zenon
<1> QED BY <1>6, <1>11, <1>12, Zenon

\* Nothing is left out where nothing is to be left out.
LEMMA NothingLeftOut ==
  ASSUME NEW T, NEW s \in Seq(T)
  PROVE  /\ (\A j \in 1 .. Len(s) : s[j].node # Nil) => Filled(s) = s
         /\ (\A j \in 1 .. Len(s) : s[j].tag # "space") => Elements(s) = s
<1>1. \A P : 1 .. Len(s) \subseteq P => Chosen(s, P) = s
  BY ChosenOf, Zenon
<1>2. DOMAIN s = 1 .. Len(s)
  OBVIOUS
<1>3. ASSUME \A j \in 1 .. Len(s) : s[j].node # Nil PROVE Filled(s) = s
  BY <1>1, <1>2, <1>3, Zenon DEF Filled
<1>4. ASSUME \A j \in 1 .. Len(s) : s[j].tag # "space" PROVE Elements(s) = s
  BY <1>1, <1>2, <1>4, Zenon DEF Elements
<1> QED BY <1>3, <1>4

\* The element of an array, and that of a struct.
ArrayEl(l, kids) == El("array", "", l, kids)
StructEl(kids) == El("struct", "", 0, kids)
VarEl(n, kids) == El("var", n, 0, kids)

\* Their fields.
LEMMA ElementsAre ==
  /\ \A l, k : ArrayEl(l, k).tag = "array" /\ ArrayEl(l, k).len = l /\ ArrayEl(l, k).kids = k
  /\ \A k : StructEl(k).tag = "struct" /\ StructEl(k).kids = k
  /\ \A m, k : VarEl(m, k).tag = "var" /\ VarEl(m, k).val = m /\ VarEl(m, k).kids = k
BY DEF ArrayEl, StructEl, VarEl, El

\* And of those of members alone.
LEMMA VarsAre ==
  \A m, k : VarEl(m, k).tag = "var" /\ VarEl(m, k).val = m /\ VarEl(m, k).kids = k
BY DEF VarEl, El

\* They nest one deeper than their children.
LEMMA ElementsIn ==
  ASSUME NEW n \in Nat
  PROVE  \A k \in Seq(ElementsTo(n)) :
           /\ \A l \in Int : ArrayEl(l, k) \in ElementsTo(n + 1)
           /\ StructEl(k) \in ElementsTo(n + 1)
           /\ \A m \in STRING : VarEl(m, k) \in ElementsTo(n + 1)
<1>1. "array" \in STRING /\ "struct" \in STRING /\ "var" \in STRING /\ "" \in STRING
  BY LiteralsAssumption, Zenon
<1>2. 0 \in Int
  OBVIOUS
<1> QED BY <1>1, <1>2, ElementFields, Zenon DEF ArrayEl, StructEl, VarEl

\* Items, made again from their names and nodes.
Again(items, f, g) == [j \in 1 .. Len(items) |-> Item(g[j], f[j])] = items

\* Those of a struct.
LEMMA StructItemsAgain ==
  ASSUME NEW A, NEW N, NEW items \in Seq(ItemsOf(A, N)), NEW f, NEW g,
         \A j \in 1 .. Len(items) : f[j] = items[j].node /\ g[j] = items[j].name
  PROVE  Again(items, f, g)
<1>1. \A j \in 1 .. Len(items) : items[j] \in ItemsOf(A, N)
  OBVIOUS
<1>2. \A j \in 1 .. Len(items) : items[j] = Item(items[j].name, items[j].node)
  <2>1. \A item \in ItemsOf(A, N) : item = Item(item.name, item.node)
    BY Items
  <2> QED BY <1>1, <2>1, Zenon
<1>3. items = [j \in 1 .. Len(items) |-> items[j]]
  OBVIOUS
<1>4. \A j \in 1 .. Len(items) : Item(g[j], f[j]) = items[j]
  BY <1>2, Zenon
<1>5. [j \in 1 .. Len(items) |-> Item(g[j], f[j])] = [j \in 1 .. Len(items) |-> items[j]]
  BY <1>4, Zenon
<1> QED BY <1>3, <1>5, Zenon DEF Again

\* Those of an array have no names.
LEMMA ArrayItemsAgain ==
  ASSUME NEW N, NEW items \in Seq(ItemsOf(NoName, N)), NEW f,
         \A j \in 1 .. Len(items) : f[j] = items[j].node
  PROVE  [j \in 1 .. Len(items) |-> Item("", f[j])] = items
<1> DEFINE g == [j \in 1 .. Len(items) |-> ""]
<1>1. \A j \in 1 .. Len(items) : items[j].name = ""
  <2>1. \A j \in 1 .. Len(items) : items[j] \in ItemsOf(NoName, N)
    OBVIOUS
  <2>2. \A item \in ItemsOf(NoName, N) : item.name \in NoName
    BY Items
  <2> QED BY <2>1, <2>2, Zenon DEF NoName
<1>2. \A j \in 1 .. Len(items) : g[j] = ""
  BY Zenon
<1>3. [j \in 1 .. Len(items) |-> Item("", f[j])] = [j \in 1 .. Len(items) |-> Item(g[j], f[j])]
  BY <1>2, Zenon
<1> HIDE DEF g
<1>4. \A j \in 1 .. Len(items) : g[j] = items[j].name
  BY <1>1, <1>2, Zenon
<1>5. \A j \in 1 .. Len(items) : f[j] = items[j].node /\ g[j] = items[j].name
  BY <1>4, Zenon
<1>6. Again(items, f, g)
  BY <1>5, StructItemsAgain, Zenon
<1> QED BY <1>3, <1>6, Zenon DEF Again

\* An array, read from what its element has.
ArrayOf(l, kids, node) ==
  IF l <= 0 \/ l > MaxArray THEN Nil
  ELSE WithItems(NewArray, [j \in 1 .. Shorter(l, Len(kids)) |-> Item("", node[kids[j]])])

\* That is how the parser reads it.
LEMMA ArrayFrom ==
  ASSUME NEW e, e.tag = "array", NEW node
  PROVE  NodeFromXml(e, node) = ArrayOf(e.len, Elements(e.kids), node)
<1>1. NodeFromXml(e, node) = ArrayFromXml(e, node)
  <2>1. e.tag # "struct" /\ e.tag \notin LeafKinds
    BY DEF LeafKinds
  <2> QED BY <2>1, Zenon DEF NodeFromXml
<1>2. ArrayFromXml(e, node) = ArrayOf(e.len, Elements(e.kids), node)
  BY Zenon DEF ArrayFromXml, ArrayOf, WithItems
<1> QED BY <1>1, <1>2, Zenon

\* An array whose nodes are read back is read back.
LEMMA ArrayReturns ==
  ASSUME NEW G, NEW x \in Arrays(G), NEW n \in Nat, NEW xml, NEW node, IsFromXml(node),
         \A y \in G : y # Nil /\ Returns(y, n, xml[y], node)
  PROVE  Returns(x, n + 1, ArrayToXml(x, xml), node)
<1> DEFINE items == x.items
           kids == [j \in DOMAIN items |-> xml[items[j].node]]
           e == ArrayEl(Len(items), kids)
<1>1. Node(x, "array", "") /\ IsArray(x, G)
  BY ArraysAre, Zenon
<1>2. items \in Seq(ItemsOf(NoName, G)) /\ Len(items) \in 1 .. MaxArray
  BY <1>1, Zenon DEF IsArray
<1>3. \A j \in 1 .. Len(items) : items[j].node \in G
  <2>1. \A j \in 1 .. Len(items) : items[j] \in ItemsOf(NoName, G)
    BY <1>2
  <2> QED BY <2>1, Items, Zenon
<1>4. Filled(items) = items
  BY <1>2, <1>3, NothingLeftOut, Zenon
<1>5. ArrayToXml(x, xml) = e
  BY <1>4, Zenon DEF ArrayToXml, ArrayEl
<1> HIDE DEF items
<1>6. DOMAIN items = 1 .. Len(items)
  BY <1>2
<1>7. \A j \in 1 .. Len(items) : Returns(items[j].node, n, xml[items[j].node], node)
  BY <1>3, Zenon
<1>8. \A j \in 1 .. Len(items) : kids[j] = xml[items[j].node]
  BY <1>6, Zenon
<1>9. kids = [j \in 1 .. Len(items) |-> xml[items[j].node]]
  BY <1>6, Zenon
<1>10. \A j \in 1 .. Len(items) : xml[items[j].node] \in ElementsTo(n)
  BY <1>7, Zenon DEF Returns
<1>11. kids \in Seq(ElementsTo(n)) /\ Len(kids) = Len(items)
  BY <1>2, <1>9, <1>10
<1> HIDE DEF kids
<1>12. \A j \in 1 .. Len(kids) : kids[j].tag # "space"
  BY <1>7, <1>8, <1>11, Zenon DEF Returns
<1>13. Elements(kids) = kids
  BY <1>11, <1>12, NothingLeftOut, Zenon
<1>14. e \in ElementsTo(n + 1) /\ e.tag = "array" /\ e.len = Len(items) /\ e.kids = kids
  <2>1. Len(items) \in Int
    BY <1>2, BoundsAssumption
  <2> QED BY <1>11, <2>1, ElementsIn, ElementsAre, Zenon
<1> HIDE DEF e
<1>15. ASSUME NEW i \in Nat, n <= i PROVE NodeFromXml(e, node[i]) = x
  <2>1. PICK l : l = Len(items) /\ l \in 1 .. MaxArray
    BY <1>2
  <2>2. ~(l <= 0) /\ ~(l > MaxArray) /\ Shorter(l, l) = l
    BY <2>1, BoundsAssumption DEF Shorter
  <2> DEFINE f == [j \in 1 .. l |-> node[i][kids[j]]]
             again == [j \in 1 .. l |-> Item("", node[i][kids[j]])]
  <2>3. NodeFromXml(e, node[i]) = WithItems(NewArray, again)
    <3>1. NodeFromXml(e, node[i]) = ArrayOf(l, kids, node[i])
      BY <1>13, <1>14, <2>1, ArrayFrom, Zenon
    <3>2. Len(kids) = l
      BY <1>11, <2>1
    <3>3. Shorter(l, Len(kids)) = l
      BY <2>2, <3>2, Zenon
    <3> QED BY <2>2, <3>1, <3>3, Zenon DEF ArrayOf
  <2>4. \A j \in 1 .. l : f[j] = items[j].node
    <3>1. ASSUME NEW j \in 1 .. Len(items)
          PROVE  node[i][xml[items[j].node]] = items[j].node
      <4>1. Returns(items[j].node, n, xml[items[j].node], node)
        BY <1>7, <3>1, Zenon
      <4> QED BY <1>15, <4>1, Zenon DEF Returns
    <3>2. ASSUME NEW j \in 1 .. Len(items) PROVE node[i][kids[j]] = items[j].node
      BY <1>8, <3>1, Zenon
    <3> QED BY <2>1, <3>2, Zenon
  <2>5. again = [j \in 1 .. l |-> Item("", f[j])]
    BY Zenon
  <2> HIDE DEF f
  <2>6. [j \in 1 .. Len(items) |-> Item("", f[j])] = items
    <3>1. \A j \in 1 .. Len(items) : f[j] = items[j].node
      BY <2>1, <2>4, Zenon
    <3> QED BY <1>2, <3>1, ArrayItemsAgain, Zenon
  <2>7. WithItems(NewArray, items) = x
    <3>1. x = [kind |-> "array", text |-> "", items |-> items]
      BY <1>1, Zenon DEF Node, items
    <3>2. \A a : WithItems(NewArray, a) = [kind |-> "array", text |-> "", items |-> a]
      <4>1. PICK k, t : k = "array" /\ t = ""
        OBVIOUS
      <4>2. NewArray = [kind |-> k, text |-> t, items |-> <<>>]
        BY <4>1, Zenon DEF NewArray, Leaf
      <4>3. \A a : WithItems(NewArray, a) = [kind |-> k, text |-> t, items |-> a]
        BY <4>2 DEF WithItems
      <4> QED BY <4>1, <4>3, Zenon
    <3> QED BY <3>1, <3>2, Zenon
  <2> QED BY <2>1, <2>3, <2>5, <2>6, <2>7, Zenon
<1>16. e.tag # "space"
  BY <1>14
<1> QED BY <1>5, <1>14, <1>15, <1>16, ReturnsBy, Zenon

\* A struct, read from what its element has.
StructOf(kids, r, node) ==
  IF \E j \in 1 .. r : kids[j].kids = <<>> \/ kids[j].tag # "var" THEN Nil
  ELSE WithItems(NewStruct, [j \in 1 .. r |-> Item(kids[j].val, node[kids[j].kids[1]])])
Vars(kids) == Cardinality({j \in DOMAIN kids : kids[j].tag = "var"})

\* That is how the parser reads it.
LEMMA StructFrom ==
  ASSUME NEW e, e.tag = "struct", NEW node
  PROVE  NodeFromXml(e, node) = StructOf(Elements(e.kids), Vars(Elements(e.kids)), node)
<1>1. NodeFromXml(e, node) = StructFromXml(e, node)
  <2>1. e.tag # "array" /\ e.tag \notin LeafKinds
    BY DEF LeafKinds
  <2> QED BY <2>1, Zenon DEF NodeFromXml
<1>2. StructFromXml(e, node) = StructOf(Elements(e.kids), Vars(Elements(e.kids)), node)
  BY Zenon DEF StructFromXml, StructOf, WithItems, Vars
<1> QED BY <1>1, <1>2, Zenon

\* As many vars as there are elements, if all are vars.
LEMMA AllVars ==
  ASSUME NEW T, NEW kids \in Seq(T), \A j \in 1 .. Len(kids) : kids[j].tag = "var"
  PROVE  Vars(kids) = Len(kids)
<1>1. {j \in DOMAIN kids : kids[j].tag = "var"} = 1 .. Len(kids)
  OBVIOUS
<1>2. Cardinality(1 .. Len(kids)) = Len(kids)
  <2>1. PICK l \in Nat : l = Len(kids)
    OBVIOUS
  <2>2. l \in Int /\ 1 \in Int
    OBVIOUS
  <2>3. Cardinality(1 .. l) = IF 1 > l THEN 0 ELSE l - 1 + 1
    BY <2>2, FS_Interval
  <2> QED BY <2>1, <2>3
<1> QED BY <1>1, <1>2, Zenon DEF Vars

\* A struct whose nodes are read back is read back.
LEMMA StructReturns ==
  ASSUME NEW G, NEW x \in Structs(G), NEW n \in Nat, NEW xml, NEW node, IsFromXml(node),
         \A y \in G : y # Nil /\ Returns(y, n, xml[y], node)
  PROVE  Returns(x, (n + 1) + 1, StructToXml(x, xml), node)
<1> DEFINE items == x.items
           inside(j) == <<xml[items[j].node]>>
           kids == [j \in DOMAIN items |-> VarEl(items[j].name, inside(j))]
           e == StructEl(kids)
<1>1. Node(x, "struct", "") /\ IsStruct(x, G)
  BY StructsAre, Zenon
<1>2. items \in Seq(ItemsOf(Names, G))
  BY <1>1, Zenon DEF IsStruct
<1>3. \A j \in 1 .. Len(items) : items[j].node \in G /\ items[j].name \in STRING
  <2>1. \A j \in 1 .. Len(items) : items[j] \in ItemsOf(Names, G)
    BY <1>2
  <2>2. \A item \in ItemsOf(Names, G) : item.name \in Names /\ item.node \in G
    BY Items
  <2>3. \A m \in Names : m \in STRING
    BY Zenon DEF Names
  <2> QED BY <2>1, <2>2, <2>3, Zenon
<1>4. DOMAIN items = 1 .. Len(items)
  BY <1>2
<1>5. StructToXml(x, xml) = e
  <2>1. \A j \in DOMAIN items : Written(items[j].node, xml) = inside(j)
    BY <1>3, <1>4, Zenon DEF Written
  <2>2. [j \in DOMAIN items |-> El("var", items[j].name, 0, Written(items[j].node, xml))] = kids
    BY <2>1, Zenon DEF VarEl
  <2> QED BY <2>2, Zenon DEF StructToXml, StructEl
<1> HIDE DEF items
<1>6. \A j \in 1 .. Len(items) : Returns(items[j].node, n, xml[items[j].node], node)
  BY <1>3, Zenon
<1>7. \A j \in 1 .. Len(items) : /\ inside(j) \in Seq(ElementsTo(n))
                                 /\ inside(j) # <<>> /\ inside(j)[1] = xml[items[j].node]
  <2>1. \A j \in 1 .. Len(items) : xml[items[j].node] \in ElementsTo(n)
    BY <1>6, Zenon DEF Returns
  <2>2. \A E : \A y \in E : <<y>> \in Seq(E) /\ <<y>> # <<>> /\ <<y>>[1] = y
    OBVIOUS
  <2> QED BY <2>1, <2>2, Zenon
<1> HIDE DEF inside
<1>8. kids = [j \in 1 .. Len(items) |-> VarEl(items[j].name, inside(j))]
  BY <1>4, Zenon
<1>9. \A j \in 1 .. Len(items) : VarEl(items[j].name, inside(j)) \in ElementsTo(n + 1)
  BY <1>3, <1>7, ElementsIn, Zenon
<1>10. /\ kids \in Seq(ElementsTo(n + 1)) /\ Len(kids) = Len(items)
       /\ \A j \in 1 .. Len(items) : kids[j] = VarEl(items[j].name, inside(j))
  BY <1>2, <1>8, <1>9
<1> HIDE DEF kids
<1>11. \A j \in 1 .. Len(items) : /\ kids[j].tag = "var" /\ kids[j].val = items[j].name
                                  /\ kids[j].kids = inside(j)
  <2>1. \A m, k : VarEl(m, k).tag = "var" /\ VarEl(m, k).val = m /\ VarEl(m, k).kids = k
    BY VarsAre, Zenon
  <2>2. ASSUME NEW j \in 1 .. Len(items)
        PROVE  /\ kids[j].tag = "var" /\ kids[j].val = items[j].name
               /\ kids[j].kids = inside(j)
    <3>1. kids[j] = VarEl(items[j].name, inside(j))
      BY <1>10
    <3>2. VarEl(items[j].name, inside(j)).tag = "var"
          /\ VarEl(items[j].name, inside(j)).val = items[j].name
          /\ VarEl(items[j].name, inside(j)).kids = inside(j)
      BY <2>1, Zenon
    <3> QED BY <3>1, <3>2
  <2> QED BY <2>2
<1>12. Elements(kids) = kids
  <2>1. \A j \in 1 .. Len(kids) : kids[j].tag # "space"
    BY <1>10, <1>11
  <2> QED BY <1>10, <2>1, NothingLeftOut, Zenon
<1>13. Vars(kids) = Len(items)
  <2>1. \A j \in 1 .. Len(kids) : kids[j].tag = "var"
    BY <1>10, <1>11, Zenon
  <2> QED BY <1>10, <2>1, AllVars, Zenon
<1>14. e \in ElementsTo((n + 1) + 1) /\ e.tag = "struct" /\ e.kids = kids
  <2>1. n + 1 \in Nat
    OBVIOUS
  <2> QED BY <1>10, <2>1, ElementsIn, ElementsAre, Zenon
<1> HIDE DEF e
<1>15. ASSUME NEW i \in Nat, n + 1 <= i PROVE NodeFromXml(e, node[i]) = x
  <2>1. PICK l : l = Len(items)
    OBVIOUS
  <2> DEFINE f == [j \in 1 .. l |-> node[i][kids[j].kids[1]]]
             g == [j \in 1 .. l |-> kids[j].val]
             again == [j \in 1 .. l |-> Item(kids[j].val, node[i][kids[j].kids[1]])]
  <2>2. NodeFromXml(e, node[i]) = WithItems(NewStruct, again)
    <3>1. NodeFromXml(e, node[i]) = StructOf(kids, l, node[i])
      BY <1>12, <1>13, <1>14, <2>1, StructFrom, Zenon
    <3>2. ~\E j \in 1 .. l : kids[j].kids = <<>> \/ kids[j].tag # "var"
      BY <1>7, <1>11, <2>1, Zenon
    <3> QED BY <3>1, <3>2, Zenon DEF StructOf
  <2>3. n <= i
    BY <1>15
  <2>4. \A j \in 1 .. l : f[j] = items[j].node /\ g[j] = items[j].name
    <3>1. \A j \in 1 .. l : kids[j].kids[1] = xml[items[j].node]
      BY <1>7, <1>11, <2>1, Zenon
    <3>2. \A j \in 1 .. l : node[i][xml[items[j].node]] = items[j].node
      BY <1>6, <2>1, <2>3, Zenon DEF Returns
    <3>3. \A j \in 1 .. l : f[j] = node[i][kids[j].kids[1]] /\ g[j] = kids[j].val
      BY Zenon
    <3> HIDE DEF f, g
    <3>4. ASSUME NEW j \in 1 .. l PROVE f[j] = items[j].node /\ g[j] = items[j].name
      BY <1>11, <2>1, <3>1, <3>2, <3>3
    <3> QED BY <3>4
  <2>5. again = [j \in 1 .. l |-> Item(g[j], f[j])]
    BY Zenon
  <2> HIDE DEF f, g
  <2>6. [j \in 1 .. Len(items) |-> Item(g[j], f[j])] = items
    <3>1. \A j \in 1 .. Len(items) : f[j] = items[j].node /\ g[j] = items[j].name
      BY <2>1, <2>4, Zenon
    <3>2. Again(items, f, g)
      BY <1>2, <3>1, StructItemsAgain, Zenon
    <3> QED BY <3>2, Zenon DEF Again
  <2>7. WithItems(NewStruct, items) = x
    <3>1. x = [kind |-> "struct", text |-> "", items |-> items]
      BY <1>1, Zenon DEF Node, items
    <3>2. \A a : WithItems(NewStruct, a) = [kind |-> "struct", text |-> "", items |-> a]
      <4>1. PICK k, t : k = "struct" /\ t = ""
        OBVIOUS
      <4>2. NewStruct = [kind |-> k, text |-> t, items |-> <<>>]
        BY <4>1, Zenon DEF NewStruct, Leaf
      <4>3. \A a : WithItems(NewStruct, a) = [kind |-> k, text |-> t, items |-> a]
        BY <4>2 DEF WithItems
      <4> QED BY <4>1, <4>3, Zenon
    <3> QED BY <3>1, <3>2, Zenon
  <2> QED BY <2>1, <2>2, <2>5, <2>6, <2>7, Zenon
<1>16. e.tag # "space" /\ n + 1 \in Nat
  BY <1>14
<1> QED BY <1>5, <1>14, <1>15, <1>16, ReturnsBy, Zenon

\* Arrays and structs of more nodes.
LEMMA MoreNodes ==
  ASSUME NEW N, NEW M, N \subseteq M
  PROVE  Arrays(N) \subseteq Arrays(M) /\ Structs(N) \subseteq Structs(M)
<1>1. \A A : Seq(ItemsOf(A, N)) \subseteq Seq(ItemsOf(A, M))
  <2> SUFFICES ASSUME NEW A PROVE Seq(ItemsOf(A, N)) \subseteq Seq(ItemsOf(A, M))
    OBVIOUS
  <2>1. ItemsOf(A, N) \subseteq ItemsOf(A, M)
    BY DEF ItemsOf
  <2> QED BY <2>1
<1>2. ASSUME NEW x \in Arrays(N) PROVE x \in Arrays(M)
  <2>1. Node(x, "array", "") /\ IsArray(x, N)
    BY ArraysAre, Zenon
  <2>2. IsArray(x, M)
    BY <1>1, <2>1, Zenon DEF IsArray
  <2> QED BY <2>1, <2>2, ArraysAre, Zenon
<1>3. ASSUME NEW x \in Structs(N) PROVE x \in Structs(M)
  <2>1. Node(x, "struct", "") /\ IsStruct(x, N)
    BY StructsAre, Zenon
  <2>2. IsStruct(x, M)
    BY <1>1, <2>1, Zenon DEF IsStruct
  <2> QED BY <2>1, <2>2, StructsAre, Zenon
<1> QED BY <1>2, <1>3

\* The trees without empty slots and ampersands, by their depth.
PlainTrees(n) == TreesOf(Plain, n)

\* Those of a depth, from those of the one before.
LEMMA PlainTreesFrom ==
  /\ PlainTrees(0) = Plain
  /\ \A n \in Nat : PlainTrees(n + 1) = Plain \cup Arrays(PlainTrees(n))
                                             \cup Structs(PlainTrees(n))
BY TreesIs, Zenon DEF PlainTrees

\* They are trees of the same depth.
LEMMA PlainTreesAreTrees ==
  \A n \in Nat : PlainTrees(n) \subseteq Trees(n)
<1> DEFINE T == {n \in Nat : PlainTrees(n) \subseteq Trees(n)}
<1>1. Plain \subseteq Leaves
  BY Zenon DEF Plain
<1>2. 0 \in T
  BY <1>1, PlainTreesFrom, TreesFrom
<1>3. ASSUME NEW n \in Nat, n \in T PROVE n + 1 \in T
  <2>1. PlainTrees(n) \subseteq Trees(n)
    BY <1>3
  <2>2. Trees(n + 1) = Leaves \cup {Nil} \cup Arrays(Trees(n)) \cup Structs(Trees(n))
    BY TreesFrom
  <2>3. PlainTrees(n + 1) = Plain \cup Arrays(PlainTrees(n)) \cup Structs(PlainTrees(n))
    BY PlainTreesFrom
  <2>4. /\ Arrays(PlainTrees(n)) \subseteq Arrays(Trees(n))
        /\ Structs(PlainTrees(n)) \subseteq Structs(Trees(n))
    BY <2>1, MoreNodes
  <2>5. PlainTrees(n + 1) \subseteq Trees(n + 1)
    BY <1>1, <2>2, <2>3, <2>4
  <2> QED BY <2>5
<1> HIDE DEF T
<1>4. \A n \in Nat : n \in T
  BY <1>2, <1>3, NatSetInduction
<1> QED BY <1>4 DEF T

\* Each of them is read back from what it is written as.
LEMMA PlainReturns ==
  ASSUME NEW xml, IsToXml(xml), NEW node, IsFromXml(node)
  PROVE  \A n \in Nat : \A x \in PlainTrees(n) :
           x # Nil /\ Returns(x, 2 * n + 1, xml[n + 1][x], node)
<1> DEFINE T == {n \in Nat : \A x \in PlainTrees(n) :
                    x # Nil /\ Returns(x, 2 * n + 1, xml[n + 1][x], node)}
<1>1. ASSUME NEW n \in Nat, NEW x \in PlainTrees(n)
      PROVE  xml[n + 1][x] = NodeToXml(x, xml[n])
  <2>1. xml[n + 1] = [y \in Trees(n) |-> NodeToXml(y, xml[n])]
    BY Zenon DEF IsToXml
  <2>2. x \in Trees(n)
    BY PlainTreesAreTrees
  <2> QED BY <2>1, <2>2, Zenon
<1>2. \A x \in Plain : x # Nil
  BY Kinds, Zenon DEF Plain
<1>3. 0 \in T
  <2>1. 0 \in Nat /\ 2 * 0 + 1 = 1
    OBVIOUS
  <2>2. ASSUME NEW x \in PlainTrees(0)
        PROVE  x # Nil /\ Returns(x, 2 * 0 + 1, xml[0 + 1][x], node)
    <3>1. x \in Plain
      BY PlainTreesFrom
    <3>2. Returns(x, 1, NodeToXml(x, xml[0]), node)
      BY <3>1, LeafReturns, Zenon
    <3>3. xml[0 + 1][x] = NodeToXml(x, xml[0])
      BY <1>1, <2>1, Zenon
    <3> QED BY <1>2, <2>1, <3>1, <3>2, <3>3, Zenon
  <2> QED BY <2>1, <2>2, Zenon
<1>4. ASSUME NEW n \in Nat, n \in T PROVE n + 1 \in T
  <2>1. PICK m \in Nat : m = 2 * n + 1
    OBVIOUS
  <2>2. /\ n + 1 \in Nat /\ 2 * (n + 1) + 1 = (m + 1) + 1
        /\ 1 \in Nat /\ m + 1 \in Nat /\ (m + 1) + 1 \in Nat
        /\ 1 <= (m + 1) + 1 /\ m + 1 <= (m + 1) + 1
    BY <2>1
  <2>3. PICK up : up = xml[n + 1]
    OBVIOUS
  <2>4. \A y \in PlainTrees(n) : y # Nil /\ Returns(y, m, up[y], node)
    BY <1>4, <2>1, <2>3, Zenon
  <2>5. ASSUME NEW x \in PlainTrees(n + 1)
        PROVE  x # Nil /\ Returns(x, 2 * (n + 1) + 1, xml[(n + 1) + 1][x], node)
    <3>1. xml[(n + 1) + 1][x] = NodeToXml(x, up)
      BY <1>1, <2>2, <2>3, Zenon
    <3>2. x \in Plain \cup Arrays(PlainTrees(n)) \cup Structs(PlainTrees(n))
      BY PlainTreesFrom
    <3>3. CASE x \in Plain
      <4>1. Returns(x, 1, NodeToXml(x, up), node)
        BY <3>3, LeafReturns, Zenon
      <4>2. Returns(x, (m + 1) + 1, NodeToXml(x, up), node)
        BY <2>2, <4>1, ReturnsDeeper, Zenon
      <4> QED BY <1>2, <2>2, <3>1, <3>3, <4>2, Zenon
    <3>4. CASE x \in Arrays(PlainTrees(n))
      <4>1. x.kind = "array"
        BY <3>4, Kinds
      <4>2. x # Nil
        BY <4>1, Kinds
      <4>3. NodeToXml(x, up) = ArrayToXml(x, up)
        BY <4>1, Zenon DEF NodeToXml
      <4>4. Returns(x, m + 1, NodeToXml(x, up), node)
        BY <2>4, <3>4, <4>3, ArrayReturns, Zenon
      <4>5. Returns(x, (m + 1) + 1, NodeToXml(x, up), node)
        BY <2>2, <4>4, ReturnsDeeper, Zenon
      <4> QED BY <2>2, <3>1, <4>2, <4>5, Zenon
    <3>5. CASE x \in Structs(PlainTrees(n))
      <4>1. x.kind = "struct"
        BY <3>5, Kinds
      <4>2. x # Nil
        BY <4>1, Kinds
      <4>3. NodeToXml(x, up) = StructToXml(x, up)
        BY <4>1, Zenon DEF NodeToXml
      <4>4. Returns(x, (m + 1) + 1, NodeToXml(x, up), node)
        BY <2>4, <3>5, <4>3, StructReturns, Zenon
      <4> QED BY <2>2, <3>1, <4>2, <4>4, Zenon
    <3> QED BY <3>2, <3>3, <3>4, <3>5
  <2> HIDE DEF Returns
  <2> QED BY <2>2, <2>5, Zenon
<1> HIDE DEF T
<1>5. \A n \in Nat : n \in T
  BY <1>3, <1>4, NatSetInduction
<1> QED BY <1>5, Zenon DEF T

\* So a document of this kind arrives as it was sent.
LEMMA PacketReturns ==
  ASSUME NEW x \in Gapless
  PROVE  FromPacket(Packet(x)) = x
<1>1. PICK xml : IsToXml(xml) /\ \A tree : ToXml(tree) = xml[MaxDepth + 1][tree]
  BY ToXmlIs, Zenon DEF IsToXml
<1>2. PICK node : IsFromXml(node) /\ \A element : FromXml(element) = node[XmlDepth][element]
  BY FromXmlIs, Zenon DEF IsFromXml
<1>3. MaxDepth \in Nat /\ XmlDepth \in Nat /\ XmlDepth = 2 * MaxDepth + 1 /\ XmlDepth <= XmlDepth
  BY BoundsAssumption DEF XmlDepth
<1>4. x \in PlainTrees(MaxDepth)
  BY Zenon DEF Gapless, PlainTrees, Plain
<1>5. x # Nil /\ Returns(x, XmlDepth, xml[MaxDepth + 1][x], node)
  BY <1>1, <1>2, <1>3, <1>4, PlainReturns, Zenon
<1>6. Returns(x, XmlDepth, ToXml(x), node)
  BY <1>1, <1>5, Zenon
<1>7. FromXml(ToXml(x)) = x
  <2>1. node[XmlDepth][ToXml(x)] = x
    BY <1>3, <1>6, Zenon DEF Returns
  <2> QED BY <1>2, <2>1, Zenon
<1>8. Packet(x).valid /\ Packet(x).kids = <<ToXml(x)>>
  BY <1>5 DEF Packet
<1>9. <<ToXml(x)>> # <<>> /\ <<ToXml(x)>>[1] = ToXml(x)
  OBVIOUS
<1>10. FromPacket(Packet(x)) = FromXml(Packet(x).kids[1])
  <2>1. Packet(x).kids # <<>>
    BY <1>8, <1>9, Zenon
  <2> QED BY <1>8, <2>1, Zenon DEF FromPacket
<1> QED BY <1>7, <1>8, <1>9, <1>10, Zenon

\* Documents arrive as they were built: one without empty slots and ampersands,
\* written by wddx_to_xml and parsed by wddx_from_xml, reads the same on both
\* sides (ArrivesAsBuilt), for all paths and values, however deep it nests.
THEOREM Arrival == Spec => ArrivesAsBuilt
<1>1. WddxInv /\ [Next]_vars
        => [WddxExchange /\ data \in Gapless => \A p \in Paths : Read(parsed', p) = stored[p]]_vars
  <2> SUFFICES ASSUME WddxInv, WddxExchange, data \in Gapless, NEW p \in Paths
               PROVE  Read(parsed', p) = stored[p]
    BY Zenon
  <2>1. parsed' = FromPacket(Packet(data)) /\ ~dangling
    BY Zenon DEF WddxExchange
  <2>2. parsed' = data
    BY <2>1, PacketReturns, Zenon
  <2>3. stored[p] = Read(data, p)
    BY Zenon DEF WddxInv
  <2> QED BY <2>2, <2>3, Zenon
<1>2. Spec => [][Next]_vars
  BY PTL DEF Spec
<1> QED BY <1>1, <1>2, WddxInvariance, PTL DEF ArrivesAsBuilt

-----------------------------------------------------------------------------
(* What was sent is read                                                   *)

\* What a path names in the XML, and the node that it reaches in the tree:
\* nothing and NULL, or a compact element and what is made of it.
Agree(found, x, node) ==
  \/ found = <<>> /\ x = Nil
  \/ /\ found # <<>>
     /\ \E n \in Nat : found[1] \in Compact(n) /\ x = node[n][found[1]]

\* A list of one.
LEMMA Single ==
  \A y : <<y>> # <<>> /\ <<y>>[1] = y
OBVIOUS

\* The elements of a sequence are among them.
LEMMA SomeElements ==
  ASSUME NEW T, NEW s \in Seq(T)
  PROVE  Elements(s) \in Seq(T)
<1> DEFINE places == {j \in DOMAIN s : s[j].tag # "space"}
           U == {s[i] : i \in {j \in places : j \in 1 .. Len(s)}}
<1>1. U \subseteq T
  OBVIOUS
<1>2. Elements(s) \in Seq(U)
  BY ChosenOf, Zenon DEF Elements
<1> HIDE DEF U
<1> QED BY <1>1, <1>2

\* A compact element, and what is made of it.
LEMMA CompactElement ==
  ASSUME NEW node, IsFromXml(node), NEW n \in Nat, NEW e \in Compact(n)
  PROVE  \E m \in Nat : /\ n = m + 1 /\ e \in ElementsTo(m + 1) /\ IsCompact(e, Compact(m))
                        /\ node[n][e] = NodeFromXml(e, node[m])
                        /\ Elements(e.kids) \in Seq(ElementsTo(m))
<1>1. PICK m \in Nat : n = m + 1
  <2>1. n # 0
    BY CompactIs
  <2>2. n - 1 \in Nat /\ n = (n - 1) + 1
    BY <2>1
  <2> QED BY <2>2
<1>2. e \in ElementsTo(m + 1) /\ IsCompact(e, Compact(m))
  BY <1>1, CompactIs
<1>3. node[m + 1] = [f \in ElementsTo(m + 1) |-> NodeFromXml(f, node[m])]
  BY Zenon DEF IsFromXml
<1>4. node[n][e] = NodeFromXml(e, node[m])
  BY <1>1, <1>2, <1>3, Zenon
<1>5. e.kids \in Seq(ElementsTo(m))
  BY <1>2, ElementFields, Zenon
<1>6. Elements(e.kids) \in Seq(ElementsTo(m))
  BY <1>5, SomeElements, Zenon
<1> QED BY <1>1, <1>2, <1>4, <1>6, Zenon

\* Of an array.
LEMMA CompactArray ==
  ASSUME NEW m \in Nat, NEW e, e.tag = "array", IsCompact(e, Compact(m)), NEW T,
         Elements(e.kids) \in Seq(T), NEW node, NEW s \in Segments
  PROVE  Agree(Below(<<e>>, s), Child(NodeFromXml(e, node[m]), s), node)
         /\ Content(NodeFromXml(e, node[m])) = <<>>
<1> DEFINE kids == Elements(e.kids)
           l == Len(kids)
           items == [j \in 1 .. l |-> Item("", node[m][kids[j]])]
           x == WithItems(NewArray, items)
<1>1. /\ e.len = l /\ e.len \in 1 .. MaxArray
      /\ \A j \in DOMAIN kids : kids[j] \in Compact(m)
  BY Zenon DEF IsCompact
<1>2. e.tag # "struct" /\ <<e>> # <<>> /\ <<e>>[1] = e
  OBVIOUS
<1>3. Below(<<e>>, s) = IF s.index \in 0 .. l - 1 THEN <<kids[s.index + 1]>> ELSE <<>>
  BY <1>2, Zenon DEF Below
<1> HIDE DEF kids
<1>4. kids \in Seq(T) /\ l \in 1 .. MaxArray /\ l \in Nat
  <2>1. kids \in Seq(T)
    BY DEF kids
  <2> QED BY <1>1, <2>1
<1>5. NodeFromXml(e, node[m]) = x
  <2>1. NodeFromXml(e, node[m]) = ArrayOf(l, kids, node[m])
    BY <1>1, ArrayFrom, Zenon DEF kids
  <2>2. ~(l <= 0) /\ ~(l > MaxArray) /\ Shorter(l, l) = l
    BY <1>4, BoundsAssumption DEF Shorter
  <2> QED BY <2>1, <2>2, Zenon DEF ArrayOf
<1>6. x.kind = "array" /\ x.items = items
  <2>1. PICK k, t : k = "array" /\ Node(NewArray, k, t)
    BY Zenon DEF NewArray, Leaf, Node
  <2>2. \A i : WithItems(NewArray, i).kind = k /\ WithItems(NewArray, i).items = i
    BY <2>1 DEF Node, WithItems
  <2> HIDE DEF items
  <2> QED BY <2>1, <2>2, Zenon
<1> HIDE DEF x
<1>7. Child(x, s) = IF s.index \in 0 .. Len(items) - 1 THEN items[s.index + 1].node ELSE Nil
  BY <1>6, ArrayChild
<1>8. Len(items) = l
  <2>1. PICK y : y = ""
    OBVIOUS
  <2>2. items = [j \in 1 .. l |-> Item(y, node[m][kids[j]])]
    BY <2>1, Zenon
  <2> HIDE DEF items
  <2> QED BY <1>4, <2>2
<1>9. Content(x) = <<>>
  BY <1>6 DEF Content, LeafKinds
<1>10. CASE s.index \in 0 .. l - 1
  <2>1. PICK j : j = s.index + 1
    OBVIOUS
  <2>2. j \in 1 .. l /\ j \in DOMAIN kids
    BY <1>4, <1>10, <2>1
  <2>3. items[j] = Item("", node[m][kids[j]])
    BY <2>2, Zenon
  <2> HIDE DEF items
  <2>4. items[j].node = node[m][kids[j]]
    <3>1. PICK y, z : items[j] = Item(y, z) /\ z = node[m][kids[j]]
      BY <2>3, Zenon
    <3>2. Item(y, z).node = z
      BY Items, Zenon
    <3> QED BY <3>1, <3>2
  <2>5. Child(x, s) = node[m][kids[j]]
    BY <1>7, <1>8, <1>10, <2>1, <2>4, Zenon
  <2>6. PICK f : f = <<kids[j]>> /\ f # <<>> /\ f[1] = kids[j]
    BY Single, Zenon
  <2>7. Below(<<e>>, s) = f
    BY <1>3, <1>10, <2>1, <2>6, Zenon
  <2>8. Agree(f, Child(x, s), node)
    BY <1>1, <2>2, <2>5, <2>6, Zenon DEF Agree
  <2> QED BY <1>5, <1>9, <2>7, <2>8, Zenon
<1>11. CASE s.index \notin 0 .. l - 1
  <2>1. Child(x, s) = Nil
    BY <1>7, <1>8, <1>11, Zenon
  <2>2. Below(<<e>>, s) = <<>>
    BY <1>3, <1>11, Zenon
  <2>3. Agree(<<>>, Child(x, s), node)
    BY <2>1, Zenon DEF Agree
  <2> QED BY <1>5, <1>9, <2>2, <2>3, Zenon
<1> QED BY <1>10, <1>11

\* Of a struct.
LEMMA CompactStruct ==
  ASSUME NEW m \in Nat, NEW e, e.tag = "struct", IsCompact(e, Compact(m)), NEW T,
         Elements(e.kids) \in Seq(T), NEW node, NEW s \in Segments
  PROVE  Agree(Below(<<e>>, s), Child(NodeFromXml(e, node[m]), s), node)
         /\ Content(NodeFromXml(e, node[m])) = <<>>
<1> DEFINE kids == Elements(e.kids)
           l == Len(kids)
           items == [j \in 1 .. l |-> Item(kids[j].val, node[m][kids[j].kids[1]])]
           x == WithItems(NewStruct, items)
<1>1. \A j \in DOMAIN kids : /\ kids[j].tag = "var" /\ Len(kids[j].kids) = 1
                             /\ kids[j].kids[1] \in Compact(m)
  BY Zenon DEF IsCompact
<1>2. e.tag # "array" /\ <<e>> # <<>> /\ <<e>>[1] = e
  OBVIOUS
<1>3. Below(<<e>>, s) = IF s.index < 0 /\ Var(kids, s.name) > 0
                          THEN kids[Var(kids, s.name)].kids ELSE <<>>
  BY <1>2, Zenon DEF Below
<1> HIDE DEF kids
<1>4. kids \in Seq(T) /\ l \in Nat /\ DOMAIN kids = 1 .. l
  <2>1. kids \in Seq(T)
    BY DEF kids
  <2> QED BY <2>1
<1>5. \A j \in 1 .. l : kids[j].kids # <<>>
  <2>1. \A y : Len(y) = 1 => y # <<>>
    <3>1. Len(<<>>) = 0 /\ 0 # 1
      OBVIOUS
    <3> QED BY <3>1, Zenon
  <2> QED BY <1>1, <1>4, <2>1, Zenon
<1>6. NodeFromXml(e, node[m]) = x
  <2>1. \A j \in 1 .. l : kids[j].tag = "var"
    BY <1>1, <1>4, Zenon
  <2>2. Vars(kids) = l
    BY <1>4, <2>1, AllVars, Zenon
  <2>3. NodeFromXml(e, node[m]) = StructOf(kids, l, node[m])
    BY <2>2, StructFrom, Zenon DEF kids
  <2>4. ~\E j \in 1 .. l : kids[j].kids = <<>> \/ kids[j].tag # "var"
    BY <1>5, <2>1, Zenon
  <2> QED BY <2>3, <2>4, Zenon DEF StructOf
<1>7. x.kind = "struct" /\ x.items = items
  <2>1. PICK k, t : k = "struct" /\ Node(NewStruct, k, t)
    BY Zenon DEF NewStruct, Leaf, Node
  <2>2. \A i : WithItems(NewStruct, i).kind = k /\ WithItems(NewStruct, i).items = i
    BY <2>1 DEF Node, WithItems
  <2> HIDE DEF items
  <2> QED BY <2>1, <2>2, Zenon
<1> HIDE DEF x
<1>8. Len(items) = l /\ DOMAIN items = 1 .. l
  BY <1>4
<1>9. \A j \in 1 .. l : items[j].name = kids[j].val /\ items[j].node = node[m][kids[j].kids[1]]
  <2>1. \A j \in 1 .. l : items[j] = Item(kids[j].val, node[m][kids[j].kids[1]])
    BY Zenon
  <2> HIDE DEF items
  <2>2. ASSUME NEW j \in 1 .. l
        PROVE  items[j].name = kids[j].val /\ items[j].node = node[m][kids[j].kids[1]]
    BY <2>1, Items
  <2> QED BY <2>2
<1> HIDE DEF items
<1>10. Member(x, s.name) = Var(kids, s.name)
  <2> DEFINE first(found) == IF found # {} THEN Min(found) ELSE 0
  <2>1. Member(x, s.name) = first({j \in 1 .. l : items[j].name = s.name})
    BY <1>7, <1>8 DEF Member, SelectInSeq
  <2>2. Var(kids, s.name) = first({j \in 1 .. l : kids[j].val = s.name})
    BY DEF Var, SelectInSeq
  <2> HIDE DEF first
  <2>3. {j \in 1 .. l : items[j].name = s.name} = {j \in 1 .. l : kids[j].val = s.name}
    BY <1>9
  <2> QED BY <2>1, <2>2, <2>3, Zenon
<1>11. Child(x, s) = IF s.index < 0 /\ Member(x, s.name) > 0
                       THEN items[Member(x, s.name)].node ELSE Nil
  BY <1>7 DEF Child
<1>12. Member(x, s.name) = 0 \/ Member(x, s.name) \in 1 .. l
  <2>1. items \in Seq({items[j] : j \in 1 .. l})
    BY <1>4 DEF items
  <2> QED BY <1>7, <1>8, <2>1, MemberFinds
<1>13. Content(x) = <<>>
  BY <1>7 DEF Content, LeafKinds
<1>14. CASE s.index < 0 /\ Member(x, s.name) > 0
  <2>1. PICK j \in 1 .. l : j = Member(x, s.name)
    BY <1>12, <1>14
  <2>2. Child(x, s) = node[m][kids[j].kids[1]]
    BY <1>9, <1>11, <1>14, <2>1, Zenon
  <2>3. Below(<<e>>, s) = kids[j].kids
    BY <1>3, <1>10, <1>14, <2>1, Zenon
  <2>4. kids[j].kids # <<>> /\ kids[j].kids[1] \in Compact(m)
    BY <1>1, <1>4, <1>5, <2>1
  <2>5. Agree(kids[j].kids, Child(x, s), node)
    BY <2>2, <2>4, Zenon DEF Agree
  <2> QED BY <1>6, <1>13, <2>3, <2>5, Zenon
<1>15. CASE ~(s.index < 0 /\ Member(x, s.name) > 0)
  <2>1. Child(x, s) = Nil
    BY <1>11, <1>15, Zenon
  <2>2. Below(<<e>>, s) = <<>>
    BY <1>3, <1>10, <1>15, Zenon
  <2>3. Agree(<<>>, Child(x, s), node)
    BY <2>1, Zenon DEF Agree
  <2> QED BY <1>6, <1>13, <2>2, <2>3, Zenon
<1> QED BY <1>14, <1>15

\* Of any other: a leaf, or nothing.
LEMMA CompactOther ==
  ASSUME NEW e, e.tag # "array", e.tag # "struct", NEW N, IsCompact(e, N),
         NEW before, NEW node, NEW s
  PROVE  /\ Agree(Below(<<e>>, s), Child(NodeFromXml(e, before), s), node)
         /\ Content(NodeFromXml(e, before))
              = IF e.tag \in LeafKinds THEN <<e.tag, e.val>> ELSE <<>>
<1> DEFINE x == NodeFromXml(e, before)
<1>1. <<e>> # <<>> /\ <<e>>[1] = e
  OBVIOUS
<1>2. Below(<<e>>, s) = <<>>
  BY <1>1, Zenon DEF Below
<1>3. ~Unreadable(e.tag, e.val) /\ TextFromXml(e.tag, e.val) = e.val
  BY Zenon DEF IsCompact
<1>4. CASE e.tag \in LeafKinds
  <2>1. x = Leaf(e.tag, e.val)
    BY <1>3, <1>4, Zenon DEF NodeFromXml
  <2>2. Leaf(e.tag, e.val).kind = e.tag /\ Leaf(e.tag, e.val).text = e.val
    BY DEF Leaf
  <2>3. x.kind = e.tag /\ x.text = e.val
    BY <2>1, <2>2, Zenon
  <2> HIDE DEF x
  <2>4. Child(x, s) = Nil
    BY <2>3, Zenon DEF Child
  <2>5. Content(x) = <<e.tag, e.val>>
    BY <1>4, <2>3, Zenon DEF Content
  <2> QED BY <1>2, <1>4, <2>4, <2>5, Zenon DEF Agree, x
<1>5. CASE e.tag \notin LeafKinds
  <2>1. x = Nil
    BY <1>5, Zenon DEF NodeFromXml
  <2>2. Child(Nil, s) = Nil /\ Content(Nil) = <<>>
    BY ChildOfLeaf, Kinds, Zenon
  <2> QED BY <1>2, <1>5, <2>1, <2>2, Zenon DEF Agree
<1> QED BY <1>4, <1>5

\* Segment after segment, what a path names in the XML and what it reaches in
\* the tree agree; and so do their contents.
LEMMA AgreeBelow ==
  ASSUME NEW node, IsFromXml(node), NEW found, NEW x, Agree(found, x, node), NEW s \in Segments
  PROVE  Agree(Below(found, s), Child(x, s), node)
<1>1. CASE found = <<>> /\ x = Nil
  <2>1. Below(found, s) = <<>>
    BY <1>1, Zenon DEF Below
  <2>2. Child(x, s) = Nil
    BY <1>1, ChildOfLeaf, Zenon
  <2> QED BY <2>1, <2>2, Zenon DEF Agree
<1>2. ASSUME found # <<>>, NEW n \in Nat, found[1] \in Compact(n), x = node[n][found[1]]
      PROVE  Agree(Below(found, s), Child(x, s), node)
  <2>1. PICK e : e = found[1]
    OBVIOUS
  <2>2. Below(found, s) = Below(<<e>>, s)
    BY <1>2, <2>1, Single, Zenon DEF Below
  <2>3. PICK m \in Nat : /\ IsCompact(e, Compact(m)) /\ node[n][e] = NodeFromXml(e, node[m])
                         /\ Elements(e.kids) \in Seq(ElementsTo(m))
    BY <1>2, <2>1, CompactElement, Zenon
  <2>4. x = NodeFromXml(e, node[m])
    BY <1>2, <2>1, <2>3
  <2>5. Agree(Below(<<e>>, s), Child(NodeFromXml(e, node[m]), s), node)
    <3>1. CASE e.tag = "array"
      BY <2>3, <3>1, CompactArray, Zenon
    <3>2. CASE e.tag = "struct"
      BY <2>3, <3>2, CompactStruct, Zenon
    <3>3. CASE e.tag # "array" /\ e.tag # "struct"
      BY <2>3, <3>3, CompactOther, Zenon
    <3> QED BY <3>1, <3>2, <3>3
  <2> QED BY <2>2, <2>4, <2>5, Zenon
<1> QED BY <1>1, <1>2, Zenon DEF Agree

\* And where they agree, their contents are the same.
LEMMA AgreeContent ==
  ASSUME NEW node, IsFromXml(node), NEW found, NEW x, Agree(found, x, node)
  PROVE  Content(x) = XmlContent(found)
<1>1. CASE found = <<>> /\ x = Nil
  BY <1>1, Kinds, Zenon DEF XmlContent
<1>2. ASSUME found # <<>>, NEW n \in Nat, found[1] \in Compact(n), x = node[n][found[1]]
      PROVE  Content(x) = XmlContent(found)
  <2>1. PICK e : e = found[1]
    OBVIOUS
  <2>2. XmlContent(found) = IF e.tag \in LeafKinds THEN <<e.tag, e.val>> ELSE <<>>
    BY <1>2, <2>1, Zenon DEF XmlContent
  <2>3. PICK m \in Nat : /\ IsCompact(e, Compact(m)) /\ node[n][e] = NodeFromXml(e, node[m])
                         /\ Elements(e.kids) \in Seq(ElementsTo(m))
    BY <1>2, <2>1, CompactElement, Zenon
  <2>4. x = NodeFromXml(e, node[m])
    BY <1>2, <2>1, <2>3
  <2>5. PICK s : s \in Segments
    <3>1. PICK y : y \in STRING
      BY LiteralsAssumption, Zenon
    <3>2. PICK i : i = -1 /\ i \in Int
      OBVIOUS
    <3>3. [index |-> i, name |-> y].index = i
      OBVIOUS
    <3>4. [index |-> i, name |-> y] \in Segments
      BY <3>1, <3>2, <3>3, Zenon DEF Segments
    <3> QED BY <3>4
  <2>6. Content(NodeFromXml(e, node[m])) = IF e.tag \in LeafKinds THEN <<e.tag, e.val>> ELSE <<>>
    <3>1. "array" \notin LeafKinds /\ "struct" \notin LeafKinds
      BY DEF LeafKinds
    <3>2. CASE e.tag = "array"
      BY <2>3, <2>5, <3>1, <3>2, CompactArray, Zenon
    <3>3. CASE e.tag = "struct"
      BY <2>3, <2>5, <3>1, <3>3, CompactStruct, Zenon
    <3>4. CASE e.tag # "array" /\ e.tag # "struct"
      BY <2>3, <3>4, CompactOther, Zenon
    <3> QED BY <3>2, <3>3, <3>4
  <2> QED BY <2>2, <2>4, <2>6, Zenon
<1> QED BY <1>1, <1>2, Zenon DEF Agree

\* A compact document is read as what it names.
LEMMA CompactIsRead ==
  ASSUME NEW kids, kids # <<>>, kids[1] \in Compact(XmlDepth), NEW p \in Paths
  PROVE  Read(FromXml(kids[1]), p) = XmlContent(XmlAt(kids, p))
<1>1. PICK node : IsFromXml(node) /\ \A element : FromXml(element) = node[XmlDepth][element]
  BY FromXmlIs, Zenon DEF IsFromXml
<1>2. PICK found : /\ found[0] = kids
                   /\ \A n \in Nat : found[n + 1] = Below(found[n], p[n + 1])
                   /\ XmlAt(kids, p) = found[Len(p)]
  <2>1. PICK f : Finds(f, kids, p)
    BY FoundIs, Zenon
  <2> QED BY <2>1, Zenon DEF Finds
<1>3. PICK root : root = FromXml(kids[1])
  OBVIOUS
<1>4. PICK at : /\ at[0] = root
                /\ \A n \in Nat : at[n + 1] = Child(at[n], p[n + 1])
                /\ Get(root, p) = at[Len(p)]
  <2>1. \A y, q : /\ Reached(y, q)[0] = y
                  /\ \A n \in Nat : Reached(y, q)[n + 1] = Child(Reached(y, q)[n], q[n + 1])
    BY ReachedIs, Zenon
  <2> QED BY <2>1, Zenon DEF Get
<1>5. p \in Seq(Segments) /\ Len(p) \in Nat
  BY PathsAssumption
<1> DEFINE T == {i \in Nat : i <= Len(p) => Agree(found[i], at[i], node)}
<1>6. 0 \in T
  <2>1. XmlDepth \in Nat
    BY BoundsAssumption DEF XmlDepth
  <2>2. root = node[XmlDepth][kids[1]]
    BY <1>1, <1>3, Zenon
  <2>3. Agree(kids, root, node)
    BY <2>1, <2>2, Zenon DEF Agree
  <2> QED BY <1>2, <1>4, <2>3
<1>7. ASSUME NEW i \in Nat, i \in T PROVE i + 1 \in T
  <2> SUFFICES ASSUME i + 1 <= Len(p) PROVE Agree(found[i + 1], at[i + 1], node)
    OBVIOUS
  <2>1. i <= Len(p) /\ p[i + 1] \in Segments
    BY <1>5
  <2>2. Agree(found[i], at[i], node)
    BY <1>7, <2>1
  <2>3. Agree(Below(found[i], p[i + 1]), Child(at[i], p[i + 1]), node)
    BY <1>1, <2>1, <2>2, AgreeBelow, Zenon
  <2> QED BY <1>2, <1>4, <2>3, Zenon
<1> HIDE DEF T
<1>8. \A i \in Nat : i \in T
  BY <1>6, <1>7, NatSetInduction
<1>9. Agree(found[Len(p)], at[Len(p)], node)
  <2>1. Len(p) <= Len(p)
    BY <1>5
  <2> QED BY <1>5, <1>8, <2>1, Zenon DEF T
<1>10. Content(at[Len(p)]) = XmlContent(found[Len(p)])
  BY <1>1, <1>9, AgreeContent, Zenon
<1> QED BY <1>2, <1>3, <1>4, <1>10, Zenon DEF Read

\* What was parsed last is what is made of the document that came last.
ParsedInv == parsed = FromPacket(doc)

\* Of a compact document every value is read under the path that it has in the
\* XML (ReadsWhatWasSent), also behind elements that are not understood: the
\* parser neither shifts nor drops nor mixes up anything.
THEOREM Reading == Spec => []ReadsWhatWasSent
<1>1. Init => ParsedInv
  <2> SUFFICES ASSUME doc = NoPacket, parsed = Nil PROVE parsed = FromPacket(doc)
    BY Zenon DEF Init, ParsedInv
  <2>1. ~NoPacket.valid
    BY DEF NoPacket
  <2> QED BY <2>1, Zenon DEF FromPacket
<1>2. ParsedInv /\ [Next]_vars => ParsedInv'
  <2> SUFFICES ASSUME ParsedInv, [Next]_vars PROVE ParsedInv'
    OBVIOUS
  <2>1. ASSUME NEW q \in Paths, NEW v \in Values, WddxPut(q, v) PROVE ParsedInv'
    BY <2>1, Zenon DEF WddxPut, ParsedInv
  <2>2. CASE WddxExchange
    BY <2>2, Zenon DEF WddxExchange, ParsedInv
  <2>3. ASSUME NEW x \in Documents, WddxFromXml(x) PROVE ParsedInv'
    BY <2>3, Zenon DEF WddxFromXml, ParsedInv
  <2>4. CASE WddxCleanup
    BY <2>4, Zenon DEF WddxCleanup, ParsedInv
  <2>5. CASE UNCHANGED vars
    BY <2>5, Zenon DEF vars, ParsedInv
  <2> QED BY <2>1, <2>2, <2>3, <2>4, <2>5, Zenon DEF Next
<1>3. ParsedInv => ReadsWhatWasSent
  <2> SUFFICES ASSUME ParsedInv, doc.valid, doc.kids # <<>>,
                      doc.kids[1] \in Compact(XmlDepth), NEW p \in Paths
               PROVE  Read(parsed, p) = XmlContent(XmlAt(doc.kids, p))
    BY Zenon DEF ReadsWhatWasSent
  <2>1. parsed = FromXml(doc.kids[1])
    BY Zenon DEF ParsedInv, FromPacket
  <2>2. Read(FromXml(doc.kids[1]), p) = XmlContent(XmlAt(doc.kids, p))
    BY CompactIsRead, Zenon
  <2> QED BY <2>1, <2>2, Zenon
<1> QED BY <1>1, <1>2, <1>3, PTL DEF Spec
=============================================================================
