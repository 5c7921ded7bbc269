-------------------------------- MODULE Wddx --------------------------------
(***************************************************************************)
(* The WDDX documents of src/wddx.c: a document is built by puts on paths, *)
(* written as XML and sent; what a server sends is parsed and read by      *)
(* path.                                                                   *)
(*                                                                         *)
(* A node is a tree value. The code changes it in place and moves it with  *)
(* realloc, so that a put has two results: what it returns, and what the   *)
(* caller's old pointer shows afterwards, unless the block it points to    *)
(* has been moved; everything that touches such a document is undefined,   *)
(* and the model ends. Texts are plain, or hold an ampersand ("amp"). XML  *)
(* is libxml2's (external).                                                *)
(*                                                                         *)
(* Where the code recurses, a function over the depth has the values of    *)
(* the recursion: at depth i, in terms of those at i - 1.                  *)
(***************************************************************************)
EXTENDS Integers, Sequences, FiniteSets, SequencesExt

CONSTANTS
  Paths,         \* the paths in use
  Values,        \* the leaves in use: their kind and text
  Documents,     \* what a server may send
  MaxArray,      \* WDDX_MAX_ARRAY_LENGTH
  MaxDepth,      \* segments of the longest path
  MaxPuts,       \* puts on a document (bounds the runs)
  AllocMayFail   \* TRUE: any malloc, realloc or strdup may return NULL

\* The segments of a path: digits are an index, all else is a name; between
\* two commas, or before the first, the segment is empty.
Idx(i) == [index |-> i, name |-> ""]
Key(n) == [index |-> -1, name |-> n]
NoSegment == Key("")
Segments == {s \in [index : Int, name : STRING] :
               s.index = -1 \/ (s.index >= 0 /\ s.name = "")}

ASSUME BoundsAssumption ==
  MaxArray \in Nat \ {0} /\ MaxDepth \in Nat /\ MaxPuts \in Nat
ASSUME AllocAssumption == AllocMayFail \in BOOLEAN
ASSUME PathsAssumption == \A p \in Paths : p \in Seq(Segments) /\ Len(p) <= MaxDepth

VARIABLES
  data,      \* the tree of the document under construction
  dangling,  \* it holds a pointer to a block that realloc has moved
  puts,      \* puts made on it
  told,      \* what the last put returned
  stored,    \* ghost: what a path was last given a leaf for
  honest,    \* ghost: every put so far told whether it stored its leaf
  clean,     \* ghost: no path had an empty segment or an index out of range
  oom,       \* ghost: an allocation failed
  leaked,    \* ghost: a block was lost
  over,      \* ghost: a put replaced what was there
  doc,       \* what was parsed last
  parsed     \* the tree it gave

ghosts == <<stored, honest, clean, oom, leaked, over>>
vars == <<data, dangling, puts, told, ghosts, doc, parsed>>

-----------------------------------------------------------------------------
(* Nodes.                                                                  *)

Leaf(kind, text) == [kind |-> kind, text |-> text, items |-> <<>>]
Nil         == Leaf("nil", "")
NewArray    == Leaf("array", "")
NewStruct   == Leaf("struct", "")
LeafKinds   == {"null", "boolean", "number", "string"}

\* What TLC knows of literals, and the provers do not.
ASSUME LiteralsAssumption == LeafKinds \cup {"array", "struct", "var", ""} \subseteq STRING

Item(n, x)  == [name |-> n, node |-> x]
WithNode(node, j, x) ==
  [node EXCEPT !.items = [k \in DOMAIN @ |-> IF k = j THEN Item(@[k].name, x) ELSE @[k]]]

\* The texts of a kind that the parser makes nothing of; the puts write none
\* of them ("%.16g", "true" or "false").
Unreadable(kind, text) ==
  \/ kind = "number" /\ text \in {"", "NaN?"}
  \/ kind = "boolean" /\ text = ""

\* What it makes of the others: "false" is false, all else true; a null has no
\* text.
TextFromXml(kind, text) ==
  IF kind = "null" THEN "" ELSE IF kind = "boolean" /\ text # "false" THEN "true" ELSE text

ASSUME ValuesAssumption ==
  \A v \in Values : /\ v \in {"boolean", "number", "string"} \X STRING
                    /\ ~Unreadable(v[1], v[2]) /\ TextFromXml(v[1], v[2]) = v[2]

\* The place of the first member of that name; 0 if there is none.
Member(node, n) == SelectInSeq(node.items, LAMBDA item : item.name = n)

\* What a segment leads to.
Child(node, s) ==
  IF node.kind = "array" /\ s.index \in 0 .. Len(node.items) - 1
    THEN node.items[s.index + 1].node
  ELSE IF node.kind = "struct" /\ s.index < 0 /\ Member(node, s.name) > 0
    THEN node.items[Member(node, s.name)].node
  ELSE Nil

\* What a path leads to, segment after segment.
Reached(node, path) ==
  LET at[i \in Nat] == IF i = 0 THEN node ELSE Child(at[i - 1], path[i]) IN at

\* wddx_recursively_get, and the typed getters on top of it.
Get(node, path) == Reached(node, path)[Len(path)]
Content(node) == IF node.kind \in LeafKinds THEN <<node.kind, node.text>> ELSE <<>>
Read(node, path) == Content(Get(node, path))

\* The slots up to n, the new ones zeroed.
Grown(node, n) ==
  [node EXCEPT !.items =
     [j \in 1 .. (IF n > Len(@) THEN n ELSE Len(@)) |->
        IF j <= Len(@) THEN @[j] ELSE Item("", Nil)]]

-----------------------------------------------------------------------------
(* wddx_recursively_put: the set of its outcomes. Of what a put below      *)
(* returns, a node is made the new child; below are those outcomes.        *)

Failed(node) == [ret |-> Nil, old |-> node, moved |-> FALSE,
                 stored |-> FALSE, leaked |-> FALSE, oom |-> FALSE]
OutOfMemory(node) ==
  IF AllocMayFail THEN {[Failed(node) EXCEPT !.oom = TRUE]} ELSE {}

\* An empty path: a new leaf, in place of whatever was there.
PutLeaf(node, leaf) ==
  {[Failed(node) EXCEPT !.ret = leaf, !.stored = TRUE, !.leaked = (node # Nil)]}
    \cup OutOfMemory(node)

\* Mutant of PutSlot: the slot is not given what the put below returned.
PutSlotForgetting(node, j, below) ==
  LET child == node.items[j].node IN
  {IF o.ret = Nil /\ child # Nil
     THEN [o EXCEPT !.old = WithNode(node, j, o.old)]
     ELSE [o EXCEPT !.ret = IF child = Nil THEN WithNode(node, j, o.ret) ELSE node]
   : o \in below}

\* NULL for what is in slot j is a failure only if there was something in it;
\* otherwise the node is returned, the slot empty.
PutSlot(node, j, below) ==
  LET child == node.items[j].node IN
  {IF o.ret = Nil /\ child # Nil
     THEN [o EXCEPT !.old = WithNode(node, j, o.old)]
     ELSE [o EXCEPT !.ret = WithNode(node, j, o.ret)]
   : o \in below}

PutIndex(node, i, below) ==
  LET base == IF node = Nil THEN NewArray ELSE node IN
  IF i >= MaxArray \/ base.kind # "array" THEN {Failed(node)}
  ELSE PutSlot(Grown(base, i + 1), i + 1, below)
         \cup (IF i + 1 > Len(base.items) THEN OutOfMemory(node) ELSE {})

\* A new member: the struct is grown first; if the value cannot be made, a
\* struct that was there before is left moved or in its place.
Added(base, n, o) == [o EXCEPT !.ret = [base EXCEPT !.items = Append(@, Item(n, o.ret))]]
NotAdded(node, o) ==
  IF node = Nil THEN {[o EXCEPT !.old = Nil]}
  ELSE {[o EXCEPT !.old = node], [o EXCEPT !.old = node, !.moved = TRUE, !.leaked = TRUE]}
AddMember(node, n, below) ==
  LET base == IF node = Nil THEN NewStruct ELSE node IN
  OutOfMemory(node)
    \cup UNION {IF o.ret # Nil THEN {Added(base, n, o)} ELSE NotAdded(node, o)
                : o \in below \cup OutOfMemory(Nil)}

\* Mutant of PutName: members are not searched for.
PutNameAlwaysNew(node, n, below) ==
  IF node.kind \notin {"nil", "struct"} THEN {Failed(node)}
  ELSE AddMember(node, n, below)

\* Mutant of PutName: the struct is grown before the search.
PutNameGrownFirst(node, n, below) ==
  IF node.kind \notin {"nil", "struct"} THEN {Failed(node)}
  ELSE IF Member(node, n) > 0
    THEN UNION {IF o.ret # Nil THEN {o}
                ELSE {o, [o EXCEPT !.moved = TRUE, !.leaked = TRUE]}
                : o \in PutSlot(node, Member(node, n), below)}
    ELSE AddMember(node, n, below)

PutName(node, n, below) ==
  IF node.kind \notin {"nil", "struct"} THEN {Failed(node)}
  ELSE IF Member(node, n) > 0 THEN PutSlot(node, Member(node, n), below)
  ELSE AddMember(node, n, below)

PutInto(node, s, below) ==
  IF s = NoSegment THEN {Failed(node)}
  ELSE IF s.index >= 0 THEN PutIndex(node, s.index, below)
  ELSE PutName(node, s.name, below)

\* Down the path, and back up: put[k] is of the last k segments.
Put(node, path, leaf) ==
  LET at == Reached(node, path)
      n == Len(path)
      put[k \in Nat] == IF k = 0 THEN PutLeaf(at[n], leaf)
                        ELSE PutInto(at[n - k], path[n - k + 1], put[k - 1])
  IN  put[n]

-----------------------------------------------------------------------------
(* The trees that puts make, by their depth, from what is at the bottom.   *)

Named(items) == \A j, k \in DOMAIN items : items[j].name = items[k].name => j = k
Arrays(N) == [kind : {"array"}, text : {""},
              items : {s \in Seq([name : {""}, node : N]) : Len(s) \in 1 .. MaxArray}]
Structs(N) == [kind : {"struct"}, text : {""},
               items : {s \in Seq([name : STRING \ {""}, node : N]) : Named(s)}]

TreesOf(bottom, d) ==
  LET trees[i \in Nat] == IF i = 0 THEN bottom
                          ELSE bottom \cup Arrays(trees[i - 1]) \cup Structs(trees[i - 1])
  IN  trees[d]

Leaves == {Leaf(v[1], v[2]) : v \in Values}
Trees(d) == TreesOf(Leaves \cup {Nil}, d)

\* Nothing in them is lost in XML: no empty slot, no ampersand.
Gapless == TreesOf({x \in Leaves : x.text # "amp"}, MaxDepth)

-----------------------------------------------------------------------------
(* XML, by its elements: a var has its name, all others their text in val. *)

El(tag, val, len, kids) == [tag |-> tag, val |-> val, len |-> len, kids |-> kids]
Space == El("space", "", 0, <<>>)

\* Elements that nest no deeper than d.
ElementsTo(d) ==
  LET elements[i \in Nat] ==
        IF i = 0 THEN {}
        ELSE [tag : STRING, val : STRING, len : Int, kids : Seq(elements[i - 1])]
  IN  elements[d]

\* A struct takes two levels of XML, itself and its vars. (libxml2 refuses more
\* than 256.)
XmlDepth == 2 * MaxDepth + 1
ASSUME DocumentsAssumption ==
  Documents \subseteq [valid : BOOLEAN, kids : Seq(ElementsTo(XmlDepth))]

\* xmlNewChild takes its text as XML: an ampersand ends it.
XmlText(text) == IF text = "amp" THEN "" ELSE text

\* Of a sequence, what is at these places.
Chosen(s, places) ==
  LET chosen[i \in Nat] == IF i = 0 THEN <<>>
                           ELSE IF i \in places THEN Append(chosen[i - 1], s[i])
                           ELSE chosen[i - 1]
  IN  chosen[Len(s)]

\* For NULL nothing is written.
Written(node, xml) == IF node = Nil THEN <<>> ELSE <<xml[node]>>
Filled(items) == Chosen(items, {j \in DOMAIN items : items[j].node # Nil})

\* Mutant of ArrayToXml: the last index instead of the length.
ArrayToXmlShort(node, xml) ==
  El("array", "", Len(node.items) - 1,
     [j \in DOMAIN Filled(node.items) |-> xml[Filled(node.items)[j].node]])

ArrayToXml(node, xml) ==
  El("array", "", Len(node.items),
     [j \in DOMAIN Filled(node.items) |-> xml[Filled(node.items)[j].node]])

StructToXml(node, xml) ==
  El("struct", "", 0,
     [j \in DOMAIN node.items |->
        El("var", node.items[j].name, 0, Written(node.items[j].node, xml))])

\* wddx_to_xml_node: the element of a node, given those of its children.
NodeToXml(node, xml) ==
  CASE node.kind = "array"   -> ArrayToXml(node, xml)
    [] node.kind = "struct"  -> StructToXml(node, xml)
    [] node.kind = "boolean" -> El("boolean", node.text, 0, <<>>)
    [] OTHER                 -> El(node.kind, XmlText(node.text), 0, <<>>)

ToXml(tree) ==
  LET xml[i \in Nat] == IF i = 0 THEN <<>>
                        ELSE [x \in Trees(i - 1) |-> NodeToXml(x, xml[i - 1])]
  IN  xml[MaxDepth + 1][tree]

Packet(node) ==
  [valid |-> TRUE, kids |-> IF node = Nil THEN <<>> ELSE <<ToXml(node)>>]

Elements(kids) == Chosen(kids, {j \in DOMAIN kids : kids[j].tag # "space"})
Shorter(m, n) == IF m < n THEN m ELSE n

\* Mutant of ArrayFromXml: an element that is no value takes no slot.
ArrayFromXmlPacked(e, node) ==
  LET kids == Elements(e.kids) IN
  IF e.len <= 0 \/ e.len > MaxArray THEN Nil
  ELSE [NewArray EXCEPT !.items =
          Filled([j \in 1 .. Shorter(e.len, Len(kids)) |-> Item("", node[kids[j]])])]

\* Element j, whatever becomes of it, is item j - 1.
ArrayFromXml(e, node) ==
  LET kids == Elements(e.kids) IN
  IF e.len <= 0 \/ e.len > MaxArray THEN Nil
  ELSE [NewArray EXCEPT !.items =
          [j \in 1 .. Shorter(e.len, Len(kids)) |-> Item("", node[kids[j]])]]

\* As many elements are read as there are vars.  One without a child, or
\* without a name, makes the whole struct NULL; of the others the first child
\* counts, be it white space.
StructFromXml(e, node) ==
  LET kids == Elements(e.kids)
      read == 1 .. Cardinality({j \in DOMAIN kids : kids[j].tag = "var"})
  IN
  IF \E j \in read : kids[j].kids = <<>> \/ kids[j].tag # "var" THEN Nil
  ELSE [NewStruct EXCEPT !.items =
          [j \in read |-> Item(kids[j].val, node[kids[j].kids[1]])]]

\* wddx_from_xml_element: the node of an element, given those of the elements
\* in it.
NodeFromXml(e, node) ==
  CASE e.tag = "array"  -> ArrayFromXml(e, node)
    [] e.tag = "struct" -> StructFromXml(e, node)
    [] e.tag \in LeafKinds /\ ~Unreadable(e.tag, e.val) ->
           Leaf(e.tag, TextFromXml(e.tag, e.val))
    [] OTHER -> Nil

FromXml(element) ==
  LET node[i \in Nat] == IF i = 0 THEN <<>>
                         ELSE [e \in ElementsTo(i) |-> NodeFromXml(e, node[i - 1])]
  IN  node[XmlDepth][element]

\* wddx_from_xml: NULL for what is no packet; the first child of data counts.
FromPacket(x) ==
  IF ~x.valid \/ x.kids = <<>> THEN Nil ELSE FromXml(x.kids[1])

-----------------------------------------------------------------------------
CleanPath(p) ==
  \A j \in DOMAIN p : p[j] # NoSegment /\ p[j].index < MaxArray

\* wddx_put_bool, wddx_put_number and wddx_put_string, through wddx_put.
WddxPut(p, v) ==
  /\ puts < MaxPuts /\ ~dangling
  /\ \E o \in Put(data, p, Leaf(v[1], v[2])) :
       /\ told' = (o.ret # Nil)
       /\ data' = IF o.ret = Nil THEN o.old ELSE o.ret
       /\ dangling' = o.moved
       /\ stored' = IF ~o.stored THEN stored
                    ELSE [q \in Paths |-> IF q = p THEN v
                                          ELSE IF IsPrefix(p, q) THEN <<>>
                                          ELSE stored[q]]
       /\ honest' = (honest /\ told' = o.stored)
       /\ leaked' = (leaked \/ o.leaked)
       /\ over' = (over \/ Get(data, p) # Nil)
       /\ oom' = (oom \/ o.oom)
  /\ clean' = (clean /\ CleanPath(p))
  /\ puts' = puts + 1
  /\ UNCHANGED <<doc, parsed>>

\* The document is written, sent, and parsed by who receives it.
WddxExchange ==
  /\ ~dangling
  /\ doc' = Packet(data)
  /\ parsed' = FromPacket(doc')
  /\ UNCHANGED <<data, dangling, puts, told, ghosts>>

\* A server's document is parsed.
WddxFromXml(x) ==
  /\ doc' = x
  /\ parsed' = FromPacket(x)
  /\ UNCHANGED <<data, dangling, puts, told, ghosts>>

\* wddx_cleanup, and a new document.
WddxCleanup ==
  /\ ~dangling /\ data # Nil
  /\ data' = Nil /\ stored' = [p \in Paths |-> <<>>] /\ told' = FALSE
  /\ UNCHANGED <<dangling, puts, honest, clean, oom, leaked, over, doc, parsed>>

NoPacket == [valid |-> FALSE, kids |-> <<>>]

Init ==
  /\ data = Nil /\ dangling = FALSE /\ puts = 0 /\ told = FALSE
  /\ stored = [p \in Paths |-> <<>>]
  /\ honest = TRUE /\ clean = TRUE /\ oom = FALSE /\ leaked = FALSE /\ over = FALSE
  /\ doc = NoPacket /\ parsed = Nil

Next ==
  \/ \E p \in Paths, v \in Values : WddxPut(p, v)
  \/ WddxExchange
  \/ \E x \in Documents : WddxFromXml(x)
  \/ WddxCleanup

Spec == Init /\ [][Next]_vars

-----------------------------------------------------------------------------
\* The tree under construction is regular, however puts failed: a name occurs
\* once in a struct and is never empty, no array is empty or longer than the
\* limit, and every leaf is one that was put. (A parsed one has the names it was
\* sent.)
RegularTree == data \in Trees(MaxDepth)

\* A document is a dictionary: each path reads as the leaf last stored under
\* it, whatever other paths were put since, and a put that fails, for whatever
\* reason, has changed nothing that can be read.
ReadsAsDictionary ==
  ~dangling => \A p \in Paths : Read(data, p) = stored[p]

\* As long as the caller's paths have no empty segment and no index out of
\* range, and memory lasts, every put tells the truth, leaves no pointer to a
\* moved block behind, and loses memory only by replacing a value. (Each
\* condition is needed.)
CleanUseIsSafe ==
  clean /\ ~oom => ~dangling /\ honest /\ (leaked => over)

\* A document whose arrays have no empty slots and whose texts have no
\* ampersand arrives as it was built: every path reads the same on both
\* sides. (Empty slots are written as nothing, so that later ones move up.)
ArrivesAsBuilt ==
  [][WddxExchange /\ data \in Gapless =>
       \A p \in Paths : Read(parsed', p) = stored[p]]_vars

\* The reference for reading: what a path names in the XML itself, the value
\* first.
Var(kids, n) == SelectInSeq(kids, LAMBDA e : e.val = n)
Below(found, s) ==
  IF found = <<>> THEN <<>>
  ELSE LET e == found[1]
           kids == Elements(e.kids)
       IN  IF e.tag = "array" /\ s.index \in 0 .. Len(kids) - 1 THEN <<kids[s.index + 1]>>
           ELSE IF e.tag = "struct" /\ s.index < 0 /\ Var(kids, s.name) > 0
             THEN kids[Var(kids, s.name)].kids
           ELSE <<>>
XmlAt(kids, path) ==
  LET found[i \in Nat] == IF i = 0 THEN kids ELSE Below(found[i - 1], path[i])
  IN  found[Len(path)]
XmlContent(found) ==
  IF found # <<>> /\ found[1].tag \in LeafKinds THEN <<found[1].tag, found[1].val>> ELSE <<>>

\* Documents the reader is made for: no white space around the value of a var,
\* every var with one, lengths that tell the truth, numbers and booleans that
\* are such.
\* Arrays may hold elements that are not understood.
IsCompact(e, N) ==
  LET kids == Elements(e.kids) IN
  /\ e.tag # "space" /\ ~Unreadable(e.tag, e.val) /\ TextFromXml(e.tag, e.val) = e.val
  /\ e.tag = "array" => /\ e.len = Len(kids) /\ e.len \in 1 .. MaxArray
                        /\ \A j \in DOMAIN kids : kids[j] \in N
  /\ e.tag = "struct" => \A j \in DOMAIN kids : /\ kids[j].tag = "var"
                                                /\ Len(kids[j].kids) = 1
                                                /\ kids[j].kids[1] \in N
Compact(d) ==
  LET compact[i \in Nat] == IF i = 0 THEN {}
                            ELSE {e \in ElementsTo(i) : IsCompact(e, compact[i - 1])}
  IN  compact[d]

\* Of such a document every value is read, under the path it has in the XML,
\* also behind elements that are not understood.
ReadsWhatWasSent ==
  doc.valid /\ doc.kids # <<>> /\ doc.kids[1] \in Compact(XmlDepth) =>
    \A p \in Paths : Read(parsed, p) = XmlContent(XmlAt(doc.kids, p))
=============================================================================
