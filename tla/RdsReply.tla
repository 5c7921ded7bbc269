------------------------------ MODULE RdsReply ------------------------------
(***************************************************************************)
(* Reading a reply of the RDS server: the text received into a             *)
(* cfrds_buffer, and the fifteen parsers of src/cfrds_buffer.c that turn  *)
(* it into a table, all or nothing.                                        *)
(*                                                                         *)
(* A reply is a count, ":", and strings, each a length, ":" and its text.  *)
(* The strings of the SQL replies are rows: lists of items, quoted or not, *)
(* separated by commas.  A parser is modelled on the text that its buffer  *)
(* holds, which is what the unit tests give it.  A file time is the pair   *)
(* of its halves, a WDDX packet one unit of text.                          *)
(***************************************************************************)
EXTENDS CfrdsBuffer, SequencesExt

CONSTANTS
  ReadSize,  \* units one recv() returns at most (4096)
  MaxItems,  \* CFRDS_MAX_PARSER_ITEMS
  Value,     \* the number a numeral stands for, "-1" included
  Packet,    \* a WDDX packet: its STATUS and DEBUG_SERVER_PORT
  Cases      \* the replies: how each came about, its parser, its text and table

QUOTE == "\""

\* The numerals stand for numbers, and neither a numeral nor a packet is a
\* character of its own.
ASSUME ValueAssumption ==
  /\ Value \in [DOMAIN Value -> Int] /\ Value["0"] = 0
  /\ {":", ",", QUOTE} \cap DOMAIN Value = {}
  /\ NUL \notin DOMAIN Packet
ASSUME LimitAssumption == ReadSize \in Nat \ {0} /\ MaxItems \in Nat

\* A reply as the server sends it: how many strings there are, and each with its
\* length, string k at at[k]; spare bytes follow the last.
Framed(whole, at, spare) ==
  /\ whole \in Seq(Unit) /\ at \in Seq(Nat) /\ at # <<>> /\ at[1] = 3
  /\ at[Len(at)] + spare = Len(whole) + 1
  /\ whole[1] \in DOMAIN Value /\ Value[whole[1]] = Len(at) - 1 /\ whole[2] = ":"
  /\ \A k \in 1 .. Len(at) - 1 :
       /\ at[k + 1] >= at[k] + 2
       /\ whole[at[k]] \in DOMAIN Value /\ Value[whole[at[k]]] = at[k + 1] - at[k] - 2
       /\ whole[at[k] + 1] = ":"
Spare(parser) == IF parser = "supportedcommands" THEN 1 ELSE 0

Parsers == {"browse_dir", "file_content", "dsninfo", "tableinfo", "columninfo",
            "primarykeys", "keyinfo", "sqlstmnt", "metadata", "supportedcommands",
            "dbdescription", "debugger_start", "debugger_stop", "debugger_info",
            "debugger_event"}

\* String k of a reply.
Sent(whole, at, k) == SubSeq(whole, at[k] + 2, at[k + 1] - 1)

\* A row as the server sends it: item j begins at cuts[j], in quotes and without a
\* quote, or bare and without a comma; a comma is between two items.
InQuotes(row, a, b, item) ==
  /\ b = a + Len(item) + 1 /\ row[a] = QUOTE /\ row[b] = QUOTE
  /\ \A i \in DOMAIN item : row[a + i] = item[i] /\ item[i] # QUOTE
IsBare(row, a, b, item) ==
  /\ b = a + Len(item) - 1 /\ a < Len(row) /\ row[a] # QUOTE
  /\ \A i \in DOMAIN item : row[a + i - 1] = item[i] /\ item[i] # ","
Cut(row, cuts) ==
  /\ row \in Seq(Unit) /\ cuts \in Seq(Nat) /\ Len(cuts) >= 2
  /\ cuts[1] = 1 /\ cuts[Len(cuts)] = Len(row) + 2
  /\ \A j \in 2 .. Len(cuts) - 1 : row[cuts[j] - 1] = ","
IsRow(row, cuts, items) ==
  /\ Cut(row, cuts) /\ items \in Seq(Seq(Unit)) /\ Len(items) = Len(cuts) - 1
  /\ \A j \in DOMAIN items : \/ InQuotes(row, cuts[j], cuts[j + 1] - 2, items[j])
                             \/ IsBare(row, cuts[j], cuts[j + 1] - 2, items[j])
\* A row of items in quotes, whatever is between the quotes.
AllInQuotes(row, cuts) ==
  /\ Cut(row, cuts)
  /\ \A j \in 1 .. Len(cuts) - 1 :
       cuts[j + 1] >= cuts[j] + 3 /\ row[cuts[j]] = QUOTE /\ row[cuts[j + 1] - 2] = QUOTE

\* The replies of rows: how many items a row has (of a query, as many as the first),
\* and which of them are numbers.
Listed == {"tableinfo", "columninfo", "primarykeys", "keyinfo", "sqlstmnt", "metadata",
           "dbdescription"}
Widths(c) == CASE c.parser = "tableinfo" -> {4} [] c.parser = "columninfo" -> {11, 12}
               [] c.parser = "primarykeys" -> {5} [] c.parser = "keyinfo" -> {11}
               [] c.parser = "sqlstmnt" -> {Len(c.cuts[1]) - 1}
               [] c.parser = "metadata" -> {3} [] c.parser = "dbdescription" -> {1}
NumbersOf(parser) == CASE parser = "columninfo" -> {5} \cup 7 .. 11
                       [] parser = "primarykeys" -> {5} [] parser = "keyinfo" -> 9 .. 11
                       [] OTHER -> {}
\* A twelfth item of a column is not in the table.
Kept(parser, items) == IF parser = "columninfo" THEN SubSeq(items, 1, 11) ELSE items
RowSent(c, k) ==
  /\ IsRow(Sent(c.whole, c.at, k), c.cuts[k], c.sent[k]) /\ Len(c.sent[k]) \in Widths(c)
  /\ c.table[k] = Kept(c.parser, c.sent[k])
  /\ \A i \in NumbersOf(c.parser) :
       \E numeral \in DOMAIN Value : c.table[k][i] = <<numeral>>

\* A directory's entry, and a name with or without quotes.
EntrySent(e) ==
  /\ e[1] \in {<<"F", ":">>, <<"D", ":">>}
  /\ \E numeral \in DOMAIN Value : e[3] = <<numeral>> /\ Value[numeral] \in 0 .. 255
  /\ \E numeral \in DOMAIN Value : e[4] = <<numeral>> /\ Value[numeral] >= 0
  /\ \E low, high \in DOMAIN Value : e[5] = <<low, ",", high>>
NameSent(string, name) ==
  /\ name \in Seq(Unit) /\ \A i \in DOMAIN name : name[i] # QUOTE
  /\ string \in {name, <<QUOTE>> \o name \o <<QUOTE>>}

\* All of a reply arrives, and no zero byte but in a file.
Complete(c) ==
  /\ Framed(c.whole, c.at, Spare(c.parser)) /\ c.text = c.whole
  /\ \A k \in 1 .. Len(c.at) - 1 :
       \/ c.parser = "file_content" /\ k = 1
       \/ \A i \in c.at[k] + 2 .. c.at[k + 1] - 1 : c.whole[i] # NUL
IsTable(c) == c.table \in Seq(Seq(Seq(Unit))) /\ Len(c.table) = Len(c.at) - 1

\* The well-formed reply with a table.
Encodes(c) ==
  LET n == Len(c.at) - 1
      string(k) == Sent(c.whole, c.at, k)
      parser == c.parser
  IN  \/ /\ parser \in Listed /\ IsTable(c) /\ n <= MaxItems
         /\ (parser = "sqlstmnt" => n >= 1) /\ (parser = "dbdescription" => n = 1)
         /\ \A k \in 1 .. n : RowSent(c, k)
      \/ /\ parser = "browse_dir" /\ c.table \in Seq(Seq(Seq(Unit)))
         /\ n = 5 * Len(c.table) /\ Len(c.table) <= MaxItems
         /\ \A k \in DOMAIN c.table : /\ Len(c.table[k]) = 5 /\ EntrySent(c.table[k])
                                     /\ \A i \in 1 .. 5 : c.table[k][i] = string(5 * k - 5 + i)
      \/ parser = "file_content" /\ n = 3 /\ c.table = << <<string(1), string(2), string(3)>> >>
      \/ /\ parser = "dsninfo" /\ IsTable(c) /\ n <= MaxItems
         /\ \A k \in 1 .. n : Len(c.table[k]) = 1 /\ NameSent(string(k), c.table[k][1])
      \/ /\ parser = "supportedcommands" /\ n = 1 /\ c.table = <<c.sent[1]>>
         /\ IsRow(string(1), c.cuts[1], c.sent[1]) /\ AllInQuotes(string(1), c.cuts[1])
      \/ parser = "debugger_start" /\ n = 2 /\ c.table = << <<string(1)>> >>
      \/ \E packet \in DOMAIN Packet :
           /\ n = 1 /\ string(1) = <<packet>>
           /\ \/ parser = "debugger_event" /\ c.table = << << <<packet>> >> >>
              \/ /\ Packet[packet].status = "RDS_OK"
                 /\ \/ parser = "debugger_stop" /\ c.table = <<>>
                    \/ parser = "debugger_info" /\ c.table = << << <<Packet[packet].port>> >> >>

\* A reply with quotes inside the items of one row.  The names of the columns of a
\* query are all sent in quotes.
Damages(c) ==
  /\ c.parser \in Listed /\ IsTable(c)
  /\ \A k \in DOMAIN c.table : k # c.row => RowSent(c, k)
  /\ c.parser = "sqlstmnt" /\ c.row = 1 => AllInQuotes(Sent(c.whole, c.at, 1), c.cuts[1])

\* What arrives may be a part of the reply, or begin with an HTTP header, which is
\* no number.
ASSUME CasesAssumption ==
  \A c \in Cases :
    /\ c.text \in Seq(Unit) /\ (c.how = "build" \/ c.parser \in Parsers)
    /\ c.how = "cut" => /\ Framed(c.whole, c.at, Spare(c.parser))
                        /\ Len(c.text) < Len(c.whole)
                        /\ \A i \in DOMAIN c.text : c.text[i] = c.whole[i]
    /\ c.how = "header" => c.text # <<>> /\ c.text[1] \notin DOMAIN Value \cup {":"}
    /\ c.how = "clean" => Complete(c) /\ Encodes(c)
    /\ c.how = "damaged" => Complete(c) /\ Damages(c)

VARIABLES
  case,    \* the reply being received; none: the buffer is used to build
  wire,    \* what has not been received of it
  result   \* what the parser returned

replyVars == <<case, wire, result>>
allVars == <<bufferVars, replyVars>>

\* "failed" and "no_memory" are both NULL.
NoResult == [status |-> "none", rows |-> <<>>]
Null == [status |-> "failed", rows |-> <<>>]
Read(rows) == [status |-> "read", rows |-> rows]
NoMemory == [status |-> "no_memory", rows |-> <<>>]
ReadIf(ok, rows) == IF ok THEN Read(rows) ELSE Null

-----------------------------------------------------------------------------
(* The readers: ok, what was read, and the text after it                   *)

NoNumber == [ok |-> FALSE, n |-> 0, rest |-> <<>>]
NoText == [ok |-> FALSE, text |-> <<>>, rest |-> <<>>]

Place(unit, text) == SelectInSeq(text, LAMBDA u : u = unit)
From(text, i) == SubSeq(text, i, Len(text))
IsNumeral(text) == Len(text) = 1 /\ text[1] \in DOMAIN Value
\* atoi, the number as its numeral
Number(text) == IF text # <<>> /\ text[1] \in DOMAIN Value THEN <<text[1]>> ELSE <<"0">>
\* strlen: a row ends at its first zero byte.
CString(text) == IF Contains(text, NUL) THEN SubSeq(text, 1, Place(NUL, text) - 1) ELSE text

\* cfrds_buffer_parse_number.  strtoll of nothing is 0, so ":" is a number.
NumberBefore(text, colon) ==
  IF colon > 0 /\ (colon = 1 \/ IsNumeral(SubSeq(text, 1, colon - 1)))
    THEN [ok |-> TRUE, n |-> Value[Number(SubSeq(text, 1, colon - 1))[1]],
          rest |-> From(text, colon + 1)]
    ELSE NoNumber
ParseNumber(text) == NumberBefore(text, Place(":", text))

StringOfTrusting(number) ==
  IF number.ok /\ number.n >= 0
    THEN [ok |-> TRUE, rest |-> From(number.rest, number.n + 1),
          text |-> [i \in 1 .. number.n |->
                      IF i > Len(number.rest) THEN NUL ELSE number.rest[i]]]
    ELSE NoText

\* cfrds_buffer_parse_bytearray and cfrds_buffer_parse_string: as many units as
\* the number says, of what follows it.
StringOf(number) ==
  IF number.ok /\ number.n >= 0 /\ number.n <= Len(number.rest)
    THEN [ok |-> TRUE, text |-> SubSeq(number.rest, 1, number.n),
          rest |-> From(number.rest, number.n + 1)]
    ELSE NoText
ParseString(text) == StringOf(ParseNumber(text))
ParseCString(text) == [ParseString(text) EXCEPT !.text = CString(@)]

\* cfrds_buffer_parse_string_list_item: two units at least; a quoted item ends at
\* the next quote, any other at the comma or the end; one comma is skipped.
SkipComma(text) == IF text # <<>> /\ text[1] = "," THEN Tail(text) ELSE text
Quoted(body, mark) ==
  IF mark = 0 THEN NoText
  ELSE [ok |-> TRUE, text |-> SubSeq(body, 1, mark - 1),
        rest |-> SkipComma(From(body, mark + 1))]
Bare(text, mark) ==
  IF mark = 0 THEN [ok |-> TRUE, text |-> text, rest |-> <<>>]
  ELSE [ok |-> TRUE, text |-> SubSeq(text, 1, mark - 1), rest |-> From(text, mark + 1)]

ParseListItemUnquoted(text) ==
  IF Len(text) < 2 THEN NoText
  ELSE [Bare(text, Place(",", text)) EXCEPT !.text = SelectSeq(@, LAMBDA u : u # QUOTE)]
ParseListItem(text) ==
  IF Len(text) < 2 THEN NoText
  ELSE IF text[1] = QUOTE THEN Quoted(Tail(text), Place(QUOTE, Tail(text)))
  ELSE Bare(text, Place(",", text))

\* What has been read of a text: n items, all the items there are, n strings.
Nothing(text) == [ok |-> TRUE, list |-> <<>>, rest |-> text]
Then(read, part) ==
  [ok |-> part.ok, list |-> Append(read.list, part.text), rest |-> part.rest]
NextItem(read) == IF read.ok THEN Then(read, ParseListItem(read.rest)) ELSE read
LastItem(read) == IF read.rest # <<>> THEN NextItem(read) ELSE read
NextString(read) == IF read.ok THEN Then(read, ParseCString(read.rest)) ELSE read

ReadNext(what, read) ==
  CASE what = "item" -> NextItem(read)
    [] what = "last item" -> LastItem(read)
    [] what = "string" -> NextString(read)

Repeated(n, text, what) ==
  LET read[i \in Nat] == IF i = 0 THEN Nothing(text) ELSE ReadNext(what, read[i - 1])
  IN  read[IF n > 0 THEN n ELSE 0]
Items(row, n) == Repeated(n, row, "item")
AllItems(row) == Repeated(Len(row), row, "last item")
Strings(text, n) == Repeated(n, text, "string")

\* A row of n items and nothing else.
Whole(items) == [items EXCEPT !.ok = @ /\ items.rest = <<>>]
Exactly(row, n) == Whole(Items(row, n))

WithNumbers(items, places) ==
  [items EXCEPT !.list = [i \in DOMAIN @ |-> IF i \in places THEN Number(@[i]) ELSE @[i]]]

\* A count, and as many strings.
Counted(number) ==
  [count |-> IF number.ok THEN number.n ELSE -1, strings |-> Strings(number.rest, number.n)]
ParseStrings(text) == Counted(ParseNumber(text))

RowsInSkipping(reply, read) ==
  ReadIf(reply.count \in 0 .. MaxItems /\ reply.strings.ok,
         [i \in DOMAIN SelectSeq(read, LAMBDA row : row.ok) |->
            SelectSeq(read, LAMBDA row : row.ok)[i].list])

\* All rows, or none if one cannot be read.
RowsIn(reply, read) ==
  ReadIf(/\ reply.count \in 0 .. MaxItems /\ reply.strings.ok
         /\ \A i \in DOMAIN read : read[i].ok,
         [i \in DOMAIN read |-> read[i].list])

\* What a parser of rows makes of a reply: its count, and each string by Row.
RowsOf(reply, Row(_)) ==
  RowsIn(reply, [i \in DOMAIN reply.strings.list |-> Row(reply.strings.list[i])])
Rows(text, Row(_)) == RowsOf(ParseStrings(text), Row)

-----------------------------------------------------------------------------
(* The parsers                                                             *)

\* One entry of a directory: "F:" or "D:", name, permissions, size and time.
IsEntry(e) ==
  /\ e[1] \in {<<"F", ":">>, <<"D", ":">>}
  /\ IsNumeral(e[3]) /\ Value[e[3][1]] \in 0 .. 255
  /\ IsNumeral(e[4]) /\ Value[e[4][1]] >= 0
  /\ Len(e[5]) = 3 /\ e[5][2] = ","
  /\ IsNumeral(<<e[5][1]>>) /\ IsNumeral(<<e[5][3]>>)

Entries(strings) ==
  [i \in 1 .. Len(strings.list) \div 5 |-> SubSeq(strings.list, 5 * i - 4, 5 * i)]
Directory(reply, entries) ==
  ReadIf(/\ reply.count >= 0 /\ reply.count % 5 = 0 /\ reply.count \div 5 <= MaxItems
         /\ reply.strings.ok /\ \A i \in DOMAIN entries : IsEntry(entries[i]),
         entries)
BrowseDir(text) == Directory(ParseStrings(text), Entries(ParseStrings(text).strings))

\* The content keeps its length, and any zero byte.
FileContent(text) ==
  LET count == ParseNumber(text)
      content == ParseString(count.rest)
      others == Strings(content.rest, 2)
  IN  ReadIf(count.ok /\ count.n = 3 /\ content.ok /\ others.ok,
             << <<content.text>> \o others.list >>)

\* A name is what stands between the first two quotes, or the whole text.
Unquoted(row) ==
  LET open == Place(QUOTE, row)
      close == Place(QUOTE, From(row, open + 1))
  IN  [ok |-> TRUE, rest |-> <<>>,
       list |-> <<IF open > 0 /\ close > 0 THEN SubSeq(row, open + 1, open + close - 1)
                  ELSE row>>]
DsnInfo(text) == Rows(text, Unquoted)

TableInfo(text) == Rows(text, LAMBDA row : Exactly(row, 4))

\* A twelfth item is read and dropped.
Column(row) ==
  LET items == IF Exactly(row, 11).ok THEN Exactly(row, 11) ELSE Exactly(row, 12)
  IN  IF items.ok
        THEN WithNumbers([items EXCEPT !.list = SubSeq(@, 1, 11)], {5} \cup 7 .. 11)
        ELSE items
ColumnInfo(text) == Rows(text, Column)

PrimaryKeys(text) == Rows(text, LAMBDA row : WithNumbers(Exactly(row, 5), {5}))

\* Foreign, imported and exported keys.
KeyInfo(text) == Rows(text, LAMBDA row : WithNumbers(Exactly(row, 11), 9 .. 11))

\* What follows the third item is ignored.
Metadata(text) == Rows(text, LAMBDA row : Items(row, 3))

\* The first row names the columns and says how many items are read of each.
SqlRows(reply, columns) ==
  IF columns.ok /\ columns.list # <<>>
    THEN RowsOf(reply, LAMBDA row : Items(row, Len(columns.list))) ELSE Null
SqlTable(reply, header) ==
  IF reply.count >= 1 /\ header.ok THEN SqlRows(reply, AllItems(header.list[1])) ELSE Null
SqlStmnt(text) == SqlTable(ParseStrings(text), Strings(ParseNumber(text).rest, 1))

\* One string, whose length leaves one byte over.  The items are counted without
\* that byte and read with it.  Of the length -1 with nothing after it the count
\* runs beyond the buffer.
SupportedCommands(text) ==
  LET count == ParseNumber(text)
      length == ParseNumber(count.rest)
      counted == AllItems(Front(length.rest))
      items == Items(length.rest, Len(counted.list))
  IN  IF ~count.ok \/ count.n # 1 \/ ~length.ok \/ Len(length.rest) # length.n + 1
        THEN Null
      ELSE IF length.rest = <<>> THEN [status |-> "undefined", rows |-> <<>>]
      ELSE ReadIf(counted.ok /\ items.ok, <<items.list>>)

\* The first item of the only row.
DbDescription(text) ==
  IF ParseNumber(text).n = 1 THEN Rows(text, LAMBDA row : Items(row, 1)) ELSE Null

\* The session's name: the first of two strings; the second is not looked at.
DebuggerStart(text) ==
  LET count == ParseNumber(text)
      name == ParseCString(count.rest)
  IN  ReadIf(count.n = 2 /\ name.ok, << <<name.text>> >>)

\* The WDDX packet that the only string is.
PacketOf(text) ==
  LET count == ParseNumber(text)
      xml == ParseCString(count.rest)
  IN  IF count.n = 1 /\ xml.ok /\ Len(xml.text) = 1 THEN xml.text[1] ELSE NUL
Accepted(packet) == packet \in DOMAIN Packet /\ Packet[packet].status = "RDS_OK"

DebuggerStop(text) == ReadIf(Accepted(PacketOf(text)), <<>>)
DebuggerInfo(text) == LET packet == PacketOf(text)
                      IN  ReadIf(Accepted(packet), << << <<Packet[packet].port>> >> >>)
DebuggerEvent(text) == LET packet == PacketOf(text)
                       IN  ReadIf(packet \in DOMAIN Packet, << << <<packet>> >> >>)

ParserResult(parser, text) ==
  CASE parser = "browse_dir" -> BrowseDir(text)
    [] parser = "file_content" -> FileContent(text)
    [] parser = "dsninfo" -> DsnInfo(text)
    [] parser = "tableinfo" -> TableInfo(text)
    [] parser = "columninfo" -> ColumnInfo(text)
    [] parser = "primarykeys" -> PrimaryKeys(text)
    [] parser = "keyinfo" -> KeyInfo(text)
    [] parser = "sqlstmnt" -> SqlStmnt(text)
    [] parser = "metadata" -> Metadata(text)
    [] parser = "supportedcommands" -> SupportedCommands(text)
    [] parser = "dbdescription" -> DbDescription(text)
    [] parser = "debugger_start" -> DebuggerStart(text)
    [] parser = "debugger_stop" -> DebuggerStop(text)
    [] parser = "debugger_info" -> DebuggerInfo(text)
    [] parser = "debugger_event" -> DebuggerEvent(text)

-----------------------------------------------------------------------------
(* Receiving a reply and parsing it                                        *)

Receiving == live /\ todo = <<>> /\ case.how # "build" /\ result = NoResult

\* What one recv() returns is appended.
Receive ==
  /\ Receiving /\ wire # <<>> /\ ret \in {"none", "true"}
  /\ LET n == IF Len(wire) < ReadSize THEN Len(wire) ELSE ReadSize
     IN  Begin(<<SubSeq(wire, 1, n)>>) /\ wire' = From(wire, n + 1)
  /\ UNCHANGED <<calls, case, result>>

ReceiveFails ==
  /\ Receiving /\ ret \in {"refused", "no_memory"}
  /\ result' = NoMemory
  /\ UNCHANGED <<bufferVars, case, wire>>

\* A parser that cannot allocate returns NULL as well.
Parse ==
  /\ Receiving /\ wire = <<>> /\ ret \in {"none", "true"}
  /\ \/ result' = ParserResult(case.parser, Text)
     \/ AllocMayFail /\ result' = NoMemory
  /\ UNCHANGED <<bufferVars, case, wire>>

Init == BufferInit /\ case \in Cases /\ wire = case.text /\ result = NoResult

BufferUse ==
  /\ \/ BufferStep
     \/ IF case.how = "build" THEN BufferCalls ELSE Create \/ (result # NoResult /\ Free)
  /\ UNCHANGED replyVars

Next == BufferUse \/ Receive \/ ReceiveFails \/ Parse
Spec == Init /\ [][Next]_allVars

-----------------------------------------------------------------------------
(* Properties                                                              *)

\* A well-formed reply (no quote inside a quoted item), however it was split over
\* recv() calls, is read as the table it encodes.
CleanReplyIsRead ==
  case.how = "clean" /\ result.status \notin {"none", "no_memory"}
    => result = Read(case.table)

\* A reply that the peer cut short, or that still has its HTTP header in front, is
\* never taken for a table.  debugger_start alone does not look at its last string.
BrokenReplyIsRefused ==
  case.how \in {"cut", "header"} /\ result.status = "read" =>
    case.how = "cut" /\ case.parser = "debugger_start"

\* A quote inside an item may cost the reply, or change the row that has it; it
\* never changes the number of rows or any other row.
DamageStaysInItsRow ==
  case.how = "damaged" /\ result.status = "read" =>
    /\ Len(result.rows) = Len(case.table)
    /\ \A i \in DOMAIN case.table : i # case.row => result.rows[i] = case.table[i]

\* Two mappings are never sent as the same argument: the escaping keeps ":" and
\* ";" of a name or a path apart from the ones between them.
MappingIsUnambiguous ==
  ret = "true" /\ calls = 1 =>
    Cardinality({m \in Texts \X Texts :
                   /\ IsString(m[1]) /\ IsString(m[2])
                   /\ Text = FlattenSeq(MappingParts(m[1], m[2]))}) <= 1
=============================================================================
