----------------------------- MODULE MCRdsReply -----------------------------
(* RdsReply for TLC, with the replies the server sends: its encoder, every *)
(* prefix of these replies, and replies with a quote inside an item.       *)
EXTENDS RdsReply

MCNumeral == [n \in 0 .. SizeMax |-> ToString(n)]
\* The numbers that occur in replies.
Numbers == -1 .. 60 \cup {200, 300}
MCValue == [u \in {ToString(n) : n \in Numbers} |-> CHOOSE n \in Numbers : ToString(n) = u]
MCPacket == [p \in {"pk_ok", "pk_bad"} |->
               [status |-> IF p = "pk_ok" THEN "RDS_OK" ELSE "RDS_ERROR", port |-> "7"]]
MCUnit == {":", ";", ",", "\"", "\\", "STR", "name", "path", "a", "b", "F", "D", "x",
           "HTTP/1.0 200 ", "\r\n", "NUL"}
  \cup {ToString(n) : n \in 0 .. SizeMax} \cup DOMAIN MCValue \cup DOMAIN MCPacket

\* Bytes, and no string: they end with a zero.
Run(n) == [i \in 1 .. n |-> IF i = n THEN NUL ELSE "x"]
MCTexts == {<<>>, <<"\\">>, <<";", "path", ":">>, <<";", "path", ":", "\\">>,
            Run(2), Run(40), Run(90), Run(200)}
MCLengths == {0, 1, 31, 150, 254}

Str(text) == <<ToString(Len(text)), ":">> \o text
Strs(texts) == FlattenSeq([i \in DOMAIN texts |-> Str(texts[i])])
Reply(texts) == <<ToString(Len(texts)), ":">> \o Strs(texts)
\* Where its strings begin, and where another would.
Starts(texts) == [k \in 1 .. Len(texts) + 1 |-> 3 + Len(Strs(SubSeq(texts, 1, k - 1)))]
Item(text, quoted) == IF quoted THEN <<"\"">> \o text \o <<"\"">> ELSE text
Row(texts, bare) ==
  FlattenSeq([i \in DOMAIN texts |->
    Item(texts[i], i \notin bare) \o (IF i = Len(texts) THEN <<>> ELSE <<",">>)])

Fields == << <<"a">>, <<>>, <<"a", ",", "b">> >>
RowOf(n, numbers, shift) ==
  [i \in 1 .. n |-> IF i \in numbers THEN <<"7">> ELSE Fields[((i + shift) % 3) + 1]]
TableOf(n, numbers, rows) == [r \in 1 .. rows |-> RowOf(n, numbers, r)]

\* How many items the rows have here.
Width == [tableinfo |-> 4, columninfo |-> 11, primarykeys |-> 5, keyinfo |-> 11,
          sqlstmnt |-> 2, metadata |-> 3, dbdescription |-> 1]
\* The items sent bare, here the numbers but the last.
BareItems(p) == NumbersOf(p) \ {Width[p]}
RowCounts(p) == IF p = "dbdescription" THEN {1} ELSE IF p = "sqlstmnt" THEN 1 .. 2 ELSE 0 .. 2

\* The reply to supportedcommands has a byte more than its string.
Case(how, p, texts, table, row) ==
  LET whole == Reply(texts) \o (IF p = "supportedcommands" THEN <<NUL>> ELSE <<>>)
  IN  [how |-> how, parser |-> p, text |-> whole, whole |-> whole, at |-> Starts(texts),
       table |-> table, row |-> row, sent |-> <<>>, cuts |-> <<>>]
\* Where the items of a row begin, and where another would.
Cuts(texts, bare) ==
  [j \in 1 .. Len(texts) + 1 |->
     IF j = 1 THEN 1 ELSE Len(Row(SubSeq(texts, 1, j - 1), bare)) + 2]
RowCase(how, p, sent, bare, table, row) ==
  [Case(how, p, [r \in DOMAIN sent |-> Row(sent[r], bare)], table, row) EXCEPT
     !.sent = sent, !.cuts = [r \in DOMAIN sent |-> Cuts(sent[r], bare)]]
Entry(name, length) == << <<"F", ":">>, name, <<"200">>, length, <<"3", ",", "4">> >>
Others ==
  {Case("clean", "browse_dir", FlattenSeq(t), t, 0) :
     t \in {<<>>, <<Entry(<<"a", ":">>, <<"12">>)>>,
            <<Entry(<<>>, <<"0">>), Entry(<<"b">>, <<"300">>)>>}}
  \cup {Case("clean", "file_content", t, <<t>>, 0) :
          t \in {<<c, <<"a">>, <<"b">> >> : c \in {<<>>, <<"a", "NUL", ":">>}}}
  \cup {Case("clean", "dsninfo", <<Item(<<"a">>, q), Item(<<"b">>, q)>>,
              << << <<"a">> >>, << <<"b">> >> >>, 0) : q \in BOOLEAN}
  \cup {RowCase("clean", "supportedcommands", <<t>>, {}, <<t>>, 0) :
          t \in {<< <<"a">> >>, << <<"a">>, <<"b", "a">> >>}}
  \cup {RowCase("clean", "columninfo", <<t \o << <<"b">> >> >>, {}, <<t>>, 0) :
          t \in {RowOf(11, NumbersOf("columninfo"), 1)}}
  \cup {Case("clean", "debugger_start", << <<"a">>, <<"b">> >>, << << <<"a">> >> >>, 0),
         Case("clean", "debugger_stop", << <<"pk_ok">> >>, <<>>, 0),
         Case("clean", "debugger_info", << <<"pk_ok">> >>, << << <<"7">> >> >>, 0),
         Case("clean", "debugger_event", << <<"pk_bad">> >>, << << <<"pk_bad">> >> >>, 0)}

Tables ==
  UNION {{RowCase("clean", p, t, b, t, 0) :
            t \in {TableOf(Width[p], NumbersOf(p), n) : n \in RowCounts(p)},
            b \in {{}, BareItems(p)}} :
         p \in Listed}

\* A reply cut short, and one with the header that cfrds_http_post leaves in the
\* buffer.
Broken(c) ==
  {[c EXCEPT !.how = "cut", !.text = SubSeq(@, 1, n)] : n \in 0 .. Len(c.text) - 1}
  \cup {[c EXCEPT !.how = "header", !.text =
           <<"HTTP/1.0 200 ", "\r\n", "a", ":", "b", "\r\n", "\r\n">> \o @]}

Quotes == {<<"\"">>, <<"a", "\"", ",">>, <<"\"", ",", "\"">>}
Damaged ==
  UNION {UNION {{RowCase("damaged", p, [t EXCEPT ![r][i] = d], {}, t, r) :
                   i \in 1 .. Width[p], d \in Quotes, r \in DOMAIN t} :
                t \in {TableOf(Width[p], NumbersOf(p), n) : n \in RowCounts(p)}} :
         p \in Listed}

Build == Case("build", "none", <<>>, <<>>, 0)
MCCases == {Build} \cup Others \cup Tables \cup Damaged
             \cup UNION {Broken(c) : c \in Others \cup Tables}
=============================================================================
