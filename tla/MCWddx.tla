------------------------------- MODULE MCWddx -------------------------------
(* Wddx for TLC: paths that share prefixes, conflict, leave a gap, have an *)
(* empty segment or an index out of range; documents good and broken.      *)
EXTENDS Wddx

MCPaths ==
  {<<Idx(0), Key("a")>>, <<Idx(0), Key("b")>>, <<Idx(0), Key("b"), Idx(1)>>,
   <<Idx(0), Key("a"), NoSegment>>, <<Idx(0)>>, <<Key("a")>>, <<Idx(2), Key("a")>>,
   <<Key("b"), Idx(0)>>, <<Key("b"), Idx(1)>>, <<Key("b"), Idx(3)>>,
   <<Key("b"), NoSegment, Key("a")>>, <<>>}

MCValues == {<<"string", "amp">>, <<"string", "x">>, <<"number", "1">>}

Str(t) == El("string", t, 0, <<>>)
Of(e) == [valid |-> TRUE, kids |-> <<e>>]
MCDocuments ==
  {NoPacket, [valid |-> TRUE, kids |-> <<>>], Of(Space),
   Of(El("array", "", 3, <<Space, El("date", "", 0, <<>>),
     Str("x"), El("boolean", "true", 0, <<>>)>>)),
   Of(El("array", "", 1, <<Str("x"), Str("y")>>)),
   Of(El("array", "", 4, <<Str("x")>>)),
   Of(El("array", "", 1, <<El("struct", "", 0,
        <<Space, El("var", "a", 0, <<El("number", "1", 0, <<>>)>>), Space,
          El("var", "b", 0,
             <<El("array", "", 2, <<El("null", "", 0, <<>>), Str("y")>>)>>)>>)>>)),
   Of(El("struct", "", 0, <<El("var", "a", 0, <<>>), El("var", "b", 0, <<Str("x")>>)>>)),
   Of(El("struct", "", 0, <<El("var", "a", 0, <<Space, Str("y")>>)>>)),
   Of(El("number", "NaN?", 0, <<>>)),
   Of(El("array", "", 2, <<El("boolean", "", 0, <<>>), El("boolean", "yes", 0, <<>>)>>))}
=============================================================================
