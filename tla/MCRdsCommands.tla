--------------------------- MODULE MCRdsCommands ---------------------------
(***************************************************************************)
(* Commands of every kind, two calls, one address; replies that are        *)
(* complete, end inside the items, are too large, negative, or no reply of *)
(* an RDS server at all.                                                   *)
(***************************************************************************)
EXTENDS RdsCommands

A(ok, code, len) == [ok |-> ok, sep |-> TRUE, code |-> code, len |-> len]
CmdReplies ==
  {A(TRUE, "nat", 3), A(TRUE, "nat", 4), A(TRUE, "nat", 6),
   A(TRUE, "neg", 4), A(FALSE, "bad", 3)}
=============================================================================
