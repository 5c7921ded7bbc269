--------------------------- MODULE MCRdsTransport ---------------------------
(***************************************************************************)
(* The transport on small instances: two calls, two addresses, a request   *)
(* of two units, and replies that are complete, cut anywhere, too large,   *)
(* not 200, without an end of header, or with a bad or negative number.    *)
(***************************************************************************)
EXTENDS RdsTransport

A(ok, sep, code, len) == [ok |-> ok, sep |-> sep, code |-> code, len |-> len]

\* Complete, cut in the header, cut in the number, too large; closed without
\* an answer; not 200; no end of header; no number; a negative number.
MCReplies ==
  {A(TRUE, TRUE, "nat", n) : n \in {1, 2, 4, 6}} \cup
  {A(TRUE, TRUE, "nat", 0), A(FALSE, TRUE, "bad", 3), A(TRUE, FALSE, "bad", 3),
   A(TRUE, TRUE, "bad", 3), A(TRUE, TRUE, "neg", 4)}
=============================================================================
