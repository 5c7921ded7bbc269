---------------------------- MODULE MCPyTransport ----------------------------
(* PyTransport for TLC: one answer of each kind the client tells apart.    *)
EXTENDS PyTransport

GoodAnswer == [ok |-> TRUE, full |-> TRUE, code |-> "nat", closing |-> FALSE]

MCAnswers ==
  {GoodAnswer,
   [GoodAnswer EXCEPT !.closing = TRUE],
   [GoodAnswer EXCEPT !.ok = FALSE],
   [GoodAnswer EXCEPT !.full = FALSE],
   [GoodAnswer EXCEPT !.code = "neg"],
   [GoodAnswer EXCEPT !.code = "bad"]}
=============================================================================
