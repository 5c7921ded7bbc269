---------------------------- MODULE MCTsTransport ----------------------------
(* TsTransport for TLC: the requests are interchangeable, but a liveness   *)
(* property is checked, so that no symmetry is used.                       *)
EXTENDS TsTransport

CONSTANTS r1, r2

MCRequests == {r1, r2}
=============================================================================
