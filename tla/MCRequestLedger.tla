--------------------------- MODULE MCRequestLedger ---------------------------
(***************************************************************************)
(* RequestLedger for model checking: two message ids that compete for      *)
(* permits, bytes, credits and async ids, grants that overflow the credit  *)
(* counter and two async ids that can clash.                               *)
(***************************************************************************)
EXTENDS RequestLedger, TLC

CONSTANTS a1, a2

MCAsyncIds == {a1, a2}

Symmetry == Permutations(MCAsyncIds)
=============================================================================
