--------------------------- MODULE MCRecoveryDriver ---------------------------
(***************************************************************************)
(* RecoveryDriver and the object registry, whose objects a recovery        *)
(* replaces, for model checking.  They have no variable in common: a       *)
(* behaviour runs the one that chosen names, and the other stays as it     *)
(* starts.  The operations and the callers of close are model values and   *)
(* interchangeable.                                                        *)
(***************************************************************************)
EXTENDS RecoveryDriver, ObjectRegistry, TLC

CONSTANTS w1, w2, c1, c2

VARIABLE chosen

Symmetry == Permutations({w1, w2}) \cup Permutations({c1, c2})

MCInit == chosen \in {"recovery", "registry"} /\ RecoveryInit /\ Init

MCNext ==
  /\ UNCHANGED chosen
  /\ \/ chosen = "recovery" /\ RecoveryNext /\ UNCHANGED vars
     \/ chosen = "registry" /\ Next /\ UNCHANGED recoveryVars

MCSpec == MCInit /\ [][MCNext]_<<recoveryVars, vars, chosen>>
=============================================================================
