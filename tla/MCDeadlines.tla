------------------------------ MODULE MCDeadlines ------------------------------
(***************************************************************************)
(* What ends in time, for TLC: the owner's deadlines, and the waits of     *)
(* operations for a recovery.  The components have no variable in common:  *)
(* a behaviour runs the one that chosen names, and the other stays as it   *)
(* starts.  The fairness is that of each component.                        *)
(***************************************************************************)
EXTENDS MCConnectionOwner, RecoveryDriver

CONSTANTS w1, w2, c1

VARIABLE chosen

\* Two operations with deadlines.
ShapeDeadlines == [op \in {op1, op2} |-> IF op = op1 THEN One(TRUE, TRUE, FALSE)
                                     ELSE One(TRUE, TRUE, TRUE)]

MCInit == chosen \in {"owner", "recovery"} /\ OwnerInit /\ RecoveryInit

MCNext ==
  /\ UNCHANGED chosen
  /\ \/ chosen = "owner" /\ OwnerNext /\ UNCHANGED recoveryVars
     \/ chosen = "recovery" /\ RecoveryNext /\ UNCHANGED ownerVars

MCVars == <<ownerVars, recoveryVars, chosen>>

MCSpec ==
  /\ MCInit /\ [][MCNext]_MCVars
  /\ WF_ownerVars(chosen = "owner" /\ OwnerStep)
  /\ WF_recoveryVars(chosen = "recovery" /\ TaskStep)
  /\ WF_recoveryVars(chosen = "recovery" /\ WorldStep)
  /\ \A c \in Closers : WF_recoveryVars(chosen = "recovery" /\ CloseStep(c))
  /\ \A w \in Waiters : WF_recoveryVars(chosen = "recovery" /\ ResolveDependency(w))
=============================================================================
