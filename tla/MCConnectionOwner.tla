-------------------------- MODULE MCConnectionOwner --------------------------
(***************************************************************************)
(* ConnectionOwner for model checking: the operations of each run and how  *)
(* they are shaped.  A run picks what its callers, its server and its      *)
(* transport may do, so that every pair of behaviours meets in some run    *)
(* and no run has all of them.                                             *)
(***************************************************************************)
EXTENDS ConnectionOwner

CONSTANTS a1, op1, op2, op3

One(attached, deadline, concurrent) ==
  [charges |-> <<1>>, attached |-> attached, deadline |-> deadline,
   concurrent |-> concurrent]

Compound == [charges |-> <<1, 1>>, attached |-> FALSE, deadline |-> FALSE,
             concurrent |-> FALSE]

\* Two operations prepared off the owner, one inline, no deadline.
ShapeCancels == [op \in {op1, op2, op3} |->
                   CASE op = op1 -> One(TRUE, FALSE, TRUE)
                     [] op = op2 -> One(FALSE, FALSE, TRUE)
                     [] op = op3 -> One(TRUE, FALSE, FALSE)]

\* A compound beside a single operation.
ShapeCompound == [op \in {op1, op2} |-> IF op = op1 THEN Compound
                                    ELSE One(TRUE, FALSE, TRUE)]
=============================================================================
