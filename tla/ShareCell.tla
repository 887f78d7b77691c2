------------------------------- MODULE ShareCell -------------------------------
(***************************************************************************)
(* What a share promises to the resources opened on it, whatever happens   *)
(* to the connection and the session below it.  A share holds one object   *)
(* at a time.  Requests are accepted for objects that are alive.  An       *)
(* object that was refused once is refused for good, every new object is   *)
(* newer than all before it, and the share never goes back to an older     *)
(* one.  Objects are numbered in the order they come to life.              *)
(***************************************************************************)
EXTENDS Naturals

VARIABLES object,  \* the object the share publishes, 0 before it is connected
          alive,   \* the objects the runtime accepts
          newest,  \* the newest object that ever came to life
          closed   \* the share was disconnected

cellVars == <<object, alive, newest, closed>>

CellInit ==
  /\ newest \in 0..1
  /\ object \in 0..newest
  /\ alive = 1..newest
  /\ closed = FALSE

\* The session was lost, or is being replaced.
Revoke ==
  /\ alive' \in SUBSET alive
  /\ UNCHANGED <<object, newest, closed>>

\* A new session is established.
Establish ==
  /\ newest' = newest + 1
  /\ \E old \in SUBSET alive : alive' = old \cup {newest'}
  /\ UNCHANGED <<object, closed>>

\* The share was connected again, on a session that may already be gone.
Publish ==
  /\ object' \in object..newest
  /\ UNCHANGED <<alive, newest, closed>>

CloseCell ==
  /\ closed' = TRUE
  /\ UNCHANGED <<object, alive, newest>>

CellNext == Revoke \/ Establish \/ Publish \/ CloseCell

CellSpec == CellInit /\ [][CellNext]_cellVars
=============================================================================
