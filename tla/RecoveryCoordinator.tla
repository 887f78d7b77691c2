-------------------------- MODULE RecoveryCoordinator --------------------------
(***************************************************************************)
(* RecoveryCoordinator (runtime/recovery.rs): the reducer that decides     *)
(* when a lost connection is tried again and when recovery is given up.    *)
(* The operators map the coordinator's state to the one after an event; an *)
(* event that does not apply leaves it alone.  The effect the code returns *)
(* can be read off the new phase: Waiting schedules an attempt, Connecting *)
(* starts it, Connected publishes the generation, Failed and Closed end    *)
(* the recovery.                                                           *)
(***************************************************************************)
EXTENDS Naturals

CONSTANTS MaxAttempts, AttemptTimeout, TotalTimeout,
          InitialBackoff, MaximumBackoff, MaximumJitter

ASSUME PolicyAssumption ==
  /\ MaxAttempts \in Nat /\ AttemptTimeout \in Nat /\ TotalTimeout \in Nat
  /\ InitialBackoff \in Nat /\ MaximumBackoff \in Nat /\ MaximumJitter \in Nat

Earlier(a, b) == IF a <= b THEN a ELSE b

\* A connected coordinator keeps its generation, a waiting or connecting one
\* its attempt, the time it waits for and the end of the whole recovery.
RecoveryState(phase, generation, attempt, until, total) ==
  [phase |-> phase, generation |-> generation, attempt |-> attempt,
   until |-> until, total |-> total]

Connected(generation) == RecoveryState("Connected", generation, 0, 0, 0)

Over(c, phase) == RecoveryState(phase, c.generation, 0, 0, 0)

Backoff(failed) ==
  IF failed = 0 THEN 0
  ELSE Earlier(InitialBackoff * 2 ^ Earlier(failed - 1, 31), MaximumBackoff)

Schedule(c, attempt, now, total) ==
  RecoveryState("Waiting", c.generation, attempt,
                Earlier(now + Backoff(attempt - 1), total), total)

TransportLost(c, generation, now) ==
  IF c.phase # "Connected" \/ c.generation # generation THEN c
  ELSE IF MaxAttempts = 0 THEN Over(c, "Failed")
  ELSE Schedule(c, 1, now, now + TotalTimeout)

Wake(c, now) ==
  IF c.phase # "Waiting" \/ now < c.until THEN c
  ELSE IF now >= c.total THEN Over(c, "Failed")
  ELSE RecoveryState("Connecting", c.generation, c.attempt,
                     Earlier(now + AttemptTimeout, c.total), c.total)

AttemptSucceeded(c, generation) ==
  IF c.phase = "Connecting" THEN Connected(generation) ELSE c

\* Mutant of AttemptFailed: one attempt more than the policy allows.
AttemptFailedOnceMore(c, now, jitter) ==
  IF c.phase # "Connecting" THEN c
  ELSE IF c.attempt > MaxAttempts \/ now >= c.total THEN Over(c, "Failed")
  ELSE Schedule(c, c.attempt + 1, now + Earlier(jitter, MaximumJitter), c.total)

AttemptFailed(c, now, jitter) ==
  IF c.phase # "Connecting" THEN c
  ELSE IF c.attempt >= MaxAttempts \/ now >= c.total THEN Over(c, "Failed")
  ELSE Schedule(c, c.attempt + 1, now + Earlier(jitter, MaximumJitter), c.total)

CloseCoordinator(c) ==
  IF c.phase \in {"Closed", "Failed"} THEN c ELSE Over(c, "Closed")
=============================================================================
