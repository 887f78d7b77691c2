------------------------- MODULE RecoveryDriverProofs -------------------------
(***************************************************************************)
(* Proofs about RecoveryDriver, for any number of operations that wait, of *)
(* callers of close and of losses, and for any retry policy.  The steps of *)
(* the recovery task, of a close and of a drop interleave freely; what     *)
(* keeps them right is that only the task moves the generation, that the   *)
(* waits all depend on the generation being replaced, and that the task    *)
(* leaves a generation only after its end.                                 *)
(***************************************************************************)
EXTENDS RecoveryDriver, FiniteSetTheorems, TLAPS

Phases == {"Connected", "Waiting", "Connecting", "Failed", "Closed"}

\* The reducer: what the policy allows, whatever the clock.
Bounded(c) ==
  /\ c.phase \in Phases /\ c.generation \in Generations
  /\ c.phase \in {"Waiting", "Connecting"} =>
       c.total \in Nat /\ c.attempt \in 1..MaxAttempts /\ c.until <= c.total

CoordinatorInv == now \in 0..Horizon /\ Bounded(coordinator)

\* The task has the replacement, and has published it.
After == {"recovered", "restoring"}
Replaced == {"finishing", "recovered", "restoring"}
Ended == {"closing", "releasing", "done"}

\* Where the task is says which generations are active and published, unless
\* the connection was dropped, and that the generation it left has ended.
TaskInv ==
  /\ task \in TaskAt
  /\ current \in Generations /\ active \in Generations
  /\ generations \in [Generations -> {"none", "up", "lost", "closed"}]
  /\ dropped \in BOOLEAN
  /\ task \notin Ended \cup {"watching"} => current < LastGeneration
  /\ task \notin Ended => active = IF task \in After THEN current + 1 ELSE current
  /\ task \in Ended => active \in current..(current + 1)
  /\ ~dropped /\ task \in Ended => active = current
  /\ ~dropped => published = IF task \in Replaced THEN current + 1 ELSE current
  /\ dropped => published = NoGeneration
  /\ task \in Holding => ~dropped
  /\ task = "closing" => dropped
  /\ task # "watching" => generations[current] \in {"lost", "closed"}

Wait == [at : {"idle", "asking", "through", "notConnection", "full", "waiting", "ready", "failed", "gone"},
         dependency : Generations \cup {NoGeneration}]
CloseCall == [at : {"idle", "reduce", "fail", "load", "stop", "take", "join", "returned"},
              target : Generations \cup {NoGeneration},
              took : [recovery : BOOLEAN, notifications : SUBSET Generations]]

\* Everybody who waits waits for the replacement of the active generation.
WaitsInv ==
  /\ waiter \in [Waiters -> Wait]
  /\ recovering \in BOOLEAN
  /\ IsFiniteSet(waits) /\ Cardinality(waits) <= Capacity
  /\ waits \subseteq [id : Waiters, dependency : {active}]
  /\ \A w \in Waiters :
       /\ waiter[w].at = "waiting" => waiter[w].dependency = active
       /\ waiter[w].at = "ready" => waiter[w].dependency < active
  /\ RecoveringIsDriven

\* A close that returned with the recovery task's handle has seen it end.
ClosersInv ==
  /\ handles \in [recovery : BOOLEAN, notifications : SUBSET Generations]
  /\ notify \subseteq Generations
  /\ closer \in [Closers -> CloseCall]
  /\ \A c \in Closers : closer[c].at = "returned" /\ closer[c].took.recovery => task = "done"

FlagsInv == cancelled \in BOOLEAN /\ stopped \in BOOLEAN /\ users \in BOOLEAN

DriverInv == CoordinatorInv /\ TaskInv /\ WaitsInv /\ ClosersInv /\ FlagsInv

-----------------------------------------------------------------------------
(* The reducer.                                                            *)

\* A retry state that has ended, or is connected, is bounded trivially.
LEMMA IdleBounded ==
  ASSUME NEW phase \in {"Connected", "Failed", "Closed"}, NEW g \in Generations
  PROVE  Bounded(RecoveryState(phase, g, 0, 0, 0))
BY DEF Bounded, RecoveryState, Phases

\* schedule: the attempt is due before the whole recovery ends.
LEMMA ScheduleBounded ==
  ASSUME NEW c, c.generation \in Generations, NEW attempt \in 1..MaxAttempts, NEW t,
         NEW total \in Nat
  PROVE  Bounded(Schedule(c, attempt, t, total))
<1> DEFINE due == t + Backoff(attempt - 1)
           s == RecoveryState("Waiting", c.generation, attempt, Earlier(due, total), total)
<1>1. Earlier(due, total) <= total
  <2> HIDE DEF due
  <2> QED BY DEF Earlier
<1>2. /\ s.phase = "Waiting" /\ s.generation = c.generation /\ s.attempt = attempt
      /\ s.until = Earlier(due, total) /\ s.total = total
  BY DEF RecoveryState
<1>3. Schedule(c, attempt, t, total) = s
  BY DEF Schedule
<1> HIDE DEF due, s
<1> QED BY <1>1, <1>2, <1>3 DEF Bounded, Phases

\* TransportLost schedules the first attempt if the policy has one.
LEMMA LostBounded ==
  ASSUME NEW c, Bounded(c), NEW g, NEW t \in Nat PROVE Bounded(TransportLost(c, g, t))
<1>1. CASE c.phase # "Connected" \/ c.generation # g
  BY <1>1 DEF TransportLost
<1>2. CASE ~(c.phase # "Connected" \/ c.generation # g) /\ MaxAttempts = 0
  BY <1>2, IdleBounded DEF TransportLost, Over, Bounded
<1>3. CASE ~(c.phase # "Connected" \/ c.generation # g) /\ MaxAttempts # 0
  <2>1. t + TotalTimeout \in Nat /\ 1 \in 1..MaxAttempts /\ c.generation \in Generations
    BY <1>3, PolicyAssumption DEF Bounded
  <2>2. TransportLost(c, g, t) = Schedule(c, 1, t, t + TotalTimeout)
    BY <1>3 DEF TransportLost
  <2> QED BY <2>1, <2>2, ScheduleBounded
<1> QED BY <1>1, <1>2, <1>3

\* Wake starts an attempt that ends before the whole recovery does.
LEMMA WakeBounded == ASSUME NEW c, Bounded(c), NEW t \in Nat PROVE Bounded(Wake(c, t))
<1>1. CASE c.phase # "Waiting" \/ t < c.until
  BY <1>1 DEF Wake
<1>2. CASE ~(c.phase # "Waiting" \/ t < c.until) /\ t >= c.total
  BY <1>2, IdleBounded DEF Wake, Over, Bounded
<1>3. CASE ~(c.phase # "Waiting" \/ t < c.until) /\ ~(t >= c.total)
  <2> DEFINE due == t + AttemptTimeout
             s == RecoveryState("Connecting", c.generation, c.attempt, Earlier(due, c.total), c.total)
  <2>1. /\ c.generation \in Generations /\ c.total \in Nat /\ c.attempt \in 1..MaxAttempts
    BY <1>3 DEF Bounded
  <2>2. Earlier(due, c.total) <= c.total
    <3> HIDE DEF due
    <3> QED BY <2>1 DEF Earlier
  <2>3. /\ s.phase = "Connecting" /\ s.generation = c.generation /\ s.attempt = c.attempt
        /\ s.until = Earlier(due, c.total) /\ s.total = c.total
    BY DEF RecoveryState
  <2>4. Wake(c, t) = s
    BY <1>3 DEF Wake
  <2> HIDE DEF due, s
  <2> QED BY <2>1, <2>2, <2>3, <2>4 DEF Bounded, Phases
<1> QED BY <1>1, <1>2, <1>3

\* AttemptFailed counts the attempts and gives up after the last.
LEMMA FailedBounded ==
  ASSUME NEW c, Bounded(c), NEW t, NEW jitter PROVE Bounded(AttemptFailed(c, t, jitter))
<1>1. CASE c.phase # "Connecting"
  BY <1>1 DEF AttemptFailed
<1>2. CASE c.phase = "Connecting" /\ (c.attempt >= MaxAttempts \/ t >= c.total)
  BY <1>2, IdleBounded DEF AttemptFailed, Over, Bounded
<1>3. CASE c.phase = "Connecting" /\ ~(c.attempt >= MaxAttempts \/ t >= c.total)
  <2>1. c.generation \in Generations /\ c.total \in Nat /\ c.attempt + 1 \in 1..MaxAttempts
    BY <1>3, PolicyAssumption DEF Bounded
  <2>2. AttemptFailed(c, t, jitter)
          = Schedule(c, c.attempt + 1, t + Earlier(jitter, MaximumJitter), c.total)
    BY <1>3 DEF AttemptFailed
  <2> QED BY <2>1, <2>2, ScheduleBounded
<1> QED BY <1>1, <1>2, <1>3

\* AttemptSucceeded and Close end the retries.
LEMMA EndBounded ==
  ASSUME NEW c, Bounded(c), NEW g \in Generations
  PROVE  Bounded(AttemptSucceeded(c, g)) /\ Bounded(CloseCoordinator(c))
<1>1. Bounded(AttemptSucceeded(c, g))
  BY IdleBounded DEF AttemptSucceeded, Connected
<1>2. Bounded(CloseCoordinator(c))
  BY IdleBounded DEF CloseCoordinator, Over, Bounded
<1> QED BY <1>1, <1>2

\* Every step keeps the retries within the policy.
LEMMA CoordinatorKeeps ==
  ASSUME DriverInv, [RecoveryNext]_recoveryVars PROVE CoordinatorInv'
<1>1. now \in Nat /\ now \in 0..Horizon /\ Bounded(coordinator)
  BY DriverAssumption DEF DriverInv, CoordinatorInv
<1>2. CASE UNCHANGED <<coordinator, now>>
  BY <1>1, <1>2 DEF CoordinatorInv, Bounded
<1>3. ASSUME NEW c, Bounded(c), coordinator' = c, now' = now PROVE CoordinatorInv'
  BY <1>1, <1>3 DEF CoordinatorInv, Bounded
<1>4. CASE LoseTransport
  BY <1>1, <1>3, <1>4, LostBounded DEF LoseTransport, taskAlone
<1>5. CASE WakeUp
  BY <1>1, <1>3, <1>5, WakeBounded DEF WakeUp, taskAlone
<1>6. CASE FailAttempt
  BY <1>1, <1>3, <1>6, FailedBounded DEF FailAttempt, taskAlone
<1>7. CASE SucceedAttempt
  <2>1. NextGeneration \in Generations
    BY <1>7, DriverAssumption DEF SucceedAttempt, DriverInv, TaskInv, Ended, NextGeneration, Generations
  <2> QED BY <1>1, <1>3, <1>7, <2>1, EndBounded DEF SucceedAttempt, taskAlone
<1>8. CASE TaskCloses \/ \E c \in Closers : CloseReduces(c)
  <2>1. coordinator' = CloseCoordinator(coordinator) /\ now' = now
    BY <1>8 DEF TaskCloses, CloseReduces, taskAlone, closeAlone
  <2>2. Bounded(CloseCoordinator(coordinator))
    BY <1>1, EndBounded, DriverAssumption DEF Generations
  <2> QED BY <1>3, <2>1, <2>2
<1>9. CASE Tick
  <2>1. coordinator' = coordinator /\ now' = now + 1 /\ now < Horizon
    BY <1>9 DEF Tick, shared
  <2>2. now' \in 0..Horizon
    BY <1>1, <2>1, DriverAssumption, SMTT(30)
  <2> QED BY <1>1, <2>1, <2>2 DEF CoordinatorInv, Bounded
<1>10. CASE /\ TaskStep
            /\ ~(LoseTransport \/ WakeUp \/ FailAttempt \/ SucceedAttempt \/ TaskCloses)
  BY <1>2, <1>10 DEF TaskStep, WatchEnds, BeginRecovery, DriveClosed, DriveOver, SleepEnds,
     BeginBootstrap, AttemptTimesOut, PublishGeneration, Finish, Upgrade, Restore, Release,
     taskAlone, shared
<1>11. CASE BootstrapSucceeds \/ BootstrapFails
  BY <1>2, <1>11 DEF BootstrapSucceeds, BootstrapFails, taskAlone, shared
<1>12. ASSUME NEW c \in Closers, CloseBegins(c) \/ (CloseStep(c) /\ ~CloseReduces(c))
       PROVE  CoordinatorInv'
  BY <1>2, <1>12 DEF CloseBegins, CloseStep, CloseFailsWaiters, CloseLoads, CloseStops, CloseTakes,
     CloseReturns, closeAlone, shared
<1>13. ASSUME NEW w \in Waiters, ReadConnection(w) \/ ResolveDependency(w) \/ GiveUp(w)
       PROVE  CoordinatorInv'
  BY <1>2, <1>13 DEF ReadConnection, ResolveDependency, GiveUp, waitAlone
<1>14. ASSUME NEW g \in Generations, Lose(g) \/ Reclaim(g) \/ NotifyEnds(g) PROVE CoordinatorInv'
  BY <1>2, <1>14 DEF Lose, Reclaim, NotifyEnds, shared
<1>15. CASE UsersLeave \/ DropCore \/ UNCHANGED recoveryVars
  BY <1>2, <1>15 DEF UsersLeave, DropCore, recoveryVars, shared
<1> QED BY <1>4, <1>5, <1>6, <1>7, <1>8, <1>9, <1>10, <1>11, <1>12, <1>13, <1>14, <1>15
        DEF RecoveryNext, CloseSome, CloseStep, WorldStep

-----------------------------------------------------------------------------
(* The recovery task and the generations.                                  *)

\* A generation that has ended does not come back: the transport, a close and
\* its owner only end it, and the task makes none but the next.
LEMMA EndsOnly ==
  ASSUME TaskInv, UNCHANGED <<task, current, active, published, dropped>>,
         generations' \in [Generations -> {"none", "up", "lost", "closed"}],
         \A g \in Generations : generations[g] # "up" => generations'[g] = generations[g]
  PROVE  TaskInv'
BY DEF TaskInv

\* A step from watching to the decision to recover.
LEMMA TaskBegins ==
  ASSUME TaskInv, WatchEnds \/ LoseTransport \/ BeginRecovery PROVE TaskInv'
<1>1. UNCHANGED <<current, active, published, dropped, generations>>
  BY DEF WatchEnds, LoseTransport, BeginRecovery, taskAlone, shared
<1>2. CASE WatchEnds
  <2>1. /\ task = "watching" /\ generations[current] \in {"lost", "closed"}
        /\ task' \in {"closing", "done", "losing"}
        /\ task' = "closing" => dropped
        /\ task' = "losing" => current # LastGeneration
    BY <1>2 DEF WatchEnds, Go
  <2> QED BY <1>1, <2>1, DriverAssumption
          DEF TaskInv, TaskAt, Driving, Ended, After, Replaced, Holding, Generations
<1>3. CASE LoseTransport \/ BeginRecovery
  <2>1. task \in {"losing", "beginning"} /\ task' \in {"done", "beginning", "driving"}
    BY <1>3 DEF LoseTransport, BeginRecovery, Go
  <2>2. current \in current..(current + 1)
    BY DriverAssumption DEF TaskInv, Generations
  <2> QED BY <1>1, <2>1, <2>2 DEF TaskInv, TaskAt, Driving, Ended, After, Replaced, Holding
<1> QED BY <1>2, <1>3

\* A step of the attempts, none of which touches what is published.
LEMMA TaskDrives ==
  ASSUME TaskInv, \/ DriveClosed \/ DriveOver \/ SleepEnds \/ WakeUp \/ BeginBootstrap
                  \/ AttemptTimesOut \/ FailAttempt \/ SucceedAttempt \/ BootstrapFails
  PROVE  TaskInv'
<1>1. UNCHANGED <<current, active, published, dropped, generations>>
  BY DEF DriveClosed, DriveOver, SleepEnds, WakeUp, BeginBootstrap, AttemptTimesOut, FailAttempt,
     SucceedAttempt, BootstrapFails, taskAlone, shared
<1>2. /\ task \in {"driving", "waking", "bootstrapping", "failing", "succeeding"}
      /\ \/ task' \in {"releasing", "waking", "driving", "failing"}
         \/ task' = "bootstrapping" /\ ~dropped
         \/ task' = "publishing" /\ task = "succeeding"
  BY DEF DriveClosed, DriveOver, SleepEnds, WakeUp, BeginBootstrap, AttemptTimesOut, FailAttempt,
     SucceedAttempt, BootstrapFails, Go
<1>3. current \in current..(current + 1)
  BY DriverAssumption DEF TaskInv, Generations
<1> QED BY <1>1, <1>2, <1>3 DEF TaskInv, TaskAt, Driving, Ended, After, Replaced, Holding

\* A candidate, its publication, and the generation watched from then on.
LEMMA TaskReplaces ==
  ASSUME TaskInv, BootstrapSucceeds \/ PublishGeneration \/ Finish \/ Upgrade \/ Restore
  PROVE  TaskInv'
<1>1. current \in Nat /\ LastGeneration \in Nat /\ current <= LastGeneration
  BY DriverAssumption DEF TaskInv, Generations
<1>2. CASE BootstrapSucceeds
  <2>1. /\ task = "bootstrapping" /\ task' = "succeeding"
        /\ UNCHANGED <<current, active, published, dropped>>
        /\ generations' = [generations EXCEPT ![current + 1] = "up"]
    BY <1>2 DEF BootstrapSucceeds, Go, taskAlone, shared, NextGeneration
  <2>2. generations[current] \in {"lost", "closed"}
        /\ generations \in [Generations -> {"none", "up", "lost", "closed"}]
        /\ current \in Generations
    BY <2>1 DEF TaskInv
  <2>3. generations' \in [Generations -> {"none", "up", "lost", "closed"}]
        /\ generations'[current] = generations[current]
    <3>1. current + 1 # current
      BY <1>1
    <3> QED BY <2>1, <2>2, <3>1, ZenonT(40)
  <2> QED BY <2>1, <2>2, <2>3 DEF TaskInv, TaskAt, Driving, Ended, After, Replaced, Holding
<1>3. CASE PublishGeneration
  <2>1. /\ task = "publishing" /\ task' = "finishing" /\ published' = current + 1
        /\ UNCHANGED <<current, active, dropped, generations>>
    BY <1>3 DEF PublishGeneration, Go, shared, NextGeneration
  <2> QED BY <2>1 DEF TaskInv, TaskAt, Driving, Ended, After, Replaced, Holding
<1>4. CASE Finish
  <2>1. /\ task = "finishing" /\ task' = "recovered" /\ active' = current + 1
        /\ UNCHANGED <<current, published, dropped, generations>>
    BY <1>4 DEF Finish, FinishRecovery, Go, taskAlone, NextGeneration
  <2> QED BY <1>1, <2>1
          DEF TaskInv, TaskAt, Driving, Ended, After, Replaced, Holding, Generations
<1>5. CASE Upgrade
  <2>1. /\ task = "recovered" /\ task' = (IF dropped THEN "closing" ELSE "restoring")
        /\ UNCHANGED <<current, active, published, dropped, generations>>
    BY <1>5 DEF Upgrade, Go, taskAlone, shared
  <2> QED BY <1>1, <2>1 DEF TaskInv, TaskAt, Driving, Ended, After, Replaced, Holding
<1>6. CASE Restore
  <2>1. /\ task = "restoring" /\ task' = "watching" /\ current' = published
        /\ UNCHANGED <<active, published, dropped, generations>>
    BY <1>6 DEF Restore, Go, taskAlone, shared
  <2> QED BY <1>1, <2>1
          DEF TaskInv, TaskAt, Driving, Ended, After, Replaced, Holding, Generations
<1> QED BY <1>2, <1>3, <1>4, <1>5, <1>6

\* The end of the task.
LEMMA TaskEnds == ASSUME TaskInv, Release \/ TaskCloses PROVE TaskInv'
<1>1. UNCHANGED <<current, active, published, dropped, generations>>
  BY DEF Release, TaskCloses, FailWaiters, taskAlone
<1>2. \/ task = "releasing" /\ task' = "done"
      \/ task = "closing" /\ task' = "releasing"
  BY DEF Release, TaskCloses, Go
<1> QED BY <1>1, <1>2 DEF TaskInv, TaskAt, Driving, Ended, After, Replaced, Holding

\* Every step keeps what the task knows of the generations.
LEMMA TaskKeeps == ASSUME DriverInv, [RecoveryNext]_recoveryVars PROVE TaskInv'
<1>1. TaskInv /\ generations \in [Generations -> {"none", "up", "lost", "closed"}]
  BY DEF DriverInv, TaskInv
<1>2. CASE UNCHANGED <<task, current, active, published, dropped, generations>>
  BY <1>1, <1>2, EndsOnly
<1>3. CASE TaskStep
  BY <1>1, <1>3, TaskBegins, TaskDrives, TaskReplaces, TaskEnds DEF TaskStep
<1>4. CASE BootstrapSucceeds \/ BootstrapFails
  BY <1>1, <1>4, TaskDrives, TaskReplaces
<1>5. ASSUME NEW c \in Closers, CloseBegins(c) \/ (CloseStep(c) /\ ~CloseStops(c))
      PROVE  TaskInv'
  BY <1>2, <1>5 DEF CloseBegins, CloseStep, CloseReduces, CloseFailsWaiters, FailWaiters, CloseLoads,
     CloseTakes, CloseReturns, closeAlone, shared
<1>6. ASSUME NEW c \in Closers, CloseStops(c) PROVE TaskInv'
  <2>1. UNCHANGED <<task, current, active, published, dropped>>
    BY <1>6 DEF CloseStops, closeAlone, shared
  <2>2. generations' = [g \in Generations |->
                          IF g = closer[c].target /\ generations[g] = "up" THEN "closed"
                          ELSE generations[g]]
    BY <1>6 DEF CloseStops
  <2>3. generations' \in [Generations -> {"none", "up", "lost", "closed"}]
        /\ \A g \in Generations : generations[g] # "up" => generations'[g] = generations[g]
    BY <1>1, <2>2
  <2> QED BY <1>1, <2>1, <2>3, EndsOnly
<1>7. ASSUME NEW w \in Waiters, ReadConnection(w) \/ ResolveDependency(w) \/ GiveUp(w)
      PROVE  TaskInv'
  BY <1>2, <1>7 DEF ReadConnection, ResolveDependency, GiveUp, waitAlone
<1>8. ASSUME NEW g \in Generations, Lose(g) \/ Reclaim(g) PROVE TaskInv'
  <2>1. UNCHANGED <<task, current, active, published, dropped>>
    BY <1>8 DEF Lose, Reclaim, shared
  <2>2. /\ generations[g] = "up"
        /\ \E end \in {"lost", "closed"} : generations' = [generations EXCEPT ![g] = end]
    BY <1>8 DEF Lose, Reclaim
  <2>3. generations' \in [Generations -> {"none", "up", "lost", "closed"}]
        /\ \A h \in Generations : generations[h] # "up" => generations'[h] = generations[h]
    BY <1>1, <2>2, SMTT(30)
  <2> QED BY <1>1, <2>1, <2>3, EndsOnly, SMTT(30)
<1>9. CASE UsersLeave \/ Tick \/ (\E g \in Generations : NotifyEnds(g)) \/ UNCHANGED recoveryVars
  BY <1>2, <1>9 DEF UsersLeave, Tick, NotifyEnds, recoveryVars, shared
<1>10. CASE DropCore
  <2>1. /\ UNCHANGED <<task, current, active, generations>>
        /\ published' = NoGeneration /\ dropped' = TRUE /\ task \notin Holding
    BY <1>10 DEF DropCore, CoreHeld
  <2> QED BY <1>1, <2>1 DEF TaskInv
<1> QED BY <1>3, <1>4, <1>5, <1>6, <1>7, <1>8, <1>9, <1>10
        DEF RecoveryNext, CloseSome, CloseStep, WorldStep

-----------------------------------------------------------------------------
(* The waits.                                                              *)

\* A step that leaves the waits and the flag alone, and does not leave the
\* recovery while the flag is set.
LEMMA WaitsQuiet ==
  ASSUME WaitsInv, UNCHANGED <<active, recovering, waits, waiter>>,
         recovering => task' \in Driving
  PROVE  WaitsInv'
<1>1. RecoveringIsDriven'
  BY DEF WaitsInv, RecoveringIsDriven
<1> QED BY <1>1 DEF WaitsInv

\* fail_waiters: nobody waits any more.
LEMMA WaitsFail == ASSUME WaitsInv, FailWaiters PROVE WaitsInv'
<1>1. /\ recovering' = FALSE /\ waits' = {} /\ active' = active
      /\ \A w \in Waiters : waiter[w].at = "waiting" <=> \E wait \in waits : wait.id = w
  BY DEF FailWaiters, WaitsInv, RecoveringIsDriven
<1>2. /\ waiter' = [w \in Waiters |-> IF waiter[w].at = "waiting"
                                      THEN [waiter[w] EXCEPT !.at = "failed"] ELSE waiter[w]]
  BY <1>1 DEF FailWaiters, CompleteWaits
<1>3. /\ waiter' \in [Waiters -> Wait]
      /\ \A w \in Waiters : /\ waiter'[w].at # "waiting"
                            /\ waiter'[w].dependency = waiter[w].dependency
                            /\ waiter'[w].at = "ready" => waiter[w].at = "ready"
  BY <1>2 DEF WaitsInv, Wait
<1>4. IsFiniteSet(waits') /\ Cardinality(waits') <= Capacity
  BY <1>1, FS_EmptySet, DriverAssumption
<1>5. RecoveringIsDriven'
  BY <1>1, <1>3 DEF RecoveringIsDriven
<1> QED BY <1>1, <1>3, <1>4, <1>5, ZenonT(40) DEF WaitsInv

\* finish_recovery: every wait depends on the generation that is replaced, so
\* every one is released, to a newer generation than it asked for.
LEMMA WaitsRelease == ASSUME WaitsInv, TaskInv, Finish PROVE WaitsInv'
<1>1. task = "finishing" /\ active = current /\ current \in Nat
  BY DriverAssumption DEF Finish, TaskInv, Ended, After, Generations
<1>2. \A wait \in waits : wait.dependency = active
  BY DEF WaitsInv
<1>3. waits' = {} /\ recovering' = FALSE /\ active' = current + 1
  BY <1>2 DEF Finish, FinishRecovery, NextGeneration
<1>4. CompleteWaits(waits, "ready")
  <2>1. {wait \in waits : (IF wait.dependency = active THEN NextGeneration ELSE wait.dependency)
                            = NextGeneration} = waits
    BY <1>2
  <2> QED BY <2>1 DEF Finish, FinishRecovery
<1>5. \A w \in Waiters : waiter[w].at = "waiting" <=> \E wait \in waits : wait.id = w
  BY DEF WaitsInv, RecoveringIsDriven
<1>6. waiter' = [w \in Waiters |-> IF waiter[w].at = "waiting"
                                   THEN [waiter[w] EXCEPT !.at = "ready"] ELSE waiter[w]]
  BY <1>4, <1>5 DEF CompleteWaits
<1>7. /\ waiter' \in [Waiters -> Wait]
      /\ \A w \in Waiters : /\ waiter'[w].at # "waiting"
                            /\ waiter'[w].dependency = waiter[w].dependency
                            /\ waiter'[w].at = "ready" => waiter[w].at \in {"ready", "waiting"}
  BY <1>6 DEF WaitsInv, Wait
<1>8. \A w \in Waiters : waiter'[w].at = "ready" => waiter'[w].dependency < active'
  <2> SUFFICES ASSUME NEW w \in Waiters, waiter'[w].at = "ready"
               PROVE  waiter'[w].dependency < active'
    OBVIOUS
  <2>1. waiter[w].dependency = active \/ waiter[w].dependency < active
    BY <1>7 DEF WaitsInv
  <2>2. waiter[w].dependency \in Nat
    BY DriverAssumption DEF WaitsInv, Wait, Generations, NoGeneration
  <2> QED BY <1>1, <1>3, <1>7, <2>1, <2>2
<1>9. IsFiniteSet(waits') /\ Cardinality(waits') <= Capacity
  BY <1>3, FS_EmptySet, DriverAssumption
<1>10. RecoveringIsDriven'
  BY <1>3, <1>7 DEF RecoveringIsDriven
<1> QED BY <1>3, <1>7, <1>8, <1>9, <1>10, ZenonT(40) DEF WaitsInv

\* resolve_dependency: a wait is queued only while the recovery goes on, for
\* the active generation, within the capacity.
LEMMA WaitsResolve ==
  ASSUME WaitsInv, NEW w \in Waiters, ResolveDependency(w) PROVE WaitsInv'
<1> DEFINE new == [id |-> w, dependency |-> waiter[w].dependency]
           Answers == {"through", "notConnection", "full", "waiting"}
<1>1. /\ waiter[w].at = "asking" /\ UNCHANGED <<active, recovering, task>>
      /\ \E answer \in Answers :
           /\ waiter' = [waiter EXCEPT ![w].at = answer]
           /\ \/ answer # "waiting" /\ waits' = waits
              \/ /\ answer = "waiting" /\ waits' = waits \cup {new}
                 /\ recovering /\ waiter[w].dependency = active /\ ~(Cardinality(waits) >= Capacity)
  <2> DEFINE answer == CASE ~recovering -> "through"
                         [] recovering /\ waiter[w].dependency # active -> "notConnection"
                         [] recovering /\ waiter[w].dependency = active
                              /\ Cardinality(waits) >= Capacity -> "full"
                         [] OTHER -> "waiting"
  <2>1. /\ waiter' = [waiter EXCEPT ![w].at = answer]
        /\ waits' = IF answer = "waiting" THEN waits \cup {new} ELSE waits
    BY DEF ResolveDependency
  <2>2. answer \in Answers
    OBVIOUS
  <2>3. answer = "waiting" => /\ recovering /\ waiter[w].dependency = active
                              /\ ~(Cardinality(waits) >= Capacity)
    BY DEF WaitsInv
  <2> HIDE DEF answer
  <2> QED BY <2>1, <2>2, <2>3, ZenonT(40) DEF ResolveDependency, waitAlone
<1>2. PICK answer \in Answers :
        /\ waiter' = [waiter EXCEPT ![w].at = answer]
        /\ \/ answer # "waiting" /\ waits' = waits
           \/ /\ answer = "waiting" /\ waits' = waits \cup {new}
              /\ recovering /\ waiter[w].dependency = active /\ ~(Cardinality(waits) >= Capacity)
  BY <1>1, ZenonT(40)
<1>3. /\ waiter' \in [Waiters -> Wait]
      /\ waiter'[w].at = answer /\ waiter'[w].dependency = waiter[w].dependency
      /\ \A v \in Waiters \ {w} : waiter'[v] = waiter[v]
  BY <1>2 DEF WaitsInv, Wait
<1>4. ~ \E wait \in waits : wait.id = w
  BY <1>1 DEF WaitsInv, RecoveringIsDriven
<1>5. new.id = w /\ new.dependency = waiter[w].dependency /\ new \notin waits
  BY <1>4
<1> HIDE DEF new
<1>6. IsFiniteSet(waits') /\ Cardinality(waits') <= Capacity
  <2>1. CASE waits' = waits
    BY <2>1 DEF WaitsInv
  <2>2. CASE waits' = waits \cup {new} /\ ~(Cardinality(waits) >= Capacity)
    <3>1. IsFiniteSet(waits) /\ Cardinality(waits) \in Nat
      BY FS_CardinalityType DEF WaitsInv
    <3>2. IsFiniteSet(waits') /\ Cardinality(waits') = Cardinality(waits) + 1
      BY <1>5, <2>2, <3>1, FS_AddElement
    <3> QED BY <2>2, <3>1, <3>2, DriverAssumption
  <2> QED BY <1>2, <2>1, <2>2
<1>7. waits' \subseteq [id : Waiters, dependency : {active'}]
  <2>1. new = [id |-> w, dependency |-> waiter[w].dependency]
    BY DEF new
  <2> QED BY <1>1, <1>2, <2>1 DEF WaitsInv
<1>8. \A v \in Waiters :
        /\ waiter'[v].at = "waiting" => waiter'[v].dependency = active'
        /\ waiter'[v].at = "ready" => waiter'[v].dependency < active'
  BY <1>1, <1>2, <1>3 DEF WaitsInv
<1>9. RecoveringIsDriven'
  <2>1. (recovering => task \in Driving) /\ (waits' # {} => recovering)
    BY <1>2 DEF WaitsInv, RecoveringIsDriven
  <2>2. \A v \in Waiters : waiter'[v].at = "waiting" <=> \E wait \in waits' : wait.id = v
    BY <1>2, <1>3, <1>4, <1>5 DEF WaitsInv, RecoveringIsDriven
  <2> QED BY <1>1, <2>1, <2>2 DEF RecoveringIsDriven
<1> QED BY <1>1, <1>3, <1>6, <1>7, <1>8, <1>9, SMTT(30) DEF WaitsInv

\* The others: a wait is given up, and a new one reads the connection.
LEMMA WaitsCome ==
  ASSUME WaitsInv, TaskInv, NEW w \in Waiters, GiveUp(w) \/ ReadConnection(w) PROVE WaitsInv'
<1>1. UNCHANGED <<active, recovering, task>> /\ published \in Generations \cup {NoGeneration}
  <2>1. published \in Generations \cup {NoGeneration}
    BY DriverAssumption
       DEF TaskInv, Generations, NoGeneration, Ended, After, Replaced
  <2> QED BY <2>1 DEF GiveUp, ReadConnection, waitAlone
<1>2. /\ waits' = {wait \in waits : wait.id # w}
      /\ \A v \in Waiters \ {w} : waiter'[v] = waiter[v]
      /\ waiter'[w].at \in {"asking", "gone"}
      /\ waiter' \in [Waiters -> Wait]
  <2>1. CASE GiveUp(w)
    BY <2>1 DEF GiveUp, WaitsInv, Wait
  <2>2. CASE ReadConnection(w)
    <3>1. /\ waits' = waits /\ waiter[w].at = "idle"
          /\ waiter' = [waiter EXCEPT ![w] = [at |-> "asking", dependency |-> published]]
      BY <2>2 DEF ReadConnection
    <3>2. ~ \E wait \in waits : wait.id = w
      BY <3>1 DEF WaitsInv, RecoveringIsDriven
    <3> QED BY <1>1, <3>1, <3>2 DEF WaitsInv, Wait
  <2> QED BY <2>1, <2>2
<1>3. IsFiniteSet(waits') /\ Cardinality(waits') <= Capacity
  <2>1. IsFiniteSet(waits) /\ waits' \subseteq waits
    BY <1>2 DEF WaitsInv
  <2>2. /\ IsFiniteSet(waits') /\ Cardinality(waits') <= Cardinality(waits)
        /\ Cardinality(waits') \in Nat /\ Cardinality(waits) \in Nat
    BY <2>1, FS_Subset, FS_CardinalityType
  <2> QED BY <2>2, DriverAssumption DEF WaitsInv
<1>4. RecoveringIsDriven'
  BY <1>1, <1>2 DEF WaitsInv, RecoveringIsDriven
<1>5. waits' \subseteq [id : Waiters, dependency : {active'}]
  BY <1>1, <1>2 DEF WaitsInv
<1>6. \A v \in Waiters :
        /\ waiter'[v].at = "waiting" => waiter'[v].dependency = active'
        /\ waiter'[v].at = "ready" => waiter'[v].dependency < active'
  BY <1>1, <1>2 DEF WaitsInv
<1> QED BY <1>1, <1>2, <1>3, <1>4, <1>5, <1>6 DEF WaitsInv

\* Every step keeps the waits.
LEMMA WaitsKeep == ASSUME DriverInv, [RecoveryNext]_recoveryVars PROVE WaitsInv'
<1>1. WaitsInv /\ TaskInv /\ (recovering => task \in Driving)
  BY DEF DriverInv, WaitsInv, RecoveringIsDriven
<1>2. CASE UNCHANGED <<active, recovering, waits, waiter>> /\ (recovering => task' \in Driving)
  BY <1>1, <1>2, WaitsQuiet
<1>3. CASE WatchEnds \/ LoseTransport \/ Upgrade \/ Restore \/ TaskCloses
  <2>1. UNCHANGED <<active, recovering, waits, waiter>>
    BY <1>3 DEF WatchEnds, LoseTransport, Upgrade, Restore, TaskCloses, shared
  <2>2. task \in {"watching", "losing", "recovered", "restoring", "closing"}
    BY <1>3 DEF WatchEnds, LoseTransport, Upgrade, Restore, TaskCloses
  <2>3. ~recovering
    BY <1>1, <2>2 DEF Driving
  <2> QED BY <1>2, <2>1, <2>3
<1>4. CASE \/ DriveClosed \/ DriveOver \/ SleepEnds \/ WakeUp \/ BeginBootstrap \/ AttemptTimesOut
           \/ FailAttempt \/ SucceedAttempt \/ PublishGeneration \/ BootstrapSucceeds \/ BootstrapFails
  <2>1. UNCHANGED <<active, recovering, waits, waiter>>
    BY <1>4, SMTT(30) DEF DriveClosed, DriveOver, SleepEnds, WakeUp, BeginBootstrap, AttemptTimesOut,
       FailAttempt, SucceedAttempt, PublishGeneration, BootstrapSucceeds, BootstrapFails, shared
  <2>2. task' \in Driving
    BY <1>4 DEF DriveClosed, DriveOver, SleepEnds, WakeUp, BeginBootstrap, AttemptTimesOut,
       FailAttempt, SucceedAttempt, PublishGeneration, BootstrapSucceeds, BootstrapFails, Go, Driving
  <2> QED BY <1>2, <2>1, <2>2, SMTT(30)
<1>5. CASE BeginRecovery
  <2>1. UNCHANGED <<active, waits, waiter>> /\ task = "beginning"
    BY <1>5 DEF BeginRecovery
  <2>2. recovering' = FALSE \/ (recovering' = TRUE /\ task' = "driving")
    <3>1. recovering = FALSE
      BY <1>1, <2>1 DEF Driving, WaitsInv
    <3> QED BY <1>5, <3>1 DEF BeginRecovery, Go
  <2>3. RecoveringIsDriven'
    <3>1. waits = {}
      BY <1>1, <2>1 DEF WaitsInv, RecoveringIsDriven, Driving
    <3> QED BY <1>1, <2>1, <2>2, <3>1 DEF WaitsInv, RecoveringIsDriven, Driving
  <2> QED BY <1>1, <2>1, <2>2, <2>3, ZenonT(40) DEF WaitsInv
<1>6. CASE Finish
  BY <1>1, <1>6, WaitsRelease
<1>7. CASE Release \/ \E c \in Closers : CloseFailsWaiters(c)
  BY <1>1, <1>7, WaitsFail DEF Release, CloseFailsWaiters
<1>8. ASSUME NEW c \in Closers, CloseBegins(c) \/ (CloseStep(c) /\ ~CloseFailsWaiters(c))
      PROVE  WaitsInv'
  BY <1>1, <1>2, <1>8 DEF CloseBegins, CloseStep, CloseReduces, CloseLoads, CloseStops, CloseTakes,
     CloseReturns, closeAlone, shared
<1>9. ASSUME NEW w \in Waiters, ReadConnection(w) \/ ResolveDependency(w) \/ GiveUp(w)
      PROVE  WaitsInv'
  BY <1>1, <1>9, WaitsCome, WaitsResolve, SMTT(30)
<1>10. ASSUME NEW g \in Generations, Lose(g) \/ Reclaim(g) \/ NotifyEnds(g) PROVE WaitsInv'
  BY <1>1, <1>2, <1>10, SMTT(30) DEF Lose, Reclaim, NotifyEnds, shared
<1>11. CASE UsersLeave \/ DropCore \/ Tick \/ UNCHANGED recoveryVars
  BY <1>1, <1>2, <1>11, SMTT(30) DEF UsersLeave, DropCore, Tick, recoveryVars, shared
<1> QED BY <1>3, <1>4, <1>5, <1>6, <1>7, <1>8, <1>9, <1>10, <1>11, SMTT(30)
        DEF RecoveryNext, TaskStep, CloseSome, CloseStep, WorldStep

-----------------------------------------------------------------------------
(* The closes, and the flags.                                              *)

\* The task, once done, stays so; a close takes the handles as they are and
\* returns only when the task whose handle it took is done.
LEMMA ClosersKeep == ASSUME DriverInv, [RecoveryNext]_recoveryVars PROVE ClosersInv'
<1>1. ClosersInv /\ TaskInv
  BY DEF DriverInv
<1>2. CASE UNCHANGED <<handles, notify, closer>> /\ (task = "done" => task' = "done")
  BY <1>1, <1>2, SMTT(30) DEF ClosersInv
<1>3. CASE TaskStep /\ ~Restore
  BY <1>2, <1>3 DEF TaskStep, WatchEnds, LoseTransport, BeginRecovery, DriveClosed, DriveOver,
     SleepEnds, WakeUp, BeginBootstrap, AttemptTimesOut, FailAttempt, SucceedAttempt,
     PublishGeneration, Finish, Upgrade, Release, TaskCloses, taskAlone
<1>4. CASE Restore
  <2> DEFINE started == IF Notifications THEN {published} ELSE {}
  <2>1. /\ task = "restoring" /\ UNCHANGED closer /\ notify' = notify \cup started
        /\ handles' = [handles EXCEPT !.notifications = @ \cup started]
    BY <1>4 DEF Restore, taskAlone
  <2>2. published \in Generations
    BY <1>1, <2>1, DriverAssumption DEF TaskInv, Holding, Replaced, Ended, Generations
  <2>3. started \subseteq Generations
    BY <2>2
  <2> HIDE DEF started
  <2> QED BY <1>1, <2>1, <2>3 DEF ClosersInv
<1>5. CASE BootstrapSucceeds \/ BootstrapFails
  BY <1>2, <1>5 DEF BootstrapSucceeds, BootstrapFails, taskAlone
<1>6. ASSUME NEW c \in Closers, CloseBegins(c) \/ CloseReduces(c) \/ CloseFailsWaiters(c) \/ CloseStops(c)
      PROVE  ClosersInv'
  <2>1. /\ UNCHANGED <<handles, notify, task>>
        /\ \E at \in {"reduce", "fail", "load", "take"} : closer' = [closer EXCEPT ![c].at = at]
    BY <1>6 DEF CloseBegins, CloseReduces, CloseFailsWaiters, CloseStops, Closing, closeAlone
  <2> QED BY <1>1, <2>1 DEF ClosersInv, CloseCall
<1>7. ASSUME NEW c \in Closers, CloseLoads(c) PROVE ClosersInv'
  <2>1. /\ UNCHANGED <<handles, notify, task>>
        /\ closer' = [closer EXCEPT ![c].at = "stop", ![c].target = published]
    BY <1>7 DEF CloseLoads, closeAlone
  <2>2. published \in Generations \cup {NoGeneration}
    BY <1>1, DriverAssumption DEF TaskInv, Generations, NoGeneration, Ended, After, Replaced
  <2> DEFINE f == [closer[c] EXCEPT !.at = "stop", !.target = published]
  <2>3. /\ f.at = "stop"
        /\ f \in CloseCall
    BY <1>1, <2>2, ZenonT(40) DEF ClosersInv, CloseCall
  <2>4. closer' = [closer EXCEPT ![c] = f]
    BY <1>1, <2>1, ZenonT(40) DEF ClosersInv
  <2> HIDE DEF f
  <2>5. UNCHANGED <<handles, notify, task>>
    BY <2>1
  <2>6. /\ closer' \in [Closers -> CloseCall]
        /\ closer'[c].at = "stop" /\ \A d \in Closers \ {c} : closer'[d] = closer[d]
    BY <1>1, <2>3, <2>4 DEF ClosersInv
  <2> QED BY <1>1, <2>5, <2>6 DEF ClosersInv
<1>8. ASSUME NEW c \in Closers, CloseTakes(c) PROVE ClosersInv'
  <2>1. /\ UNCHANGED <<notify, task>> /\ handles' = NoHandles
        /\ closer' = [closer EXCEPT ![c].at = "join", ![c].took = handles]
    BY <1>8 DEF CloseTakes, closeAlone
  <2> QED BY <1>1, <2>1, ZenonT(40) DEF ClosersInv, CloseCall, NoHandles
<1>9. ASSUME NEW c \in Closers, CloseReturns(c) PROVE ClosersInv'
  <2>1. /\ UNCHANGED <<handles, notify, task>> /\ (closer[c].took.recovery => task = "done")
        /\ closer' = [closer EXCEPT ![c].at = "returned"]
    BY <1>9 DEF CloseReturns, Closing, closeAlone
  <2> QED BY <1>1, <2>1 DEF ClosersInv, CloseCall
<1>10. ASSUME NEW w \in Waiters, ReadConnection(w) \/ ResolveDependency(w) \/ GiveUp(w)
       PROVE  ClosersInv'
  BY <1>2, <1>10 DEF ReadConnection, ResolveDependency, GiveUp, waitAlone
<1>11. ASSUME NEW g \in Generations, Lose(g) \/ Reclaim(g) PROVE ClosersInv'
  BY <1>2, <1>11 DEF Lose, Reclaim
<1>12. ASSUME NEW g \in Generations, NotifyEnds(g) PROVE ClosersInv'
  BY <1>1, <1>12 DEF NotifyEnds, ClosersInv
<1>13. CASE UsersLeave \/ DropCore \/ Tick \/ UNCHANGED recoveryVars
  BY <1>2, <1>13 DEF UsersLeave, DropCore, Tick, recoveryVars
<1> QED BY <1>3, <1>4, <1>5, <1>6, <1>7, <1>8, <1>9, <1>10, <1>11, <1>12, <1>13, SMTT(30)
        DEF RecoveryNext, TaskStep, CloseSome, CloseStep, WorldStep

\* The tokens and the users are flags, raised by close and drop.
LEMMA FlagsKeep == ASSUME DriverInv, [RecoveryNext]_recoveryVars PROVE FlagsInv'
<1>1. FlagsInv
  BY DEF DriverInv
<1>2. CASE UNCHANGED <<cancelled, stopped, users>>
  BY <1>1, <1>2 DEF FlagsInv
<1>3. CASE TaskStep
  BY <1>1, <1>2, <1>3, ZenonT(40) DEF TaskStep, WatchEnds, LoseTransport, BeginRecovery, DriveClosed, DriveOver,
     SleepEnds, WakeUp, BeginBootstrap, AttemptTimesOut, FailAttempt, SucceedAttempt,
     PublishGeneration, Finish, Upgrade, Restore, Release, TaskCloses, taskAlone, shared, FlagsInv
<1>4. CASE BootstrapSucceeds \/ BootstrapFails
  BY <1>2, <1>4 DEF BootstrapSucceeds, BootstrapFails, taskAlone, shared
<1>5. ASSUME NEW c \in Closers, CloseBegins(c) \/ CloseStep(c) PROVE FlagsInv'
  BY <1>1, <1>2, <1>5, ZenonT(40) DEF CloseBegins, CloseStep, CloseReduces, CloseFailsWaiters, CloseLoads,
     CloseStops, CloseTakes, CloseReturns, closeAlone, shared, FlagsInv
<1>6. ASSUME NEW w \in Waiters, ReadConnection(w) \/ ResolveDependency(w) \/ GiveUp(w)
      PROVE  FlagsInv'
  BY <1>2, <1>6 DEF ReadConnection, ResolveDependency, GiveUp, waitAlone
<1>7. ASSUME NEW g \in Generations, Lose(g) \/ Reclaim(g) \/ NotifyEnds(g) PROVE FlagsInv'
  BY <1>2, <1>7 DEF Lose, Reclaim, NotifyEnds, shared
<1>8. CASE UsersLeave \/ DropCore \/ Tick \/ UNCHANGED recoveryVars
  BY <1>1, <1>2, <1>8, ZenonT(40) DEF UsersLeave, DropCore, Tick, recoveryVars, shared, FlagsInv
<1> QED BY <1>3, <1>4, <1>5, <1>6, <1>7, <1>8 DEF RecoveryNext, CloseSome, WorldStep

-----------------------------------------------------------------------------
(* The theorems.                                                           *)

\* One generation is up, watched, active and published; nobody waits.
LEMMA DriverInitially == RecoveryInit => DriverInv
<1> SUFFICES ASSUME RecoveryInit PROVE DriverInv
  OBVIOUS
<1>1. 0 \in Generations /\ LastGeneration \in Nat
  BY DriverAssumption DEF Generations
<1>2. CoordinatorInv
  <2>1. Bounded(coordinator)
    BY <1>1, IdleBounded, SMTT(30) DEF RecoveryInit, Connected
  <2> QED BY <2>1, DriverAssumption DEF RecoveryInit, CoordinatorInv
<1>3. TaskInv
  BY <1>1, ZenonT(40) DEF RecoveryInit, TaskInv, TaskAt, Ended, After, Replaced, Holding
<1>4. WaitsInv
  <2>1. IsFiniteSet(waits) /\ Cardinality(waits) <= Capacity
    BY FS_EmptySet, DriverAssumption DEF RecoveryInit
  <2> QED BY <1>1, <2>1, ZenonT(40) DEF RecoveryInit, WaitsInv, Wait, RecoveringIsDriven
<1>5. ClosersInv
  <2>1. notify \subseteq Generations
    BY <1>1, SMTT(30) DEF RecoveryInit
  <2> QED BY <2>1 DEF RecoveryInit, ClosersInv, CloseCall, NoHandles
<1>6. FlagsInv
  BY ZenonT(40) DEF RecoveryInit, FlagsInv
<1> QED BY <1>2, <1>3, <1>4, <1>5, <1>6 DEF DriverInv

\* The invariant behind the theorems on recovery: coordinator, task, waits
\* and closes together.
LEMMA DriverInvariant == RecoverySpec => []DriverInv
<1>1. DriverInv /\ [RecoveryNext]_recoveryVars => DriverInv'
  BY CoordinatorKeeps, TaskKeeps, WaitsKeep, ClosersKeep, FlagsKeep DEF DriverInv
<1> QED BY <1>1, DriverInitially, PTL DEF RecoverySpec

\* The state of RecoveryDriver keeps its types, every generation it names is a
\* u64, and the queue of waits never exceeds max_waiting_operations.
THEOREM RecoveryTypes == RecoverySpec => []RecoveryTypeOK
<1>1. DriverInv => RecoveryTypeOK
  <2> SUFFICES ASSUME DriverInv PROVE RecoveryTypeOK
    OBVIOUS
  <2>1. published \in Generations \cup {NoGeneration}
    BY DriverAssumption DEF DriverInv, TaskInv, Generations, NoGeneration, Ended, After, Replaced
  <2>2. waits \subseteq [id : Waiters, dependency : Generations] /\ Cardinality(waits) <= Capacity
    BY DEF DriverInv, WaitsInv, TaskInv
  <2>3. {recovering, cancelled, stopped, users, dropped} \subseteq BOOLEAN
    BY DEF DriverInv, WaitsInv, TaskInv, FlagsInv
  <2>4. /\ coordinator.phase \in {"Connected", "Waiting", "Connecting", "Failed", "Closed"}
        /\ {coordinator.generation, active, current} \subseteq Generations
    BY DEF DriverInv, CoordinatorInv, TaskInv, Bounded, Phases
  <2> QED BY <2>1, <2>2, <2>3, <2>4
          DEF DriverInv, RecoveryTypeOK, CoordinatorInv, TaskInv, ClosersInv
<1> QED BY <1>1, DriverInvariant, PTL

\* While recovery goes on a task drives it and whoever waits is in its queue;
\* a wait ends as ready only when the replacement of the connection it
\* depended on has been published (recover, finish_recovery, fail_waiters).
THEOREM WaitsAreServed == RecoverySpec => []RecoveryServesWaits
<1>1. DriverInv => RecoveryServesWaits
  <2> SUFFICES ASSUME DriverInv PROVE RecoveryServesWaits
    OBVIOUS
  <2>1. published >= active
    BY DriverAssumption DEF DriverInv, TaskInv, Generations, NoGeneration, Ended, After, Replaced
  <2>2. ReleasedToReplacement
    BY <2>1 DEF DriverInv, WaitsInv, ReleasedToReplacement
  <2> QED BY <2>2 DEF DriverInv, WaitsInv, RecoveryServesWaits
<1> QED BY <1>1, DriverInvariant, PTL

\* RecoveryCoordinator::reduce and schedule: no attempt exceeds the policy's
\* count, and none is waited for or runs past the end of the recovery,
\* whatever the backoff and the jitter.
THEOREM RetriesAreBounded == RecoverySpec => []RetryIsBounded
<1>1. DriverInv => RetryIsBounded
  BY DEF DriverInv, CoordinatorInv, Bounded, RetryIsBounded
<1> QED BY <1>1, DriverInvariant, PTL

\* Connection::close: when the close that took the recovery task's handle has
\* returned, the task is done, nothing recovers, nobody waits, and what is
\* published has ended, though recovery may have published during the close.
THEOREM ClosesAreFinal == RecoverySpec => []CloseIsFinal
<1>1. DriverInv => CloseIsFinal
  <2> SUFFICES ASSUME DriverInv, NEW c \in Closers, closer[c].at = "returned", closer[c].took.recovery
               PROVE  /\ published = NoGeneration \/ generations[published] # "up"
                      /\ ~recovering /\ waits = {} /\ task = "done"
    BY DEF CloseIsFinal
  <2>1. task = "done"
    BY DEF DriverInv, ClosersInv
  <2>2. published = NoGeneration \/ (published = current /\ generations[current] \in {"lost", "closed"})
    BY <2>1 DEF DriverInv, TaskInv, Replaced
  <2>3. ~recovering /\ waits = {}
    BY <2>1 DEF DriverInv, WaitsInv, RecoveringIsDriven, Driving
  <2> QED BY <2>1, <2>2, <2>3
<1> QED BY <1>1, DriverInvariant, PTL
=============================================================================
