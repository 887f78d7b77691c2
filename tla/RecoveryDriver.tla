---------------------------- MODULE RecoveryDriver ----------------------------
(***************************************************************************)
(* Recovery of a lost connection: the task start_recovery spawns, which    *)
(* watches the current generation and drives the RecoveryDriver when it is *)
(* lost; the operations that wait for the recovery (resolve_dependency);   *)
(* the callers of Connection::close; and the drop of the last Connection.  *)
(*                                                                         *)
(* They share two mutexes, the coordinator's and the admissions', taken    *)
(* one after the other, the close token and the published generation.  A   *)
(* step of this model ends where the code can be overtaken by another      *)
(* thread: at an await, at a lock, and between two reads of shared state.  *)
(*                                                                         *)
(* The transport, the negotiation and the owner of a generation are seen   *)
(* only as a generation that is up, lost or closed.  Session recovery      *)
(* after a replacement is left out.  A wait ends at its deadline or by     *)
(* cancellation at any time.                                               *)
(***************************************************************************)
EXTENDS RecoveryCoordinator, FiniteSets

CONSTANTS LastGeneration,  \* u64::MAX, after which there is no next generation
          Waiters,         \* operations that depend on the connection
          Closers,         \* callers of Connection::close
          Capacity,        \* max_waiting_operations
          MayDrop,         \* the users may drop the connection
          Notifications,   \* ~disable_notifications
          Horizon          \* bound on the clock

ASSUME DriverAssumption ==
  /\ LastGeneration \in Nat /\ Capacity \in Nat /\ Horizon \in Nat
  /\ MayDrop \in BOOLEAN /\ Notifications \in BOOLEAN

VARIABLES coordinator,  \* RecoveryDriver.coordinator
          active,       \* admissions.active_connection, its generation
          recovering,   \* admissions.recovering
          waits,        \* admissions.queue: waiter and dependency
          cancelled,    \* RecoveryDriver.closed
          task,         \* where the recovery task is
          current,      \* the generation the recovery task watches
          published,    \* ConnectionCore.generation
          generations,  \* what became of each generation
          handles,      \* ConnectionTasks: the task handles close() may take
          notify,       \* generations whose notification task runs
          stopped,      \* ConnectionCore.stop_notifications
          users,        \* somebody holds the Connection
          dropped,      \* ConnectionCore has been dropped
          closer,       \* Closers -> where each close() is, what it holds
          waiter,       \* Waiters -> where each wait is, its dependency
          now           \* the clock

shared == <<coordinator, active, recovering, waits, cancelled>>
recoveryVars == <<shared, task, current, published, generations, handles, notify,
                  stopped, users, dropped, closer, waiter, now>>

Generations == 0..LastGeneration
NoGeneration == LastGeneration + 1
NextGeneration == current + 1

NoHandles == [recovery |-> FALSE, notifications |-> {}]

-----------------------------------------------------------------------------
(* The driver's shared state.                                              *)

\* complete_waits: every wait in set is answered.
CompleteWaits(set, answer) ==
  waiter' = [w \in Waiters |->
               IF \E wait \in set : wait.id = w
               THEN [waiter[w] EXCEPT !.at = answer] ELSE waiter[w]]

FailWaiters ==
  /\ recovering' = FALSE
  /\ waits' = {}
  /\ CompleteWaits(waits, "failed")
  /\ UNCHANGED active

\* Mutant of FinishRecovery: the waits keep the old dependency and are not
\* released.
FinishUnreleased ==
  /\ active' = NextGeneration
  /\ recovering' = FALSE
  /\ UNCHANGED <<waits, waiter>>

\* The waits on the lost connection now depend on the replacement, and all
\* that depend on the replacement are released.
FinishRecovery ==
  LET dependency(wait) == IF wait.dependency = active THEN NextGeneration ELSE wait.dependency
      ready == {wait \in waits : dependency(wait) = NextGeneration}
  IN  /\ active' = NextGeneration
      /\ recovering' = FALSE
      /\ waits' = {[wait EXCEPT !.dependency = dependency(wait)] : wait \in waits \ ready}
      /\ CompleteWaits(ready, "ready")

-----------------------------------------------------------------------------
(* The recovery task.                                                      *)

taskAlone == <<published, stopped, users, dropped, closer, now>>

\* Where the task holds the ConnectionCore alive: in bootstrap, until the
\* publication is done, and while it restores sessions and notifications.
Holding == {"bootstrapping", "succeeding", "publishing", "restoring"}

CoreHeld == users \/ notify # {} \/ task \in Holding

Go(pc) == task' = pc

\* The watched generation has ended.  A clean end, or an end with no next
\* generation, ends the task.
WatchEnds ==
  /\ task = "watching" /\ generations[current] \in {"lost", "closed"}
  /\ Go(CASE dropped -> "closing"
          [] ~dropped /\ generations[current] = "closed" -> "done"
          [] ~dropped /\ generations[current] = "lost" /\ (cancelled \/ current = LastGeneration)
               -> "done"
          [] OTHER -> "losing")
  /\ UNCHANGED <<taskAlone, handles, shared, current, generations, notify, waiter>>

LoseTransport ==
  /\ task = "losing"
  /\ coordinator' = TransportLost(coordinator, current, now)
  /\ Go(IF coordinator = Connected(current) THEN "beginning" ELSE "done")
  /\ UNCHANGED <<taskAlone, handles, active, recovering, waits, cancelled, current, generations,
                 notify, waiter>>

BeginRecovery ==
  /\ task = "beginning"
  /\ IF active # current \/ recovering
     THEN Go("done") /\ UNCHANGED recovering
     ELSE Go("driving") /\ recovering' = TRUE
  /\ UNCHANGED <<taskAlone, handles, coordinator, active, waits, cancelled, current, generations,
                 notify, waiter>>

\* Both selects look at the close token first.
DriveClosed ==
  /\ task \in {"driving", "bootstrapping"} /\ cancelled
  /\ Go("releasing")
  /\ UNCHANGED <<taskAlone, handles, shared, current, generations, notify, waiter>>

\* The reducer has given up, or was closed.
DriveOver ==
  /\ task = "driving" /\ coordinator.phase \in {"Failed", "Closed"}
  /\ Go("releasing")
  /\ UNCHANGED <<taskAlone, handles, shared, current, generations, notify, waiter>>

SleepEnds ==
  /\ task = "driving" /\ ~cancelled
  /\ coordinator.phase = "Waiting" /\ now >= coordinator.until
  /\ Go("waking")
  /\ UNCHANGED <<taskAlone, handles, shared, current, generations, notify, waiter>>

WakeUp ==
  /\ task = "waking"
  /\ coordinator' = Wake(coordinator, now)
  /\ Go("driving")
  /\ UNCHANGED <<taskAlone, handles, active, recovering, waits, cancelled, current, generations,
                 notify, waiter>>

\* The bootstrap needs the ConnectionCore.
BeginBootstrap ==
  /\ task = "driving" /\ ~cancelled /\ coordinator.phase = "Connecting"
  /\ Go(IF dropped THEN "releasing" ELSE "bootstrapping")
  /\ UNCHANGED <<taskAlone, handles, shared, current, generations, notify, waiter>>

BootstrapSucceeds ==
  /\ task = "bootstrapping" /\ ~cancelled
  /\ generations' = [generations EXCEPT ![NextGeneration] = "up"]
  /\ Go("succeeding")
  /\ UNCHANGED <<taskAlone, handles, shared, current, notify, waiter>>

BootstrapFails ==
  /\ task = "bootstrapping" /\ ~cancelled
  /\ Go("failing")
  /\ UNCHANGED <<taskAlone, handles, shared, current, generations, notify, waiter>>

AttemptTimesOut ==
  /\ task = "bootstrapping" /\ ~cancelled
  /\ coordinator.phase = "Connecting" /\ now >= coordinator.until
  /\ Go("failing")
  /\ UNCHANGED <<taskAlone, handles, shared, current, generations, notify, waiter>>

FailAttempt ==
  /\ task = "failing"
  /\ \E jitter \in 0..MaximumJitter : coordinator' = AttemptFailed(coordinator, now, jitter)
  /\ Go("driving")
  /\ UNCHANGED <<taskAlone, handles, active, recovering, waits, cancelled, current, generations,
                 notify, waiter>>

\* A candidate that comes after the close is dropped, not closed.
SucceedAttempt ==
  /\ task = "succeeding"
  /\ coordinator' = AttemptSucceeded(coordinator, NextGeneration)
  /\ Go(IF coordinator' = Connected(NextGeneration) THEN "publishing" ELSE "releasing")
  /\ UNCHANGED <<taskAlone, handles, active, recovering, waits, cancelled, current, generations,
                 notify, waiter>>

PublishGeneration ==
  /\ task = "publishing"
  /\ published' = NextGeneration
  /\ Go("finishing")
  /\ UNCHANGED <<handles, stopped, users, dropped, closer, now, shared, current,
                 generations, notify, waiter>>

Finish ==
  /\ task = "finishing"
  /\ FinishRecovery
  /\ Go("recovered")
  /\ UNCHANGED <<taskAlone, handles, coordinator, cancelled, current, generations, notify>>

\* recover has returned: without the ConnectionCore the driver is closed.
Upgrade ==
  /\ task = "recovered"
  /\ Go(IF dropped THEN "closing" ELSE "restoring")
  /\ UNCHANGED <<taskAlone, handles, shared, current, generations, notify, waiter>>

\* A notification task for the replacement, which is watched from now on.
Restore ==
  /\ task = "restoring"
  /\ LET started == IF Notifications THEN {published} ELSE {}
     IN  /\ notify' = notify \cup started
         /\ handles' = [handles EXCEPT !.notifications = @ \cup started]
  /\ current' = published
  /\ Go("watching")
  /\ UNCHANGED <<taskAlone, shared, generations, waiter>>

\* Mutant of Release: recovery ends without telling the waits.
ReleaseNobody ==
  /\ task = "releasing"
  /\ Go("done")
  /\ UNCHANGED <<taskAlone, handles, shared, current, generations, notify, waiter>>

\* Every exit but a published replacement releases the waits.
Release ==
  /\ task = "releasing"
  /\ FailWaiters
  /\ Go("done")
  /\ UNCHANGED <<taskAlone, handles, coordinator, cancelled, current, generations, notify>>

\* The task itself closes the driver, in the two steps of RecoveryDriver::close.
TaskCloses ==
  /\ task = "closing"
  /\ cancelled' = TRUE
  /\ coordinator' = CloseCoordinator(coordinator)
  /\ Go("releasing")
  /\ UNCHANGED <<taskAlone, handles, active, recovering, waits, current, generations, notify, waiter>>

TaskStep ==
  \/ WatchEnds \/ LoseTransport \/ BeginRecovery \/ DriveClosed \/ DriveOver \/ SleepEnds
  \/ WakeUp \/ BeginBootstrap \/ AttemptTimesOut \/ FailAttempt \/ SucceedAttempt
  \/ PublishGeneration \/ Finish \/ Upgrade \/ Restore \/ Release \/ TaskCloses

-----------------------------------------------------------------------------
(* Connection::close, one step for each of its waits.                      *)

closeAlone == <<task, current, users, dropped, now>>

Closing(c, pc) == closer' = [closer EXCEPT ![c].at = pc]

CloseBegins(c) ==
  /\ users /\ closer[c].at = "idle"
  /\ stopped' = TRUE /\ cancelled' = TRUE
  /\ Closing(c, "reduce")
  /\ UNCHANGED <<closeAlone, coordinator, active, recovering, waits, published,
                 generations, handles, notify, waiter>>

CloseReduces(c) ==
  /\ closer[c].at = "reduce"
  /\ coordinator' = CloseCoordinator(coordinator)
  /\ Closing(c, "fail")
  /\ UNCHANGED <<closeAlone, active, recovering, waits, cancelled, published, generations,
                 handles, notify, stopped, waiter>>

CloseFailsWaiters(c) ==
  /\ closer[c].at = "fail"
  /\ FailWaiters
  /\ Closing(c, "load")
  /\ UNCHANGED <<closeAlone, coordinator, cancelled, published, generations, handles,
                 notify, stopped>>

CloseLoads(c) ==
  /\ closer[c].at = "load"
  /\ closer' = [closer EXCEPT ![c].at = "stop", ![c].target = published]
  /\ UNCHANGED <<closeAlone, shared, published, generations, handles, notify, stopped, waiter>>

\* The owner of the generation ends within the close deadline.
CloseStops(c) ==
  /\ closer[c].at = "stop"
  /\ generations' = [g \in Generations |->
                       IF g = closer[c].target /\ generations[g] = "up" THEN "closed"
                       ELSE generations[g]]
  /\ Closing(c, "take")
  /\ UNCHANGED <<closeAlone, shared, published, handles, notify, stopped, waiter>>

\* The first to come takes the handles of the tasks; a later one finds only
\* those of notification tasks started since.
CloseTakes(c) ==
  /\ closer[c].at = "take"
  /\ closer' = [closer EXCEPT ![c].at = "join", ![c].took = handles]
  /\ handles' = NoHandles
  /\ UNCHANGED <<closeAlone, shared, published, generations, notify, stopped, waiter>>

\* Mutant of CloseReturns: the tasks are not joined.
CloseReturnsAtOnce(c) ==
  /\ closer[c].at = "join"
  /\ Closing(c, "returned")
  /\ UNCHANGED <<closeAlone, shared, published, generations, handles, notify, stopped, waiter>>

CloseReturns(c) ==
  /\ closer[c].at = "join"
  /\ closer[c].took.recovery => task = "done"
  /\ closer[c].took.notifications \cap notify = {}
  /\ Closing(c, "returned")
  /\ UNCHANGED <<closeAlone, shared, published, generations, handles, notify, stopped, waiter>>

CloseStep(c) ==
  \/ CloseReduces(c) \/ CloseFailsWaiters(c) \/ CloseLoads(c) \/ CloseStops(c)
  \/ CloseTakes(c) \/ CloseReturns(c)

-----------------------------------------------------------------------------
(* Operations that depend on the connection.                               *)

waitAlone == <<coordinator, active, recovering, cancelled, task, current, published,
               generations, handles, notify, stopped, users, dropped, closer, now>>

\* connection_object: the token of the published generation.
ReadConnection(w) ==
  /\ users /\ waiter[w].at = "idle" /\ published # NoGeneration
  /\ waiter' = [waiter EXCEPT ![w] = [at |-> "asking", dependency |-> published]]
  /\ UNCHANGED <<waitAlone, waits>>

ResolveDependency(w) ==
  /\ waiter[w].at = "asking"
  /\ LET answer == CASE ~recovering -> "through"
                     [] recovering /\ waiter[w].dependency # active -> "notConnection"
                     [] recovering /\ waiter[w].dependency = active
                          /\ Cardinality(waits) >= Capacity -> "full"
                     [] OTHER -> "waiting"
     IN  /\ waiter' = [waiter EXCEPT ![w].at = answer]
         /\ waits' = IF answer = "waiting"
                     THEN waits \cup {[id |-> w, dependency |-> waiter[w].dependency]}
                     ELSE waits
  /\ UNCHANGED waitAlone

\* The deadline of the wait, or its cancellation: remove_wait.
GiveUp(w) ==
  /\ waiter[w].at = "waiting"
  /\ waiter' = [waiter EXCEPT ![w].at = "gone"]
  /\ waits' = {wait \in waits : wait.id # w}
  /\ UNCHANGED waitAlone

-----------------------------------------------------------------------------
(* The transport, the notification tasks, the users and the clock.         *)

Lose(g) ==
  /\ generations[g] = "up"
  /\ generations' = [generations EXCEPT ![g] = "lost"]
  /\ UNCHANGED <<shared, task, current, published, handles, notify, stopped, users, dropped,
                 closer, waiter, now>>

\* A generation nobody has a handle of is closed by its owner.
Reclaim(g) ==
  /\ generations[g] = "up"
  /\ g # published
  /\ ~(g = current /\ task # "done")
  /\ ~(g = NextGeneration /\ task \in {"succeeding", "publishing", "finishing", "recovered"})
  /\ \A c \in Closers : closer[c].at = "stop" => closer[c].target # g
  /\ generations' = [generations EXCEPT ![g] = "closed"]
  /\ UNCHANGED <<shared, task, current, published, handles, notify, stopped, users, dropped,
                 closer, waiter, now>>

\* A notification task ends with its generation or when it is told to stop.
NotifyEnds(g) ==
  /\ g \in notify /\ (stopped \/ generations[g] # "up")
  /\ notify' = notify \ {g}
  /\ UNCHANGED <<shared, task, current, published, generations, handles, stopped, users,
                 dropped, closer, waiter, now>>

\* The last Connection is dropped, with no call of its own running.
UsersLeave ==
  /\ MayDrop /\ users
  /\ \A c \in Closers : closer[c].at \in {"idle", "returned"}
  /\ \A w \in Waiters : waiter[w].at \notin {"asking", "waiting"}
  /\ users' = FALSE
  /\ UNCHANGED <<shared, task, current, published, generations, handles, notify, stopped,
                 dropped, closer, waiter, now>>

\* Drop for ConnectionCore, when nothing holds it any more.
DropCore ==
  /\ ~CoreHeld /\ ~dropped
  /\ dropped' = TRUE /\ stopped' = TRUE /\ cancelled' = TRUE
  /\ published' = NoGeneration
  /\ UNCHANGED <<coordinator, active, recovering, waits, task, current, generations, handles,
                 notify, users, closer, waiter, now>>

\* The clock matters only while the task sleeps.
Tick ==
  /\ task \in {"driving", "bootstrapping"} /\ now < Horizon
  /\ coordinator.phase \in {"Waiting", "Connecting"} /\ now < coordinator.until
  /\ now' = now + 1
  /\ UNCHANGED <<shared, task, current, published, generations, handles, notify, stopped,
                 users, dropped, closer, waiter>>

-----------------------------------------------------------------------------
RecoveryInit ==
  /\ coordinator = Connected(0)
  /\ active = 0 /\ recovering = FALSE /\ waits = {} /\ cancelled = FALSE
  /\ task = "watching" /\ current = 0 /\ published = 0
  /\ generations = [g \in Generations |-> IF g = 0 THEN "up" ELSE "none"]
  /\ notify = (IF Notifications THEN {0} ELSE {}) /\ stopped = FALSE
  /\ handles = [recovery |-> TRUE, notifications |-> notify]
  /\ users = TRUE /\ dropped = FALSE
  /\ closer = [c \in Closers |-> [at |-> "idle", target |-> NoGeneration,
                                  took |-> NoHandles]]
  /\ waiter = [w \in Waiters |-> [at |-> "idle", dependency |-> NoGeneration]]
  /\ now = 0

CloseSome == \E c \in Closers : CloseStep(c)

WorldStep ==
  \/ \E g \in Generations : Reclaim(g) \/ NotifyEnds(g)
  \/ DropCore
  \/ Tick

RecoveryNext ==
  \/ TaskStep \/ BootstrapSucceeds \/ BootstrapFails
  \/ CloseSome \/ \E c \in Closers : CloseBegins(c)
  \/ \E w \in Waiters : ReadConnection(w) \/ ResolveDependency(w) \/ GiveUp(w)
  \/ \E g \in Generations : Lose(g)
  \/ UsersLeave
  \/ WorldStep

RecoverySpec == RecoveryInit /\ [][RecoveryNext]_recoveryVars

\* Tasks that can run are run, time passes, and a generation nobody can reach
\* is reclaimed.  The network is not assumed to do anything.
FairRecoverySpec ==
  /\ RecoverySpec
  /\ WF_recoveryVars(TaskStep)
  /\ WF_recoveryVars(WorldStep)
  /\ \A c \in Closers : WF_recoveryVars(CloseStep(c))
  /\ \A w \in Waiters : WF_recoveryVars(ResolveDependency(w))

-----------------------------------------------------------------------------
(* Properties.                                                             *)

Driving == {"driving", "waking", "bootstrapping", "failing", "succeeding", "publishing",
            "finishing", "releasing"}

TaskAt == {"watching", "losing", "beginning", "recovered", "restoring", "closing", "done"}
            \cup Driving

\* The state keeps its types, and the wait queue its capacity (enqueue).
RecoveryTypeOK ==
  /\ coordinator.phase \in {"Connected", "Waiting", "Connecting", "Failed", "Closed"}
  /\ {coordinator.generation, active, current} \subseteq Generations
  /\ published \in Generations \cup {NoGeneration}
  /\ waits \subseteq [id : Waiters, dependency : Generations]
  /\ Cardinality(waits) <= Capacity
  /\ task \in TaskAt
  /\ generations \in [Generations -> {"none", "up", "lost", "closed"}]
  /\ notify \subseteq Generations
  /\ handles \in [recovery : BOOLEAN, notifications : SUBSET Generations]
  /\ {recovering, cancelled, stopped, users, dropped} \subseteq BOOLEAN
  /\ now \in 0..Horizon

\* The recovering flag is never set without a task that drives the recovery,
\* and nobody waits without the flag, however close, loss and waits interleave
\* over the two locks (recover, fail_waiters, begin_recovery).
RecoveringIsDriven ==
  /\ recovering => task \in Driving
  /\ waits # {} => recovering
  /\ \A w \in Waiters : waiter[w].at = "waiting" <=> \E wait \in waits : wait.id = w

\* No attempt exceeds the policy's count, and none runs, or is waited for,
\* past the end of the whole recovery (schedule, reduce).
RetryIsBounded ==
  coordinator.phase \in {"Waiting", "Connecting"} =>
    /\ coordinator.attempt \in 1..MaxAttempts
    /\ coordinator.until <= coordinator.total

\* An operation released from its wait was released by the replacement of the
\* connection it depended on, which has been published.
ReleasedToReplacement ==
  \A w \in Waiters : waiter[w].at = "ready" =>
    waiter[w].dependency < active /\ (published >= active)

\* When the close that joined the tasks has returned, the published generation
\* has ended, nothing recovers and nobody waits.
CloseIsFinal ==
  \A c \in Closers : closer[c].at = "returned" /\ closer[c].took.recovery =>
    /\ published = NoGeneration \/ generations[published] # "up"
    /\ ~recovering /\ waits = {} /\ task = "done"

\* An operation that waits for the recovery is answered: by the replacement, or
\* when recovery is given up or closed.
WaitEnds == \A w \in Waiters : waiter[w].at = "waiting" ~> waiter[w].at # "waiting"

\* Recovery itself ends, whatever the network does.
RecoveryEnds == recovering ~> ~recovering

\* Every close returns once the tasks it joins are joined (Connection::close,
\* join_support_tasks).
CloseCompletes == \A c \in Closers : closer[c].at # "idle" ~> closer[c].at = "returned"

\* Recovery serves those who wait for it: while it goes on a task drives it, and a wait
\* ends as ready only once the replacement of its connection has been published.
RecoveryServesWaits == RecoveringIsDriven /\ ReleasedToReplacement
=============================================================================
