----------------------------- MODULE CryptoWork -----------------------------
(***************************************************************************)
(* The signing and verification work of one connection: the CMAC batcher   *)
(* with its leader, the executor with its permits, and the owner task that *)
(* either polls a preparation among others or waits for one inline.        *)
(*                                                                         *)
(* Sources: runtime/cmac_batcher.rs, runtime/crypto_executor.rs, the       *)
(* preparation stage of runtime/engine.rs, signing and verification of     *)
(* runtime/wire.rs.  A job is one frame: what is signed is its payload and *)
(* Overhead more.  The executor's semaphore hands a released permit to the *)
(* first waiter, who has it before it is polled again.                     *)
(***************************************************************************)
EXTENDS Integers, FiniteSets, SequencesExt

CONSTANTS
    Jobs,           \* frames to send or received
    Keys,           \* signing keys, by identity
    Payloads,       \* the payload sizes of frames
    Overhead,       \* what a frame has beside its payload
    MinBatch,       \* MINIMUM_BATCH_CMAC_BYTES
    MinOffload,     \* MINIMUM_OFFLOAD_BYTES, one more than MAXIMUM_INLINE_BATCH_CMAC_BYTES
    Lanes,          \* PORTABLE_CMAC_LANES
    Permits         \* recommended_parallelism

ASSUME CryptoAssumption ==
    /\ {Overhead, MinBatch, MinOffload} \subseteq Nat
    /\ {Lanes, Permits} \subseteq Nat \ {0}
    /\ Payloads \subseteq Nat

VARIABLES
    job,            \* job -> [way, payload, key, at, cancelled, signedBy]
    owner,          \* "loop", "ended", or the job it waits for inline
    batch,          \* BatchState: [queue, leader]
    permits         \* the semaphore: [free, queue]

cryptoVars == <<job, owner, batch, permits>>

Finished == {"signed", "failed"}
NoLeader == "none"
InPreparation == {j \in Jobs : job[j].at \notin {"asked"} \union Finished /\ owner # j}

CryptoInit ==
    /\ job \in [Jobs -> [way : {"out", "in"}, payload : Payloads, key : Keys,
                         at : {"asked"}, cancelled : {FALSE}, signedBy : {NoLeader}]]
    /\ owner = "loop"
    /\ batch = [queue |-> << >>, leader |-> NoLeader]
    /\ permits = [free |-> Permits, queue |-> << >>]

SigningBytes(j) == job[j].payload + Overhead

\* CmacBatcher::should_batch, BoundedCryptoExecutor::should_offload.
ShouldBatch(bytes) == bytes \in MinBatch .. MinOffload - 1
ShouldOffload(bytes) == bytes >= MinOffload

\* cmac_batch_eligible may be set while other frames to send are prepared or wait; it is
\* never set for an operation that was parked for credits.
Eligible(j) == \E k \in Jobs \ {j} : job[k].way = "out" /\ job[k].at \notin Finished

\* WirePipeline::should_prepare_concurrently looks at the payload alone.
\* Mutant: only large payloads are prepared beside the owner's loop.
PrepareLargeConcurrently(j, eligible) == ShouldOffload(job[j].payload)

ShouldPrepareConcurrently(j, eligible) ==
    \/ ShouldOffload(job[j].payload)
    \/ eligible /\ ShouldBatch(job[j].payload)

Becomes(j, at) == job' = [job EXCEPT ![j].at = at]

----------------------------------------------------------------------------
(* The owner's turn: what it may poll, and what it takes up.               *)

\* The owner polls its preparations, or only the one it waits for.
Polls(j) == IF owner = "loop" THEN TRUE ELSE owner = j

\* A frame leaves preparation; the owner goes on if it waited for it.
Done(j) == owner' = IF owner = j THEN "loop" ELSE owner

\* process_operation_admission: the frame joins the preparations, or is prepared inline.
AdmitOutgoing(j) ==
    /\ owner = "loop" /\ job[j].way = "out" /\ job[j].at = "asked"
    /\ \E eligible \in {FALSE, Eligible(j)} :
          LET batched == eligible /\ ShouldBatch(SigningBytes(j))
          IN  /\ Becomes(j, IF batched THEN "toBatch" ELSE "toExecute")
              /\ owner' = IF ShouldPrepareConcurrently(j, eligible) THEN "loop" ELSE j
    /\ UNCHANGED <<batch, permits>>

\* process_or_enqueue_io and verify_plain_incoming.
AdmitIncoming(j) ==
    /\ owner = "loop" /\ job[j].way = "in" /\ job[j].at = "asked"
    /\ Becomes(j, IF ShouldBatch(SigningBytes(j)) THEN "toBatch" ELSE "toExecute")
    /\ UNCHANGED <<owner, batch, permits>>

\* A caller's deadline cancels the token of a preparation.
DeadlineCancels(j) ==
    /\ owner = "loop" /\ job[j].way = "out" /\ j \in InPreparation /\ ~ job[j].cancelled
    /\ job' = [job EXCEPT ![j].cancelled = TRUE]
    /\ UNCHANGED <<owner, batch, permits>>

----------------------------------------------------------------------------
(* CmacBatcher::sign and drain.                                            *)

\* The job is queued; the first one leads and yields once.
Enqueue(j) ==
    /\ Polls(j) /\ job[j].at = "toBatch"
    /\ batch' = [queue |-> Append(batch.queue, j),
                 leader |-> IF batch.leader = NoLeader THEN j ELSE batch.leader]
    /\ Becomes(j, IF batch.leader = NoLeader THEN "yielded" ELSE "waiting")
    /\ UNCHANGED <<owner, permits>>

\* The jobs of one calculation: the first of the queue and those that share its key.
NextLanes(queue) ==
    LET same == SelectSeq(queue, LAMBDA k : job[k].key = job[queue[1]].key)
    IN  SubSeq(same, 1, IF Len(same) < Lanes THEN Len(same) ELSE Lanes)

\* What is left of the queue when the leader steps down.
\* Mutant: what one calculation leaves.
LeftAfterLanes(queue) == SelectSeq(queue, LAMBDA k : k \notin ToSet(NextLanes(queue)))

LeftAfterDrain(queue) == << >>

\* The key a queued job is signed with: that of the first job of its calculation.
RECURSIVE SignedBy(_, _)
SignedBy(j, queue) ==
    LET lanes == NextLanes(queue)
    IN  IF j \in ToSet(lanes) THEN job[lanes[1]].key
        ELSE SignedBy(j, SelectSeq(queue, LAMBDA k : k \notin ToSet(lanes)))

\* The leader is polled again, calculates lane after lane and steps down.
Drain(j) ==
    /\ Polls(j) /\ job[j].at = "yielded"
    /\ LET left == LeftAfterDrain(batch.queue)
           done == ToSet(batch.queue) \ ToSet(left)
       IN  /\ job' = [k \in Jobs |->
                         IF k \in done
                         THEN [job[k] EXCEPT !.at = IF k = j THEN "signed" ELSE "completed",
                                             !.signedBy = SignedBy(k, batch.queue)]
                         ELSE job[k]]
           /\ batch' = [queue |-> left, leader |-> NoLeader]
    /\ Done(j)
    /\ UNCHANGED permits

\* A follower is polled after its signature was sent.
TakeSignature(j) ==
    /\ Polls(j) /\ job[j].at = "completed"
    /\ Becomes(j, "signed")
    /\ Done(j)
    /\ UNCHANGED <<batch, permits>>

----------------------------------------------------------------------------
(* BoundedCryptoExecutor::execute_with_cancellation.                       *)

\* Small work runs at once; other work acquires a permit or joins the waiters.
StartExecute(j) ==
    /\ Polls(j) /\ job[j].at = "toExecute"
    /\ \/ /\ job[j].cancelled
          /\ Becomes(j, "failed") /\ Done(j) /\ UNCHANGED permits
       \/ /\ ~ job[j].cancelled /\ ~ ShouldOffload(SigningBytes(j))
          /\ job' = [job EXCEPT ![j].at = "signed", ![j].signedBy = job[j].key]
          /\ Done(j) /\ UNCHANGED permits
       \/ /\ ~ job[j].cancelled /\ ShouldOffload(SigningBytes(j)) /\ permits.free > 0
          /\ Becomes(j, "working")
          /\ permits' = [permits EXCEPT !.free = @ - 1]
          /\ UNCHANGED owner
       \/ /\ ~ job[j].cancelled /\ ShouldOffload(SigningBytes(j)) /\ permits.free = 0
          /\ Becomes(j, "queued")
          /\ permits' = [permits EXCEPT !.queue = Append(@, j)]
          /\ UNCHANGED owner
    /\ UNCHANGED batch

\* A permit comes back: the first waiter has it, or it is free.
Released(at) ==
    IF permits.queue = << >>
    THEN /\ permits' = [permits EXCEPT !.free = @ + 1]
         /\ job' = at
    ELSE /\ permits' = [permits EXCEPT !.queue = Tail(@)]
         /\ job' = [at EXCEPT ![Head(permits.queue)].at = "granted"]

\* A waiter that has its permit gives the work to a blocking thread, unless cancelled.
TakePermit(j) ==
    /\ Polls(j) /\ job[j].at = "granted"
    /\ \/ /\ ~ job[j].cancelled
          /\ Becomes(j, "working") /\ UNCHANGED <<permits, owner>>
       \/ /\ job[j].cancelled
          /\ Released([job EXCEPT ![j].at = "failed"])
          /\ Done(j)
    /\ UNCHANGED batch

\* A cancelled waiter leaves the queue.
LeaveQueue(j) ==
    /\ Polls(j) /\ job[j].at = "queued" /\ job[j].cancelled
    /\ Becomes(j, "failed") /\ Done(j)
    /\ permits' = [permits EXCEPT !.queue = SelectSeq(@, LAMBDA k : k # j)]
    /\ UNCHANGED batch

\* The blocking thread ends and gives its permit back, whether or not its job is awaited.
WorkerEnds(j) ==
    /\ job[j].at \in {"working", "abandoned"}
    /\ Released(IF job[j].at = "abandoned" THEN [job EXCEPT ![j].at = "failed"]
                ELSE [job EXCEPT ![j].at = "worked", ![j].signedBy = job[j].key])
    /\ UNCHANGED <<owner, batch>>

TakeWork(j) ==
    /\ Polls(j) /\ job[j].at = "worked"
    /\ Becomes(j, IF job[j].cancelled THEN "failed" ELSE "signed")
    /\ Done(j)
    /\ UNCHANGED <<batch, permits>>

----------------------------------------------------------------------------
\* The owner ends: every preparation is dropped.  A leader fails the queue, waiters leave
\* the semaphore and permits in hand come back, but work on a blocking thread goes on.
EndOwner ==
    /\ owner = "loop"
    /\ owner' = "ended"
    /\ job' = [j \in Jobs |->
                  [job[j] EXCEPT !.at = CASE @ = "working" -> "abandoned"
                                          [] @ = "signed" -> "signed"
                                          [] OTHER -> "failed"]]
    /\ batch' = [queue |-> << >>, leader |-> NoLeader]
    /\ permits' = [free |-> permits.free + Cardinality({j \in Jobs : job[j].at = "granted"}),
                   queue |-> << >>]

----------------------------------------------------------------------------
PollSign(j) ==
    \/ AdmitOutgoing(j) \/ AdmitIncoming(j)
    \/ Enqueue(j) \/ Drain(j) \/ TakeSignature(j)
    \/ StartExecute(j) \/ TakePermit(j) \/ LeaveQueue(j) \/ TakeWork(j)

CryptoNext ==
    \/ \E j \in Jobs : PollSign(j) \/ WorkerEnds(j) \/ DeadlineCancels(j)
    \/ EndOwner

\* The owner is run while it has something to do, and blocking threads run.
CryptoFairness ==
    /\ WF_cryptoVars(\E j \in Jobs : PollSign(j))
    /\ WF_cryptoVars(\E j \in Jobs : WorkerEnds(j))

CryptoSpec == CryptoInit /\ [][CryptoNext]_cryptoVars /\ CryptoFairness

----------------------------------------------------------------------------
(* Properties.                                                             *)

\* No more blocking threads work than there are permits, whether or not their jobs are
\* still awaited, and no permit is lost when a job is cancelled or dropped.
PermitsKept ==
    permits.free + Cardinality({j \in Jobs : job[j].at \in {"working", "abandoned", "granted"}})
        = Permits

\* A queued job has a leader that will sign it, and a job is signed with its own key even
\* when one calculation signs several.
BatchIsLed ==
    /\ batch.queue # << >> => batch.leader \in ToSet(batch.queue) /\ job[batch.leader].at = "yielded"
    /\ \A j \in Jobs : job[j].at = "waiting" => j \in ToSet(batch.queue)
    /\ \A j \in Jobs : job[j].at = "signed" => job[j].signedBy = job[j].key

\* The payload is below a threshold that the bytes to sign reach.
Misjudged(j) ==
    \/ ShouldBatch(SigningBytes(j)) /\ ~ ShouldBatch(job[j].payload)
    \/ ShouldOffload(SigningBytes(j)) /\ ~ ShouldOffload(job[j].payload)

\* The inline job waits for a leader, or for a permit, that is with a preparation: it can
\* go on only when the owner polls that one.
WaitsForOwner(j) ==
    \/ job[j].at = "waiting"
    \/ job[j].at = "queued" /\ \E k \in Jobs : job[k].at = "granted"

\* The owner returns to its loop from every frame it prepares inline, unless it waits for
\* work that only its own loop goes on with, and that happens only to a frame that
\* should_prepare_concurrently judged by its payload and transform_outgoing by more.
OwnerReturns ==
    \A j \in Jobs : owner = j ~> (owner # j \/ (Misjudged(j) /\ WaitsForOwner(j)))

\* No work is lost between batcher and executor: permits balance, and every queued job
\* has a leader and is signed with its own key.
WorkAccounted == PermitsKept /\ BatchIsLed
=============================================================================
