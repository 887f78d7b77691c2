---------------------------- MODULE RequestLedger ----------------------------
(***************************************************************************)
(* GenerationState (runtime/state.rs): all the mutable request authority   *)
(* of one connection generation.  It admits requests against the limits    *)
(* and the credits in hand, numbers them, keeps one record per request,    *)
(* and returns permits, payload bytes and credits as the request's events  *)
(* arrive.  `state` is that structure; every operator below is one of its  *)
(* methods, from the state before the call to the state after it.          *)
(*                                                                         *)
(* A request is named by its message id: the ledger belongs to one         *)
(* generation and ignores keys of any other.  The deadline heap is the set *)
(* of its entries, and FireDeadline pops any one of them: the clock may    *)
(* reach the deadlines in any order, and two entries that are due together *)
(* are two firings in a row.  The drain timeout is positive, so a deadline *)
(* armed while the heap is being popped is not due in the same call.       *)
(*                                                                         *)
(* `window` and `overdrawn` are not in the code.  `window` is the server's *)
(* count of the credits the client holds, charged by requests it answers   *)
(* and topped up by its grants.  `overdrawn` is what the server charged    *)
(* for requests whose charge the client had taken back: a deadline rolls   *)
(* back a frame that is queued or handed to the transport, which is then   *)
(* written and answered all the same.  Neither is followed once the ledger *)
(* is unhealthy.  `running` is false once the owner has torn the           *)
(* generation down.                                                        *)
(***************************************************************************)
EXTENDS RequestReducer, Integers, FiniteSets

CONSTANTS MaxOperations,     \* limits.max_operations
          MaxPayloadBytes,   \* limits.max_payload_bytes
          InitialMessageId,  \* first message id of the generation
          MessageIdMax,      \* u64::MAX, the last message id
          InitialCredits,    \* credits the server starts the generation with
          CreditMax,         \* u32::MAX, the widest credit counter
          GrantMax,          \* u16::MAX, the widest credit field of a header
          Payloads, Charges, Grants, Targets  \* inputs the environment may pick

ASSUME LedgerAssumption ==
  /\ MaxOperations \in Nat /\ MaxPayloadBytes \in Nat
  /\ InitialMessageId \in Nat /\ MessageIdMax \in Nat
  /\ GrantMax \in Nat /\ CreditMax \in Nat /\ GrantMax <= CreditMax
  /\ InitialCredits \in 0..CreditMax
  /\ Payloads \subseteq Nat /\ Targets \subseteq 0..CreditMax
  /\ Charges \subseteq 0..GrantMax /\ Grants \subseteq 0..GrantMax

VARIABLES state, window, overdrawn, running

vars == <<state, window, overdrawn, running>>

-----------------------------------------------------------------------------
(* Counters of fixed width and sums over the request table.                *)

SatSub(a, b) == IF a > b THEN a - b ELSE 0

SatAdd(a, b) == IF a + b > CreditMax THEN CreditMax ELSE a + b

\* The sum of size[k] over K, counted as a set of unit tokens.
Units(K, size) == UNION {{k} \X (1..size[k]) : k \in K}

Total(K, size) == Cardinality(Units(K, size))

Keys(s) == DOMAIN s.requests

Charge(s) == [k \in Keys(s) |-> s.requests[k].credit_charge]

Payload(s) == [k \in Keys(s) |-> s.requests[k].payload_bytes]

AdmissionHeld(s) == {k \in Keys(s) : s.requests[k].admission_held}

PayloadHeld(s) == {k \in Keys(s) : s.requests[k].payload_held}

\* Requests whose charge is neither rolled back nor settled by an answer.
Outstanding(s) == {k \in Keys(s) : /\ s.requests[k].credit_obligation
                                   /\ ~s.requests[k].credit_response_seen}

-----------------------------------------------------------------------------
(* Admission.                                                              *)

New == [next_message_id |-> InitialMessageId,
        available_credits |-> InitialCredits,
        total_credits |-> InitialCredits,
        pending_extra_credits |-> 0,
        target_credits |-> 1,
        admitted_operations |-> 0,
        retained_payload_bytes |-> 0,
        requests |-> [k \in {} |-> NewRecord],
        async_index |-> {},
        deadlines |-> {},
        unhealthy |-> FALSE]

SetTargetCredits(s, target) ==
  [s EXCEPT !.target_credits = IF target > 1 THEN target ELSE 1]

\* admit's rejections, in the order it tests them, are the negated conjuncts.
Admissible(s, payload_bytes, charge) ==
  /\ charge # 0
  /\ s.admitted_operations < MaxOperations
  /\ s.retained_payload_bytes + payload_bytes <= MaxPayloadBytes
  /\ charge <= s.available_credits
  /\ s.next_message_id <= MessageIdMax

\* How many credits beyond its charge the request asks the server for.
RequestedExtra(s, charge) ==
  LET wanted == SatSub(s.target_credits,
                       SatAdd(s.total_credits, s.pending_extra_credits))
  IN  IF charge + wanted > GrantMax THEN GrantMax - charge ELSE wanted

\* Mutant of NewRequest: the deadline is armed but the version is not set.
NewRequestUnversioned(payload_bytes, charge, extra, deadline) ==
  [caller |-> NewRecord.caller, send |-> NewRecord.send,
   response |-> NewRecord.response, tombstone |-> NewRecord.tombstone,
   payload_bytes |-> payload_bytes, credit_charge |-> charge,
   requested_extra_credits |-> extra, credit_response_seen |-> FALSE,
   admission_held |-> TRUE, payload_held |-> TRUE, credit_obligation |-> TRUE,
   cancel_seen |-> FALSE, deadline_version |-> 0]

NewRequest(payload_bytes, charge, extra, deadline) ==
  [caller |-> NewRecord.caller, send |-> NewRecord.send,
   response |-> NewRecord.response, tombstone |-> NewRecord.tombstone,
   payload_bytes |-> payload_bytes, credit_charge |-> charge,
   requested_extra_credits |-> extra, credit_response_seen |-> FALSE,
   admission_held |-> TRUE, payload_held |-> TRUE, credit_obligation |-> TRUE,
   cancel_seen |-> FALSE, deadline_version |-> IF deadline THEN 1 ELSE 0]

\* `deadline` says whether the caller gave one; it is armed as version 1.
Admit(s, payload_bytes, charge, deadline) ==
  LET key == s.next_message_id
      extra == RequestedExtra(s, charge)
  IN  [s EXCEPT
        !.next_message_id = key + charge,
        !.available_credits = s.available_credits - charge,
        !.pending_extra_credits = SatAdd(s.pending_extra_credits, extra),
        !.admitted_operations = s.admitted_operations + 1,
        !.retained_payload_bytes = s.retained_payload_bytes + payload_bytes,
        !.requests = [k \in Keys(s) \cup {key} |->
                        IF k = key
                        THEN NewRequest(payload_bytes, charge, extra, deadline)
                        ELSE s.requests[k]],
        !.deadlines = IF deadline
                      THEN s.deadlines \cup {[key |-> key, kind |-> "Caller",
                                              version |-> 1]}
                      ELSE s.deadlines]

-----------------------------------------------------------------------------
(* Releasing what a request owns.                                          *)

\* Mutant of ReleasePayload: the payload is not checked to be still held.
ReleasePayloadAgain(s, k) ==
  [s EXCEPT !.retained_payload_bytes =
                SatSub(s.retained_payload_bytes, s.requests[k].payload_bytes),
            !.requests[k] = [s.requests[k] EXCEPT !.payload_held = FALSE]]

ReleasePayload(s, k) ==
  LET r == s.requests[k]
  IN  IF r.payload_held
      THEN [s EXCEPT !.retained_payload_bytes =
                         s.retained_payload_bytes - r.payload_bytes,
                     !.requests[k] = [r EXCEPT !.payload_held = FALSE]]
      ELSE s

ReleaseRequestOwnership(s, k) ==
  LET t == ReleasePayload(s, k)
      r == t.requests[k]
  IN  IF r.admission_held
      THEN [t EXCEPT !.admitted_operations = t.admitted_operations - 1,
                     !.requests[k] = [r EXCEPT !.admission_held = FALSE]]
      ELSE t

\* Give back an uncommitted request's credits and ownership; the message id
\* stays consumed.  A credit counter that would overflow keeps everything.
Rollback(s, k) ==
  LET r == s.requests[k]
  IN  IF \/ ~r.credit_obligation /\ ~r.admission_held
         \/ r.credit_obligation /\ s.available_credits + r.credit_charge > CreditMax
      THEN s
      ELSE ReleaseRequestOwnership(
             IF r.credit_obligation
             THEN [s EXCEPT
                    !.available_credits = s.available_credits + r.credit_charge,
                    !.pending_extra_credits =
                        SatSub(s.pending_extra_credits, r.requested_extra_credits),
                    !.requests[k] = [r EXCEPT !.credit_obligation = FALSE]]
             ELSE s, k)

\* Mutant of ScheduleTombstone: the entry is armed under the stale version.
ScheduleStaleTombstone(s, k) ==
  LET r == s.requests[k]
  IN  [s EXCEPT !.requests[k] = [r EXCEPT !.deadline_version = r.deadline_version + 1],
                !.deadlines = s.deadlines \cup
                   {[key |-> k, kind |-> "Tombstone", version |-> r.deadline_version]}]

\* Arm the drain deadline of a tombstone; older entries of the key go stale.
ScheduleTombstone(s, k) ==
  LET r == s.requests[k]
      version == r.deadline_version + 1
  IN  [s EXCEPT !.requests[k] = [r EXCEPT !.deadline_version = version],
                !.deadlines = s.deadlines \cup
                   {[key |-> k, kind |-> "Tombstone", version |-> version]}]

\* Mutant of SettleUnanswered: the credits of a written request come back too.
SettleByRollback(s, k, committed) == Rollback(s, k)

\* What follows a cancel or a deadline, by whether bytes had been written.
SettleUnanswered(s, k, committed) ==
  IF committed THEN ScheduleTombstone(s, k) ELSE Rollback(s, k)

-----------------------------------------------------------------------------
(* Events of an admitted request.                                          *)

Queued(s, k) == [s EXCEPT !.requests[k] = OnQueued(s.requests[k])]

WriteProgress(s, k) == [s EXCEPT !.requests[k] = OnWriteProgress(s.requests[k])]

WriteComplete(s, k) ==
  ReleasePayload([s EXCEPT !.requests[k] = OnWriteComplete(s.requests[k])], k)

Cancel(s, k) ==
  LET r == s.requests[k]
      seen == [r EXCEPT !.cancel_seen = TRUE]
  IN  IF r.cancel_seen \/ r.caller # "Open"
      THEN [s EXCEPT !.requests[k] = seen]
      ELSE SettleUnanswered([s EXCEPT !.requests[k] = OnCancel(seen)], k,
                            Committed(r.send))

PrepareFailed(s, k) ==
  IF Committed(s.requests[k].send) THEN s
  ELSE Rollback([s EXCEPT !.requests[k] =
                   PublishOnce(s.requests[k], "PreparationFailed")], k)

RecoveryHint(s, k) ==
  ReleaseRequestOwnership(
    [s EXCEPT !.requests[k] = OnRecoveryHint(s.requests[k])], k)

\* One turn of advance_time's loop: `entry` is due and leaves the heap.
FireDeadline(s, entry) ==
  LET t == [s EXCEPT !.deadlines = s.deadlines \ {entry}]
      r == s.requests[entry.key]
  IN  CASE r.deadline_version # entry.version -> t
        [] r.deadline_version = entry.version /\ entry.kind = "Caller" ->
             IF r.caller # "Open" THEN t
             ELSE SettleUnanswered([t EXCEPT !.requests[entry.key] = OnDeadline(r)],
                                   entry.key, Committed(r.send))
        [] OTHER ->
             IF r.tombstone /\ r.response # "Final"
             THEN [t EXCEPT !.unhealthy = TRUE] ELSE t

Disconnect(s, network) ==
  [s EXCEPT !.retained_payload_bytes =
                s.retained_payload_bytes - Total(PayloadHeld(s), Payload(s)),
            !.admitted_operations =
                s.admitted_operations - Cardinality(AdmissionHeld(s)),
            !.requests = [k \in Keys(s) |->
                            [OnDisconnect(s.requests[k], network) EXCEPT
                               !.payload_held = FALSE, !.admission_held = FALSE]]]

-----------------------------------------------------------------------------
(* Answers.  `event` is an async id (STATUS_PENDING) or "Final".           *)

\* Mutant of AsyncIdClash: only an id of another request is a clash.
AsyncIdTaken(s, k, event) ==
  event \in AsyncIds /\ \E p \in s.async_index : p[1] = event /\ p[2] # k

\* The async id already names another request, or this one has another id.
AsyncIdClash(s, k, event) ==
  /\ event \in AsyncIds
  /\ \/ \E p \in s.async_index : p[1] = event /\ p[2] # k
     \/ s.requests[k].response \in AsyncIds /\ s.requests[k].response # event

DuplicateResponse(s, k) == s.requests[k].response = "Final"

\* Mutant of AccountResponse: an interim answer does not settle the charge.
AccountEveryResponse(s, k, grant) ==
  ReleasePayload(
    [s EXCEPT !.total_credits =
                  SatAdd(SatSub(s.total_credits, s.requests[k].credit_charge), grant),
              !.requests[k] = ObserveResponseCommitment(s.requests[k])], k)

\* Credit accounting and commitment, before the caller is considered.
AccountResponse(s, k, grant) ==
  LET r == s.requests[k]
      spent == IF r.credit_response_seen THEN 0 ELSE r.credit_charge
      extra == IF r.credit_response_seen THEN 0 ELSE r.requested_extra_credits
  IN  ReleasePayload(
        [s EXCEPT !.pending_extra_credits = SatSub(s.pending_extra_credits, extra),
                  !.total_credits = SatAdd(SatSub(s.total_credits, spent), grant),
                  !.requests[k] = [ObserveResponseCommitment(r) EXCEPT
                                     !.credit_response_seen = TRUE]], k)

FinishPending(s, k, id) ==
  [s EXCEPT !.requests[k] = OnAsyncPending(s.requests[k], id),
            !.async_index = {p \in s.async_index : p[1] # id} \cup {<<id, k>>}]

FinishFinal(s, k) ==
  LET r == s.requests[k]
  IN  ReleaseRequestOwnership(
        [s EXCEPT !.requests[k] = [OnFinalResponse(r) EXCEPT
                                     !.credit_obligation = FALSE,
                                     !.deadline_version = r.deadline_version + 1],
                  !.async_index = {p \in s.async_index : p[1] # r.response}], k)

Response(s, k, event, grant) ==
  IF AsyncIdClash(s, k, event) THEN [s EXCEPT !.unhealthy = TRUE]
  ELSE IF DuplicateResponse(s, k) THEN s
  ELSE LET t == AccountResponse(s, k, grant)
           u == [t EXCEPT !.available_credits = t.available_credits + grant]
       IN  IF t.available_credits + grant > CreditMax
           THEN [t EXCEPT !.unhealthy = TRUE]
           ELSE IF event = "Final" THEN FinishFinal(u, k)
                ELSE FinishPending(u, k, event)

-----------------------------------------------------------------------------
(* The ledger under every order of events its owner may feed it.           *)

Init == state = New /\ window = InitialCredits /\ overdrawn = 0 /\ running = TRUE

\* A call that is not about an answer leaves the server's count alone.
Reduce(s) == running /\ state' = s /\ UNCHANGED <<window, overdrawn, running>>

Negotiate == \E target \in Targets : Reduce(SetTargetCredits(state, target))

AdmitRequest ==
  \E bytes \in Payloads, charge \in Charges, deadline \in BOOLEAN :
    /\ Admissible(state, bytes, charge)
    /\ Reduce(Admit(state, bytes, charge, deadline))

FrameQueued(k) == Reduce(Queued(state, k))

FrameProgress(k) == Reduce(WriteProgress(state, k))

FrameComplete(k) == Reduce(WriteComplete(state, k))

CancelRequest(k) == Reduce(Cancel(state, k))

PreparationFails(k) == Reduce(PrepareFailed(state, k))

SessionLost(k) == Reduce(RecoveryHint(state, k))

DeadlineDue == \E entry \in state.deadlines : Reduce(FireDeadline(state, entry))

\* What the server charges for the request with this answer.
Charged(s, k, event, grant) ==
  IF \/ Response(s, k, event, grant).unhealthy
     \/ DuplicateResponse(s, k) \/ s.requests[k].credit_response_seen
  THEN 0 ELSE s.requests[k].credit_charge

Granted(s, k, event, grant) ==
  IF Response(s, k, event, grant).unhealthy \/ DuplicateResponse(s, k) THEN 0 ELSE grant

\* A request may be answered whether its charge is on the books or was rolled back.
ServerAnswers(k) ==
  \E event \in AsyncIds \cup {"Final"}, grant \in Grants :
    LET charged == Charged(state, k, event, grant)
    IN  /\ running
        /\ state' = Response(state, k, event, grant)
        /\ window' = window + Granted(state, k, event, grant) - charged
        /\ overdrawn' = overdrawn
                         + (IF state.requests[k].credit_obligation THEN 0 ELSE charged)
        /\ UNCHANGED running

TearDown ==
  \E network \in NetworkFailure :
    /\ running
    /\ state' = Disconnect(state, network)
    /\ running' = FALSE
    /\ UNCHANGED <<window, overdrawn>>

RequestStep(k) ==
  \/ FrameQueued(k) \/ FrameProgress(k) \/ FrameComplete(k)
  \/ CancelRequest(k) \/ PreparationFails(k) \/ SessionLost(k)
  \/ ServerAnswers(k)

Next ==
  \/ Negotiate
  \/ AdmitRequest
  \/ \E k \in Keys(state) : RequestStep(k)
  \/ DeadlineDue
  \/ TearDown

Spec == Init /\ [][Next]_vars

-----------------------------------------------------------------------------
(* Properties.                                                             *)

Request ==
  [caller : CallerOutcome, send : SendProgress, response : ResponseProgress,
   tombstone : BOOLEAN, payload_bytes : Nat, credit_charge : 1..GrantMax,
   requested_extra_credits : 0..GrantMax, credit_response_seen : BOOLEAN,
   admission_held : BOOLEAN, payload_held : BOOLEAN, credit_obligation : BOOLEAN,
   cancel_seen : BOOLEAN, deadline_version : 0..3]

\* Every field of GenerationState keeps its type.  That a deadline version
\* never passes 3 means schedule_deadline's overflow branch is dead code.
TypeOK ==
  /\ state.next_message_id \in Nat
  /\ state.available_credits \in 0..CreditMax
  /\ state.total_credits \in 0..CreditMax
  /\ state.pending_extra_credits \in 0..CreditMax
  /\ state.target_credits \in Nat
  /\ state.admitted_operations \in Nat
  /\ state.retained_payload_bytes \in Nat
  /\ Keys(state) \subseteq Nat
  /\ \A k \in Keys(state) : state.requests[k] \in Request
  /\ state.async_index \subseteq AsyncIds \X Keys(state)
  /\ state.deadlines \subseteq [key : Keys(state), kind : {"Caller", "Tombstone"},
                                version : 1..3]
  /\ state.unhealthy \in BOOLEAN
  /\ window \in Int /\ overdrawn \in Nat
  /\ running \in BOOLEAN

\* The permit and payload counters equal what the request records still
\* hold, so each permit and each payload byte is given back exactly once on
\* whatever path the request leaves (release_request_ownership, rollback,
\* response, disconnect), and neither counter passes its limit.
OwnershipBalanced ==
  /\ state.admitted_operations = Cardinality(AdmissionHeld(state))
  /\ state.retained_payload_bytes = Total(PayloadHeld(state), Payload(state))
  /\ state.admitted_operations <= MaxOperations
  /\ state.retained_payload_bytes <= MaxPayloadBytes

\* Credits are neither invented nor lost while the ledger is healthy, on any
\* path but one: what is available plus what unanswered requests have reserved
\* is what the server counts, plus the charges of requests that were answered
\* after advance_time or cancel had rolled them back.  Each of those is counted
\* once, and an answer to any other request balances exactly (admit, rollback,
\* account_response_once).
CreditsBacked ==
  \/ state.unhealthy
  \/ state.available_credits + Total(Outstanding(state), Charge(state))
       = window + overdrawn

\* A caller still waiting owns its permit, and an answered request owns
\* nothing: no path frees the slot of a live caller, or keeps the slot,
\* payload, credits or tombstone of a request whose final answer came.
SlotFollowsCaller ==
  \A k \in Keys(state) :
    LET r == state.requests[k]
    IN  /\ r.caller = "Open" => r.admission_held
        /\ r.response = "Final" => /\ r.caller # "Open"
                                   /\ ~r.admission_held /\ ~r.payload_held
                                   /\ ~r.credit_obligation /\ ~r.tombstone

\* A tombstone stands for a request that was written, whose caller has its
\* outcome and whose answer has not come; it keeps its permit and its credit
\* obligation, and its drain deadline is armed or has condemned the
\* generation: no tombstone waits for ever (cancel, advance_time).
TombstoneArmed ==
  \A k \in Keys(state) :
    LET r == state.requests[k]
    IN  r.tombstone =>
          /\ Committed(r.send) /\ r.caller # "Open" /\ r.response # "Final"
          /\ r.admission_held
          /\ \/ state.unhealthy
             \/ [key |-> k, kind |-> "Tombstone", version |-> r.deadline_version]
                  \in state.deadlines

\* The async index is exactly the pending answers: an async id resolves to
\* the one request that waits under it (response).
AsyncIndexExact ==
  state.async_index = {<<state.requests[k].response, k>> :
                         k \in {q \in Keys(state) : state.requests[q].response \in AsyncIds}}

\* The first terminal outcome of a request stands and its final answer is
\* never undone, in whatever order later events arrive (publish_once).
OutcomeStands ==
  [][\A k \in Keys(state) :
       /\ k \in Keys(state')
       /\ state.requests[k].caller # "Open" =>
             state'.requests[k].caller = state.requests[k].caller
       /\ state.requests[k].response = "Final" =>
             state'.requests[k].response = "Final"]_vars
=============================================================================
