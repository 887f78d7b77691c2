--------------------------- MODULE RequestReducer ---------------------------
(***************************************************************************)
(* The life of one request, as the pure reducer of runtime/reducer.rs      *)
(* advances it: what the caller has been told, how much of the frame has   *)
(* reached the transport, what the server has answered, and whether a      *)
(* request whose caller has gone is kept as a tombstone for the late       *)
(* answer.  The operators map a request record to the record after one     *)
(* RequestEvent; they leave every field they do not name alone, so the     *)
(* ledger can add its own fields to the record (RequestLedger).            *)
(*                                                                         *)
(* Abstractions: the byte count of a partial write is dropped (the code    *)
(* only asks whether it is zero), a pending answer is the async id itself, *)
(* and the failure carried by NetworkOutcomeUnknown is not kept.  An event *)
(* for a foreign generation or for another key leaves the record as it is, *)
(* so it has no operator here.                                             *)
(***************************************************************************)
CONSTANT AsyncIds   \* the async ids a STATUS_PENDING answer may carry

ASSUME AsyncIdsAssumption == AsyncIds \cap {"None", "Final"} = {}

SendProgress == {"NotQueued", "Queued", "Partial", "Complete"}

ResponseProgress == {"None", "Final"} \cup AsyncIds

\* What a caller can be told; "Open" is a caller still waiting.
TerminalOutcome == {"Response", "SessionInvalidated", "Cancelled", "TimedOut",
                    "OutcomeUnknown", "NetworkOutcomeUnknown", "PreparationFailed",
                    "GenerationLost", "GenerationClosed"}

CallerOutcome == {"Open"} \cup TerminalOutcome

\* Why a generation is torn down; "None" is a close without a network failure.
NetworkFailure == {"None", "ConnectionLost", "TimedOut", "SessionInvalidated"}

Committed(send) == send \in {"Partial", "Complete"}

NewRecord == [caller |-> "Open", send |-> "NotQueued", response |-> "None",
              tombstone |-> FALSE]

\* Mutant of PublishOnce: the last terminal outcome wins.
PublishLast(r, outcome) == [r EXCEPT !.caller = outcome]

\* The first terminal outcome wins; a later one is bookkeeping only.
PublishOnce(r, outcome) ==
  IF r.caller = "Open" THEN [r EXCEPT !.caller = outcome] ELSE r

FinishWithoutResponse(r, uncommitted) ==
  IF Committed(r.send)
  THEN PublishOnce([r EXCEPT !.tombstone = (r.response # "Final")],
                   IF uncommitted = "TimedOut" THEN "NetworkOutcomeUnknown"
                                               ELSE "OutcomeUnknown")
  ELSE PublishOnce(r, uncommitted)

OnQueued(r) ==
  IF r.send = "NotQueued" THEN [r EXCEPT !.send = "Queued"] ELSE r

OnWriteProgress(r) ==
  IF r.send # "Complete" THEN [r EXCEPT !.send = "Partial"] ELSE r

OnWriteComplete(r) == [r EXCEPT !.send = "Complete"]

\* A validated answer proves that the whole request reached the wire.
ObserveResponseCommitment(r) ==
  IF Committed(r.send) THEN r ELSE [r EXCEPT !.send = "Complete"]

OnAsyncPending(r, id) ==
  IF r.response = "Final" THEN r ELSE [r EXCEPT !.response = id]

OnFinalResponse(r) ==
  PublishOnce([r EXCEPT !.response = "Final", !.tombstone = FALSE], "Response")

OnRecoveryHint(r) ==
  PublishOnce([r EXCEPT !.tombstone = FALSE], "SessionInvalidated")

OnCancel(r) == FinishWithoutResponse(r, "Cancelled")

OnDeadline(r) == FinishWithoutResponse(r, "TimedOut")

\* What a request is told when its generation is torn down.
DisconnectOutcome(send, network) ==
  CASE Committed(send) /\ network = "None" -> "OutcomeUnknown"
    [] Committed(send) /\ network # "None" -> "NetworkOutcomeUnknown"
    [] ~Committed(send) /\ network = "None" -> "GenerationClosed"
    [] ~Committed(send) /\ network = "ConnectionLost" -> "GenerationLost"
    [] OTHER -> network

OnDisconnect(r, network) ==
  PublishOnce([r EXCEPT !.tombstone = FALSE], DisconnectOutcome(r.send, network))
=============================================================================
