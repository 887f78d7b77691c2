--------------------------- MODULE ConnectionOwner ---------------------------
(***************************************************************************)
(* owner_task (runtime/engine.rs): the single task that owns a connection  *)
(* generation.  It takes operations from its callers, admits them through  *)
(* the request ledger, prepares their frames, writes one frame at a time,  *)
(* applies the server's answers in the order they were received, and tells *)
(* each caller its outcome.  Every handler of its loop is one action.      *)
(*                                                                         *)
(* A turn of the loop serves finished preparations, answers, a parked      *)
(* operation and callers, dispatches the next frame, and only then waits   *)
(* in select!: AtSelect guards what happens there and nowhere else (write  *)
(* events, deadlines).  The write future reports its progress in the poll  *)
(* that makes it, so progress and its report are one step.  Within a turn  *)
(* the handlers may come in any order here, and a parked operation may be  *)
(* retried late: a control command served after the retry is real.         *)
(*                                                                         *)
(* Callers: an operation is one request, or a compound of several in one   *)
(* frame.  An attached caller waits on a channel it gave with the          *)
(* operation; a detached one is given the message ids and asks later.  The *)
(* server is external: it receives a frame once all of it is written, and  *)
(* answers each request at most twice, STATUS_PENDING and then the final   *)
(* answer, in any order between requests.                                  *)
(*                                                                         *)
(* Left out: the raw admission lane (used by tests only), notifications,   *)
(* event emission, the object registry, the wire transforms, the bodies of *)
(* requests and responses.  What these do to the owner is to refuse an     *)
(* operation or to end the loop with a Fault.  An id is fresh when it is   *)
(* admitted and the server answers only what it received, so admission     *)
(* never finds an early response to apply.                                 *)
(***************************************************************************)
EXTENDS RequestLedger, Integers, Sequences, SequencesExt

CONSTANTS Ops,       \* the operations callers will submit
          Shape,       \* per operation: charges, deadline, attached, concurrent
          Cancellable, \* the operations whose caller may cancel
          Answers,     \* the answers the server may give, of AnswerKinds
          Endings      \* what may end the generation, of EndingKinds

AnswerKinds == AsyncIds \cup {"Final", "RecoveryHint"}

EndingKinds == {"Close", "Network", "Fault"}

ASSUME OwnerAssumption ==
  /\ \A op \in Ops : /\ Shape[op].charges \in Seq(1..GrantMax)
                     /\ Shape[op].charges # <<>>
                     /\ {Shape[op].deadline, Shape[op].attached,
                         Shape[op].concurrent} \subseteq BOOLEAN
                     /\ Len(Shape[op].charges) > 1 =>
                          ~Shape[op].attached /\ ~Shape[op].concurrent
  /\ Cancellable \subseteq Ops /\ Answers \subseteq AnswerKinds
  /\ Endings \subseteq EndingKinds

VARIABLES phase,     \* per operation: where its submission is
          keys,      \* per operation: the message ids it was admitted under
          pending,   \* operation_pending: id -> entry
          reply,     \* per id: what its caller has been sent
          early,     \* early_responses: ids answered with no pending entry
          preparing, \* preparation_order with the results that are in
          queue,     \* send_queue: the member ids of each frame
          active_write, \* the frame being written: members, bytes on the wire, cancel token
          deferred,  \* deferred_cancellations
          wire,      \* ids of frames with at least one byte written
          server,    \* per id: what the server has seen and answered
          inbox,     \* answers received and not yet applied, in order
          ending     \* fatal or close_request: why the loop is to stop

callerVars == <<phase, keys>>

sendVars == <<queue, active_write, deferred, wire>>

ownerVars == <<state, window, overdrawn, running, callerVars, pending, reply, early,
               preparing, sendVars, server, inbox, ending>>

-----------------------------------------------------------------------------
(* Parts of the state.                                                     *)

Ids == InitialMessageId..MessageIdMax

NoFrame == [members |-> <<>>, bytes |-> "None", cancelled |-> FALSE]

Entry(attached) ==
  [waiter |-> attached, buffered |-> "None", draining |-> FALSE, done |-> FALSE]

Drop(p, k) == Restrict(p, DOMAIN p \ {k})

Insert(p, k, entry) == [j \in DOMAIN p \cup {k} |-> IF j = k THEN entry ELSE p[j]]

Parked == {op \in Ops : phase[op] = "Parked"}

Required(op) == FoldLeft(+, 0, Shape[op].charges)

Room(op) == Cardinality(DOMAIN pending) + Len(Shape[op].charges) <= MaxOperations

Affordable(op) == Required(op) <= state.available_credits

Attached(k) == \E op \in Ops : k \in ToSet(keys[op]) /\ Shape[op].attached

\* A caller that has been given the ids of its operation.
Known(k) == \E op \in Ops : phase[op] = "Live" /\ k \in ToSet(keys[op])

\* What one handler threads through several calls: the ledger, the pending
\* operations and the replies.
Books == [s |-> state, p |-> pending, r |-> reply]

KeepBooks(b) == state' = b.s /\ pending' = b.p /\ reply' = b.r

AtSelect == /\ running /\ ending = "None"
            /\ active_write # NoFrame \/ queue = <<>>

\* The loop ends at the end of the turn in which a handler asks for it.  The
\* first cause that is published stands; a later one may come before that.
EndWith(cause) == IF ending = "Close" THEN {"Close"}
                  ELSE {cause} \cup ({ending} \ {"None"})

-----------------------------------------------------------------------------
(* Telling callers.                                                        *)

CompleteOperation(b, k, outcome) ==
  IF k \notin DOMAIN b.p THEN b
  ELSE IF b.p[k].waiter
       THEN [b EXCEPT !.p = Drop(b.p, k), !.r[k] = outcome]
       ELSE [b EXCEPT !.p[k].buffered = outcome]

\* Mutant of DrainOperation: the waiter stays registered.
DrainKeepingWaiter(b, k, outcome) ==
  IF k \notin DOMAIN b.p THEN b
  ELSE [b EXCEPT !.r[k] = IF b.p[k].waiter THEN outcome ELSE b.r[k],
                 !.p[k] = [b.p[k] EXCEPT !.draining = TRUE]]

\* An operation that was written keeps its entry until the late answer.
DrainOperation(b, k, outcome) ==
  IF k \notin DOMAIN b.p THEN b
  ELSE IF b.p[k].waiter
       THEN [b EXCEPT !.r[k] = outcome,
                      !.p[k] = [b.p[k] EXCEPT !.draining = TRUE, !.waiter = FALSE,
                                              !.done = TRUE]]
       ELSE [b EXCEPT !.p[k] = [b.p[k] EXCEPT !.draining = TRUE,
                                              !.buffered = outcome]]

\* apply_operation_effects for a cancel or a deadline of request k that took
\* the ledger from b.s to t.
ApplyOperationEffects(b, t, k) ==
  LET outcome == t.requests[k].caller
      c == [b EXCEPT !.s = t]
  IN  IF b.s.requests[k].caller # "Open" \/ outcome = "Open" THEN c
      ELSE IF Committed(b.s.requests[k].send) THEN DrainOperation(c, k, outcome)
      ELSE CompleteOperation(c, k, outcome)

CancelMember(b, k) == ApplyOperationEffects(b, Cancel(b.s, k), k)

-----------------------------------------------------------------------------
(* Admission.                                                              *)

\* The channel is open until the owner ends, or closes it on its way there.
Submit(op) ==
  /\ phase[op] = "Idle"
  /\ \/ running /\ phase' = [phase EXCEPT ![op] = "Offered"]
     \/ (~running \/ ending # "None") /\ phase' = [phase EXCEPT ![op] = "Refused"]
  /\ UNCHANGED <<state, window, overdrawn, running, keys, pending, reply, early, preparing,
                 sendVars, server, inbox, ending>>

\* Admit the members one by one until the ledger rejects one.
AdmitMembers(s, op) ==
  LET admit(a, charge) ==
        IF a.ok /\ Admissible(a.s, 0, charge)
        THEN [s |-> Admit(a.s, 0, charge, Shape[op].deadline),
              keys |-> Append(a.keys, a.s.next_message_id), ok |-> TRUE]
        ELSE [a EXCEPT !.ok = FALSE]
  IN  FoldLeft(admit, [s |-> s, keys |-> <<>>, ok |-> TRUE], Shape[op].charges)

FailMembers(s, members) == FoldLeft(PrepareFailed, s, members)

InsertMembers(p, members, attached) ==
  FoldLeft(LAMBDA q, k : Insert(q, k, Entry(attached)), p, members)

\* process_operation_admission and process_compound_admission.  The
\* dependency may be found inactive at any time (ObjectRegistry decides).
Admission(op) ==
  LET admitted == AdmitMembers(state, op)
  IN  \/ /\ phase' = [phase EXCEPT ![op] = "Refused"]
         /\ UNCHANGED <<state, keys, pending, preparing, queue>>
      \/ /\ Room(op) /\ ~Affordable(op)
         /\ phase' = [phase EXCEPT ![op] = "Parked"]
         /\ UNCHANGED <<state, keys, pending, preparing, queue>>
      \/ \* rejected by the ledger, or its frame cannot be prepared
         /\ Room(op) /\ Affordable(op) /\ ~(admitted.ok /\ Shape[op].concurrent)
         /\ phase' = [phase EXCEPT ![op] = "Refused"]
         /\ state' = FailMembers(admitted.s, admitted.keys)
         /\ UNCHANGED <<keys, pending, preparing, queue>>
      \/ /\ Room(op) /\ Affordable(op) /\ admitted.ok
         /\ state' = admitted.s
         /\ keys' = [keys EXCEPT ![op] = admitted.keys]
         /\ pending' = InsertMembers(pending, admitted.keys, Shape[op].attached)
         /\ IF Shape[op].concurrent
            THEN /\ phase' = [phase EXCEPT ![op] = "Preparing"]
                 /\ preparing' = Append(preparing, [op |-> op, result |-> "Running"])
                 /\ UNCHANGED queue
            ELSE /\ phase' = [phase EXCEPT ![op] = "Live"]
                 /\ queue' = Append(queue, admitted.keys)
                 /\ UNCHANGED preparing

TakeOperation(op) ==
  /\ running
  /\ phase[op] = "Offered" /\ Parked = {}
  /\ Len(Shape[op].charges) > 1 => preparing = <<>>
  /\ Admission(op)
  /\ UNCHANGED <<window, overdrawn, running, reply, early, active_write, deferred, wire, server,
                 inbox, ending>>

RetryParked(op) ==
  /\ running /\ phase[op] = "Parked"
  /\ Len(Shape[op].charges) > 1 => preparing = <<>>
  /\ Admission(op)
  /\ UNCHANGED <<window, overdrawn, running, reply, early, active_write, deferred, wire, server,
                 inbox, ending>>

-----------------------------------------------------------------------------
(* Preparation off the owner, released in admission order.                 *)

\* finish_prepared_operation: the caller may be gone, the transform may have
\* failed, or the frame is queued and the caller is given its id.
FinishPrepared(a, item) ==
  LET k == keys[item.op][1]
      outcome == a.s.requests[k].caller
      tell(what) == IF a.r[k] = "None" THEN [a.r EXCEPT ![k] = what] ELSE a.r
  IN  CASE outcome # "Open" ->
             [a EXCEPT !.p = Drop(a.p, k), !.r = tell(outcome),
                       !.phase[item.op] = "Refused"]
        [] outcome = "Open" /\ item.result = "Failed" ->
             [a EXCEPT !.s = PrepareFailed(a.s, k), !.p = Drop(a.p, k),
                       !.r = tell("PreparationFailed"),
                       !.phase[item.op] = "Refused"]
        [] OTHER ->
             [a EXCEPT !.queue = Append(a.queue, <<k>>), !.phase[item.op] = "Live"]

\* Mutant of ReadyPrefix: everything that is finished is released.
ReadyAnywhere(items) == SelectSeq(items, LAMBDA item : item.result # "Running")

\* OrderedCompletionQueue.complete: the finished items at the front.
ReadyPrefix(items) ==
  LET running_at == SelectInSeq(items, LAMBDA item : item.result = "Running")
  IN  IF running_at = 0 THEN items ELSE SubSeq(items, 1, running_at - 1)

PreparationDone ==
  \E i \in DOMAIN preparing, result \in {"Ready", "Failed"} :
    LET items == [preparing EXCEPT ![i].result = result]
        ready == ReadyPrefix(items)
        after == FoldLeft(FinishPrepared,
                          [s |-> state, p |-> pending, r |-> reply,
                           queue |-> queue, phase |-> phase], ready)
    IN  /\ running /\ preparing[i].result = "Running"
        /\ KeepBooks(after)
        /\ queue' = after.queue /\ phase' = after.phase
        /\ preparing' = SelectSeq(items, LAMBDA item : item \notin ToSet(ready))
        /\ UNCHANGED <<window, overdrawn, running, keys, early, active_write, deferred, wire,
                       server, inbox, ending>>

-----------------------------------------------------------------------------
(* Writing.                                                                *)

DispatchNext ==
  /\ running /\ active_write = NoFrame /\ queue # <<>>
  /\ state' = FoldLeft(Queued, state, Head(queue))
  /\ active_write' = [members |-> Head(queue), bytes |-> "None", cancelled |-> FALSE]
  /\ queue' = Tail(queue)
  /\ UNCHANGED <<window, overdrawn, running, phase, keys, pending, reply, early, preparing,
                 deferred, wire, server, inbox, ending>>

\* deferred_cancellations once the fate of the frame that k leads is known.
Settled(k) == deferred \ {k}

\* A cancel that waited for the frame's fate now meets a committed request.
ApplyDeferred(b, k) == IF k \in deferred THEN CancelMember(b, k) ELSE b

\* The frame goes out in part or in full; a cancelled frame of which nothing
\* is out is not started.  A full frame is with the server.
WriteBytes ==
  \E bytes \in {"Some", "All"} :
    LET key == Head(active_write.members)
        wrote == [Books EXCEPT !.s = FoldLeft(WriteProgress, state, active_write.members)]
    IN  /\ AtSelect /\ active_write # NoFrame /\ active_write.bytes # "All"
        /\ active_write.bytes = "None" => ~active_write.cancelled
        /\ active_write.bytes = "Some" => bytes = "All"
        /\ KeepBooks(ApplyDeferred(wrote, key))
        /\ active_write' = [active_write EXCEPT !.bytes = bytes]
        /\ deferred' = Settled(key)
        /\ wire' = wire \cup ToSet(active_write.members)
        /\ IF bytes = "All"
           THEN /\ server' = [k \in Ids |-> IF k \in ToSet(active_write.members)
                                            THEN "Owed" ELSE server[k]]
                /\ window' = window - Total(ToSet(active_write.members), Charge(state))
           ELSE UNCHANGED <<server, window>>
        /\ UNCHANGED <<overdrawn, running, phase, keys, early, preparing, queue, inbox, ending>>

WriteDone ==
  LET key == Head(active_write.members)
      wrote == [Books EXCEPT !.s = FoldLeft(WriteComplete, state, active_write.members)]
  IN  /\ AtSelect /\ active_write.bytes = "All"
      /\ KeepBooks(ApplyDeferred(wrote, key))
      /\ active_write' = NoFrame
      /\ deferred' = Settled(key)
      /\ UNCHANGED <<window, overdrawn, running, phase, keys, early, preparing, queue, wire,
                     server, inbox, ending>>

\* The token was seen before the first byte: every member is cancelled.
WriteCancelled ==
  /\ AtSelect /\ active_write # NoFrame /\ active_write.cancelled /\ active_write.bytes = "None"
  /\ KeepBooks(FoldLeft(CancelMember, Books, active_write.members))
  /\ deferred' = Settled(Head(active_write.members))
  /\ active_write' = NoFrame
  /\ UNCHANGED <<window, overdrawn, running, phase, keys, early, preparing, queue, wire,
                 server, inbox, ending>>

-----------------------------------------------------------------------------
(* Control commands.                                                       *)

\* Mutant of QueuedFrame: the frame at the head is taken for it.
FirstFrame(k) == IF queue = <<>> THEN 0 ELSE 1

\* The position of the queued frame that request k leads, or 0.
QueuedFrame(k) == SelectInSeq(queue, LAMBDA members : Head(members) = k)

\* Mutant of CancelOperation: a frame about to be written is not asked.
CancelAtOnce(k) ==
  /\ running /\ Known(k)
  /\ KeepBooks(CancelMember(Books, k))
  /\ queue' = IF QueuedFrame(k) # 0 THEN RemoveAt(queue, QueuedFrame(k)) ELSE queue
  /\ UNCHANGED <<active_write, deferred, window, overdrawn, running, phase, keys, early, preparing,
                 wire, server, inbox, ending>>

\* A queued frame that k leads is removed whole; a frame being written is
\* asked to stop and the cancel waits for its fate.
CancelOperation(k) ==
  LET leads == active_write # NoFrame /\ Head(active_write.members) = k
      removed == QueuedFrame(k) # 0
  IN  /\ running /\ Known(k)
      /\ queue' = IF removed THEN RemoveAt(queue, QueuedFrame(k)) ELSE queue
      /\ active_write' = IF leads THEN [active_write EXCEPT !.cancelled = TRUE] ELSE active_write
      /\ IF removed \/ Committed(state.requests[k].send) \/ ~leads
         THEN KeepBooks(CancelMember(Books, k)) /\ UNCHANGED deferred
         ELSE deferred' = deferred \cup {k} /\ UNCHANGED <<state, pending, reply>>
      /\ UNCHANGED <<window, overdrawn, running, phase, keys, early, preparing, wire, server,
                     inbox, ending>>

\* A detached caller asks for its result; one that asks twice is refused.
AwaitOperation(k) ==
  /\ running /\ Known(k) /\ ~Attached(k) /\ reply[k] = "None"
  /\ IF k \notin DOMAIN pending
     THEN reply' = [reply EXCEPT ![k] = "UnknownRequest"] /\ UNCHANGED pending
     ELSE LET e == pending[k]
          IN  IF e.buffered # "None"
              THEN /\ reply' = [reply EXCEPT ![k] = e.buffered]
                   /\ pending' = IF e.draining
                                 THEN [pending EXCEPT ![k] =
                                         [e EXCEPT !.buffered = "None", !.done = TRUE]]
                                 ELSE Drop(pending, k)
              ELSE /\ ~e.waiter /\ ~e.done
                   /\ pending' = [pending EXCEPT ![k].waiter = TRUE]
                   /\ UNCHANGED reply
  /\ UNCHANGED <<state, window, overdrawn, running, early, preparing, callerVars, sendVars,
                 server, inbox, ending>>

-----------------------------------------------------------------------------
(* The server and its answers.                                             *)

\* External.  An interim answer carries an async id no other request has.
ServerReplies ==
  \E k \in Ids, event \in Answers, grant \in Grants :
    /\ \/ server[k] = "Owed"
       \/ server[k] \in AsyncIds /\ event \notin AsyncIds
    /\ event \in AsyncIds => \A j \in Ids : server[j] # event
    /\ window + grant <= CreditMax
    /\ inbox' = Append(inbox, [key |-> k, event |-> event, grant |-> grant])
    /\ window' = window + grant
    /\ server' = [server EXCEPT ![k] = IF event \in AsyncIds THEN event ELSE "Done"]
    /\ UNCHANGED <<state, overdrawn, running, pending, reply, early, preparing,
                   callerVars, sendVars, ending>>

\* process_decoded_response for an answer whose operation is pending.
ProcessDecodedResponse(b, m) ==
  IF m.event = "RecoveryHint"
  THEN CompleteOperation([b EXCEPT !.s = RecoveryHint(b.s, m.key)], m.key,
                         "SessionInvalidated")
  ELSE LET c == [b EXCEPT !.s = Response(b.s, m.key, m.event, m.grant)]
           publishes == /\ b.s.requests[m.key].caller = "Open"
                        /\ c.s.requests[m.key].caller = "Response"
       IN  CASE m.event # "Final" -> c
             [] m.event = "Final" /\ publishes -> CompleteOperation(c, m.key, "Response")
             [] m.event = "Final" /\ ~publishes ->
                  IF b.p[m.key].draining THEN [c EXCEPT !.p = Drop(c.p, m.key)] ELSE c

\* finish_prepared_inbound: answers are applied in the order received; one
\* with no pending operation is kept as an early response, up to the limit.
ApplyAnswer ==
  LET m == Head(inbox)
  IN  /\ running /\ inbox # <<>>
      /\ inbox' = Tail(inbox)
      /\ IF m.key \in DOMAIN pending
         THEN /\ KeepBooks(ProcessDecodedResponse(Books, m))
              /\ UNCHANGED <<early, ending>>
         ELSE /\ IF Cardinality(early) >= MaxOperations \/ m.key \in early
                 THEN ending' \in EndWith("Fault") /\ UNCHANGED early
                 ELSE early' = early \cup {m.key} /\ UNCHANGED ending
              /\ UNCHANGED <<state, pending, reply>>
      /\ UNCHANGED <<window, overdrawn, running, preparing, callerVars, sendVars, server>>

-----------------------------------------------------------------------------
(* Time and the end of the generation.                                     *)

\* Two members of a compound share their caller's deadline.
Together(entry, other) ==
  \E op \in Ops : /\ {entry.key, other.key} \subseteq ToSet(keys[op])
                 /\ entry.kind = "Caller" /\ other.kind = "Caller"

\* The timer: every entry that is due fires; an unhealthy ledger ends the loop.
AdvanceTime ==
  \E due \in SUBSET state.deadlines :
    LET fire(b, entry) ==
          ApplyOperationEffects(b, FireDeadline(b.s, entry), entry.key)
        after == FoldLeft(fire, Books, SetToSeq(due))
    IN  /\ AtSelect /\ due # {}
        /\ \A entry \in due, other \in state.deadlines :
              Together(entry, other) => other \in due
        /\ KeepBooks(after)
        /\ IF after.s.unhealthy THEN ending' \in EndWith("Fault") ELSE UNCHANGED ending
        /\ UNCHANGED <<window, overdrawn, running, early, preparing, callerVars, sendVars,
                       server, inbox>>

\* A close request, a transport failure, or a fault of what is left out.
EndGeneration ==
  \E cause \in Endings :
    /\ running
    /\ ending' \in EndWith(cause)
    /\ UNCHANGED <<state, window, overdrawn, running, pending, reply, early, preparing,
                   callerVars, sendVars, server, inbox>>

\* After the loop: waiting admissions fail, the ledger is disconnected, every
\* pending operation is told or dropped.  A frame of which bytes are out may
\* still be finished, one of which none are is cancelled.
ShutDown ==
  LET network == IF ending = "Network" THEN "ConnectionLost" ELSE "None"
      t == Disconnect(state, network)
  IN  /\ running /\ ending # "None"
      /\ active_write # NoFrame \/ queue = <<>>
      /\ state' = t
      /\ reply' = [k \in Ids |-> IF k \in DOMAIN pending /\ pending[k].waiter
                                 THEN t.requests[k].caller ELSE reply[k]]
      /\ pending' = Restrict(pending, {})
      /\ phase' = [op \in Ops |-> IF phase[op] \in {"Offered", "Parked", "Preparing"}
                                  THEN "Refused" ELSE phase[op]]
      /\ preparing' = <<>> /\ queue' = <<>> /\ active_write' = NoFrame
      /\ running' = FALSE
      /\ UNCHANGED <<window, overdrawn, keys, early, deferred, wire, server, inbox, ending>>

-----------------------------------------------------------------------------
OwnerInit ==
  /\ Init
  /\ phase = [op \in Ops |-> "Idle"] /\ keys = [op \in Ops |-> <<>>]
  /\ pending = [k \in {} |-> Entry(FALSE)] /\ reply = [k \in Ids |-> "None"]
  /\ early = {} /\ preparing = <<>> /\ queue = <<>> /\ active_write = NoFrame
  /\ deferred = {} /\ wire = {} /\ server = [k \in Ids |-> "Unsent"]
  /\ inbox = <<>> /\ ending = "None"

CancelSome == \E op \in Cancellable : \E k \in ToSet(keys[op]) : CancelOperation(k)

AwaitSome == \E k \in Ids : AwaitOperation(k)

OwnerNext ==
  \/ \E op \in Ops : Submit(op) \/ TakeOperation(op) \/ RetryParked(op)
  \/ PreparationDone
  \/ DispatchNext \/ WriteBytes \/ WriteDone \/ WriteCancelled
  \/ CancelSome \/ AwaitSome
  \/ ServerReplies \/ ApplyAnswer
  \/ AdvanceTime \/ EndGeneration \/ ShutDown

OwnerSpec == OwnerInit /\ [][OwnerNext]_ownerVars

\* What the owner does on its own.  A retry decides when the credits are there
\* or the table is full; a dependency need never become inactive.
OwnerStep ==
  \/ \E op \in Ops : \/ TakeOperation(op)
                     \/ (Affordable(op) \/ ~Room(op)) /\ RetryParked(op)
  \/ PreparationDone \/ DispatchNext \/ ApplyAnswer \/ AdvanceTime \/ ShutDown

\* The owner task is scheduled while it has something to do: its timer fires
\* and preparations finish.  Neither the transport nor the server owes the
\* owner anything, and callers submit when they please.
FairOwnerSpec == OwnerSpec /\ WF_ownerVars(OwnerStep)

-----------------------------------------------------------------------------
(* Properties.                                                             *)

PendingEntry == [waiter : BOOLEAN, buffered : {"None"} \cup TerminalOutcome,
                 draining : BOOLEAN, done : BOOLEAN]

\* The ids somewhere on their way to the transport.
OnTheWay == UNION {ToSet(queue[i]) : i \in DOMAIN queue}
              \cup ToSet(active_write.members)
              \cup {keys[preparing[i].op][1] : i \in DOMAIN preparing}

\* The owner's collections keep their types, every pending operation and
\* every early answer names a request of the ledger, and a cancel waits only
\* for a frame that is being written and of which nothing is out.
OwnerTypeOK ==
  /\ phase \in [Ops -> {"Idle", "Offered", "Parked", "Preparing", "Live", "Refused"}]
  /\ DOMAIN pending \cup early \subseteq Keys(state) /\ Keys(state) \subseteq Ids
  /\ \A k \in DOMAIN pending : pending[k] \in PendingEntry
  /\ reply \in [Ids -> {"None", "UnknownRequest"} \cup TerminalOutcome]
  /\ OnTheWay \cup wire \subseteq Keys(state)
  /\ running => \A k \in deferred : /\ active_write # NoFrame /\ k = Head(active_write.members)
                                    /\ active_write.bytes = "None" /\ active_write.cancelled
  /\ ending \in {"None"} \cup EndingKinds

NotSent == {"Cancelled", "TimedOut", "PreparationFailed", "GenerationLost",
            "GenerationClosed"}

\* A caller who is told that its request was not sent can rely on it: no byte
\* of the frame is on the wire, then or later (handle_control, write_step).
NotSentIsTrue == \A k \in Ids : reply[k] \in NotSent => k \notin wire

InFlight == {i \in DOMAIN inbox : inbox[i].event # "RecoveryHint"}

\* The owner never believes to have more credits than the server has granted
\* it: those in hand, those of requests the server has not received and those
\* of answers not yet applied are covered by the server's count.
CreditsNeverInvented ==
  running /\ ~state.unhealthy =>
    state.available_credits
      + Total({k \in Outstanding(state) : server[k] = "Unsent"}, Charge(state))
      + Total(InFlight, [i \in DOMAIN inbox |-> inbox[i].grant]) <= window

\* While the owner runs, a caller that waits on an admitted request has been
\* sent its outcome or is still registered, with the outcome not decided: no
\* path decides an outcome and forgets to send it (complete_operation).
CallerReachable ==
  running => \A op \in Ops : Shape[op].attached /\ phase[op] \in {"Preparing", "Live"} =>
    \A k \in ToSet(keys[op]) : reply[k] = "None" =>
      /\ k \in DOMAIN pending /\ pending[k].waiter
      /\ state.requests[k].caller = "Open"

\* An unanswered request of which nothing is written is on its way to the
\* transport: it is queued, being written, or being prepared.
WorkIsQueued ==
  running => \A k \in DOMAIN pending :
    state.requests[k].caller = "Open" /\ ~Committed(state.requests[k].send)
      => k \in OnTheWay

\* A pending entry is released with its request: it outlives the request's
\* permit only while it keeps an outcome its detached caller may still ask for.
EntriesReleased ==
  running => \A k \in DOMAIN pending :
    \/ state.requests[k].admission_held
    \/ ~Attached(k) /\ reply[k] = "None"

Received == {k \in Ids : server[k] # "Unsent"}

\* Every message id the server receives is one it has granted: ids are handed
\* out in order, one for each credit granted since the start.
IdsWithinGrant ==
  \A k \in Received : k < InitialMessageId + window + Total(Received, Charge(state))

\* Requests prepared off the owner are queued in the order of their ids,
\* whatever the order in which preparations finish (preparation_order).
PreparedInOrder ==
  \A a, b \in {op \in Ops : Shape[op].concurrent /\ keys[op] # <<>>} :
    keys[a][1] < keys[b][1] /\ phase[b] = "Live" => phase[a] # "Preparing"

\* Once a caller has been sent an outcome, it is not sent another.
ReplyStands ==
  [][\A k \in Ids : reply[k] # "None" => reply'[k] = reply[k]]_ownerVars

\* A request with a deadline whose caller waits gets an outcome, though the
\* transport may stall and the server may never answer (AdvanceTime).
DeadlineAnswers ==
  \A k \in Ids : (\E op \in Ops : /\ Shape[op].attached /\ Shape[op].deadline
                                  /\ k \in ToSet(keys[op])) ~> reply[k] # "None"

\* An operation with a deadline does not wait for ever to be admitted: it is
\* admitted, refused or told that its time is over (waiting_operation).
AdmissionIsTimely ==
  \A op \in Ops : Shape[op].deadline =>
    (phase[op] \in {"Offered", "Parked"} ~> phase[op] \notin {"Offered", "Parked"})

Tombstone(k) == k \in Keys(state) /\ state.requests[k].tombstone

\* A request that was written and given up by its caller does not hold its
\* slot for ever: its answer comes or the generation is torn down.
TombstonesEnd == \A k \in Ids : Tombstone(k) ~> ~Tombstone(k)

\* Nothing is stranded: an unanswered caller still has its entry, and an unwritten
\* request is on its way, whatever was cancelled, refused or answered around it.
NothingStranded == CallerReachable /\ WorkIsQueued
=============================================================================
