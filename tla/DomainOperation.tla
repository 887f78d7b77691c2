-------------------------- MODULE DomainOperation --------------------------
(***************************************************************************)
(* A lazy domain operation, from its first poll to the request engine.     *)
(* The operation runs a batch of commands, one after the other; a single   *)
(* read or write is a batch of one.  run_bounded races the whole of it     *)
(* with cancellation and the deadline.  Callers inside the client skip     *)
(* that layer and hand their token to the runtime instead.  The owner task *)
(* appears by what it tells the caller.                                    *)
(***************************************************************************)
EXTENDS Integers, Sequences

CONSTANTS
    MaxMembers,  \* commands of a batch
    Lengths,     \* lengths that a command may send or ask for
    MaxCredits,  \* credits a server grants at most
    MaxCharge    \* the largest charge a header holds (u16)

VARIABLES
    operation,   \* Operation: progress, token, external token, deadline, batch
    outcomes,    \* outcomes of the members that have ended
    memberAt,    \* where the call of the current member stands
    requests,    \* the request of each member, as the owner and the server have it
    generation,  \* "up" or "down"
    credits      \* credits the owner has left

operationVars == <<operation, outcomes, memberAt, requests, generation, credits>>

CreditBytes == 65536

NotSubmitted == [at |-> "none", told |-> "none", cancel |-> FALSE, sent |-> FALSE, executed |-> FALSE]

\* What a command sends, and what it asks the server to send; an ioctl also says how much
\* of its input may come back.
Commands ==
    {c \in [command : {"read", "write", "ioctl", "query directory", "other"},
            input : Lengths, output : Lengths, back : Lengths] : c.command # "ioctl" => c.back = c.input}

req_payload_size(c) == CASE c.command = "write" -> c.input
                         [] c.command = "ioctl" -> c.input + c.output
                         [] OTHER -> 0

expected_resp_size(c) == CASE c.command \in {"read", "query directory"} -> c.output
                           [] c.command = "ioctl" -> c.back + c.output
                           [] OTHER -> 0

Larger(a, b) == IF a > b THEN a ELSE b

\* One credit for every 64 KiB that goes either way, at least one.
credit_charge(c, large_mtu) ==
    IF ~large_mtu \/ c.command = "other" THEN 1
    ELSE 1 + (Larger(Larger(req_payload_size(c), expected_resp_size(c)), 1) - 1) \div CreditBytes

\* A dependency is the index of a member; MaxMembers + 1 is a member of another batch.
OperationInit ==
    /\ \E layer \in {"domain", "runtime"}, n \in 1 .. MaxMembers, deadline \in {"none", "ahead"} :
         \E after \in [1 .. n -> 0 .. MaxMembers + 1], c \in Commands, large_mtu \in BOOLEAN :
            /\ layer = "runtime" => n = 1 /\ after[1] = 0 /\ deadline = "none"
            /\ operation = [layer |-> layer, at |-> "unpolled", token |-> FALSE, external |-> FALSE,
                            deadline |-> deadline, after |-> after, result |-> "none",
                            command |-> c, large_mtu |-> large_mtu,
                            charge |-> credit_charge(c, large_mtu)]
    /\ outcomes = <<>>
    /\ memberAt = "none"
    /\ requests = [m \in 1 .. MaxMembers |-> NotSubmitted]
    /\ generation = "up"
    /\ credits = 1

Current == Len(outcomes) + 1

Completes(result) == [operation EXCEPT !.at = "done", !.result = result]

\* Error::outcome_unknown.
outcome_unknown(result) == result = "unknown"

MemberEnds(outcome) == /\ outcomes' = Append(outcomes, outcome)
                       /\ memberAt' = "between"

-----------------------------------------------------------------------------
(* Operation::poll and run_bounded *)

\* The first poll looks at both tokens and the deadline before anything starts;
\* the batch then checks its dependencies.
FirstPoll ==
    LET wrong == \E m \in DOMAIN operation.after : operation.after[m] >= m IN
    /\ operation.at = "unpolled"
    /\ operation' = CASE operation.layer = "domain" /\ (operation.token \/ operation.external) -> Completes("cancelled")
                      [] operation.deadline = "passed" -> Completes("timeout")
                      [] wrong -> Completes("invalid")
                      [] OTHER -> [operation EXCEPT !.at = "running"]
    /\ memberAt' = IF operation'.at = "running" THEN "between" ELSE "none"
    /\ UNCHANGED <<outcomes, requests, generation, credits>>

\* run_bounded is biased: tokens first, then the deadline, then the work.
Interrupted == operation.token \/ operation.external \/ operation.deadline = "passed"

\* The work is dropped where it stands.  It is not polled again, so its own
\* select over the same token never runs.
InterruptPoll ==
    /\ operation.layer = "domain" /\ operation.at = "running" /\ Interrupted
    /\ operation' = [Completes(IF operation.token \/ operation.external THEN "cancelled" ELSE "timeout")
                       EXCEPT !.token = TRUE]
    /\ memberAt' = "none"
    /\ UNCHANGED <<outcomes, requests, generation, credits>>

\* The work is polled only when none of the three is ready.
Working == operation.at = "running" /\ (operation.layer = "domain" => ~Interrupted)

\* Mutant: a dependency that has ended in any way will do.
DependencyEnded(m) == operation.after[m] # 0 /\ operation.after[m] > Len(outcomes)

DependencyFailed(m) == operation.after[m] # 0 /\ outcomes[operation.after[m]] # "success"

BeginMember ==
    /\ Working /\ memberAt = "between"
    /\ IF Current > Len(operation.after)
       THEN operation' = Completes("ok") /\ memberAt' = "none" /\ UNCHANGED outcomes
       ELSE /\ UNCHANGED operation
            /\ IF DependencyFailed(Current) THEN MemberEnds("dependency")
               ELSE memberAt' = "resolving" /\ UNCHANGED outcomes
    /\ UNCHANGED <<requests, generation, credits>>

\* The request is put into the owner's channel, if there is room and an owner.
SubmitMember(room) ==
    /\ Working /\ memberAt = "resolving"
    /\ IF generation = "up" /\ room
       THEN /\ requests' = [requests EXCEPT ![Current].at = "channel"]
            /\ memberAt' = "submitted" /\ UNCHANGED outcomes
       ELSE /\ MemberEnds(IF generation = "up" THEN "backpressure" ELSE "stopped")
            /\ UNCHANGED requests
    /\ UNCHANGED <<operation, generation, credits>>

\* The owner acknowledges a request once its frame is queued.
HearSubmission ==
    LET request == requests[Current] IN
    /\ Working /\ memberAt = "submitted" /\ request.at # "channel"
    /\ IF request.at = "refused" THEN MemberEnds(request.told)
       ELSE memberAt' = "waiting" /\ UNCHANGED outcomes
    /\ UNCHANGED <<operation, requests, generation, credits>>

\* The completion, or for callers inside the client their token, which is looked
\* at first: the owner is asked to cancel and the caller leaves at once.
HearTerminal ==
    /\ Working /\ memberAt = "waiting"
    /\ IF operation.layer = "runtime" /\ operation.token
       THEN /\ requests' = [requests EXCEPT ![Current].cancel = TRUE]
            /\ MemberEnds("cancelled")
       ELSE /\ requests[Current].told # "none"
            /\ MemberEnds(requests[Current].told) /\ UNCHANGED requests
    /\ UNCHANGED <<operation, generation, credits>>

-----------------------------------------------------------------------------
(* The caller and the clock *)

Unfinished == operation.at \in {"unpolled", "running"}

RequestCancel ==
    /\ Unfinished /\ ~operation.token
    /\ operation' = [operation EXCEPT !.token = TRUE]
    /\ UNCHANGED <<outcomes, memberAt, requests, generation, credits>>

CancelExternally ==
    /\ Unfinished /\ operation.layer = "domain" /\ ~operation.external
    /\ operation' = [operation EXCEPT !.external = TRUE]
    /\ UNCHANGED <<outcomes, memberAt, requests, generation, credits>>

DeadlinePasses ==
    /\ operation.deadline = "ahead"
    /\ operation' = [operation EXCEPT !.deadline = "passed"]
    /\ UNCHANGED <<outcomes, memberAt, requests, generation, credits>>

\* Drop of the operation: its token is cancelled and its work dropped with it.
AbandonOperation ==
    /\ Unfinished
    /\ operation' = [operation EXCEPT !.at = "dropped", !.token = @ \/ operation.at = "running"]
    /\ memberAt' = "none"
    /\ UNCHANGED <<outcomes, requests, generation, credits>>

-----------------------------------------------------------------------------
(* The owner task and the server *)

Request(m, at) == generation = "up" /\ requests[m].at = at

Tell(m, outcome) == [requests[m] EXCEPT !.told = IF @ = "none" THEN outcome ELSE @]

\* A request may wait for credits; its deadline does not count meanwhile.  One whose
\* charge does not fit the header is refused.
AdmitRequest(m) ==
    /\ Request(m, "channel") /\ operation.charge <= MaxCharge /\ operation.charge <= credits
    /\ requests' = [requests EXCEPT ![m].at = "queued"]
    /\ credits' = credits - operation.charge
    /\ UNCHANGED <<operation, outcomes, memberAt, generation>>

\* Any answer may grant more.
CreditsGranted ==
    /\ generation = "up" /\ credits < MaxCredits /\ credits' = credits + 1
    /\ UNCHANGED <<operation, outcomes, memberAt, requests, generation>>

\* A stale object, a full table or a request that cannot be prepared.
RefuseRequest(m) ==
    /\ Request(m, "channel")
    /\ requests' = [requests EXCEPT ![m] = [Tell(m, "refused") EXCEPT !.at = "refused"]]
    /\ UNCHANGED <<operation, outcomes, memberAt, generation, credits>>

CommitRequest(m) ==
    /\ Request(m, "queued")
    /\ requests' = [requests EXCEPT ![m].at = "written", ![m].sent = TRUE]
    /\ UNCHANGED <<operation, outcomes, memberAt, generation, credits>>

\* What was sent may be carried out at any time, connection or not.
ServerExecutes(m) ==
    /\ requests[m].sent /\ ~requests[m].executed
    /\ requests' = [requests EXCEPT ![m].executed = TRUE]
    /\ UNCHANGED <<operation, outcomes, memberAt, generation, credits>>

\* A status the caller accepts, or one that comes back as an error.
AnswerArrives(m, status) ==
    /\ Request(m, "written")
    /\ status = "success" => requests[m].executed
    /\ requests' = [requests EXCEPT ![m] = [Tell(m, status) EXCEPT !.at = "ended"]]
    /\ UNCHANGED <<operation, outcomes, memberAt, generation, credits>>

\* The runtime's deadline is the operation's, or the connection's timeout.  A
\* request that is still queued stays in the send queue.
RequestExpires(m) ==
    /\ generation = "up" /\ requests[m].at \in {"queued", "written"}
    /\ operation.deadline # "ahead" /\ requests[m].told = "none"
    /\ requests' = [requests EXCEPT ![m] = Tell(m, IF requests[m].at = "queued" THEN "timeout" ELSE "unknown")]
    /\ UNCHANGED <<operation, outcomes, memberAt, generation, credits>>

CancelArrives(m) ==
    /\ generation = "up" /\ requests[m].cancel /\ requests[m].at \in {"queued", "written"}
    /\ requests' = [requests EXCEPT ![m] =
                      IF @.at = "queued" THEN [Tell(m, "cancelled") EXCEPT !.at = "ended", !.cancel = FALSE]
                      ELSE [Tell(m, "unknown") EXCEPT !.cancel = FALSE]]
    /\ UNCHANGED <<operation, outcomes, memberAt, generation, credits>>

\* What a lost generation means for a request.
LostOutcome(at) == IF at = "written" THEN "unknown" ELSE "stopped"

GenerationDown ==
    /\ generation = "up" /\ generation' = "down"
    /\ requests' = [m \in DOMAIN requests |->
          CASE requests[m].at = "channel" -> [Tell(m, "stopped") EXCEPT !.at = "refused"]
            [] requests[m].at \in {"queued", "written"} -> [Tell(m, LostOutcome(requests[m].at)) EXCEPT !.at = "ended"]
            [] OTHER -> requests[m]]
    /\ UNCHANGED <<operation, outcomes, memberAt, credits>>

-----------------------------------------------------------------------------
PollStep ==
    \/ FirstPoll \/ InterruptPoll \/ BeginMember
    \/ \E room \in BOOLEAN : SubmitMember(room)
    \/ HearSubmission \/ HearTerminal

OwnerStep(m) ==
    \/ AdmitRequest(m) \/ RefuseRequest(m) \/ CommitRequest(m)
    \/ \E status \in {"success", "error"} : AnswerArrives(m, status)
    \/ RequestExpires(m) \/ CancelArrives(m)

OperationNext ==
    \/ PollStep
    \/ RequestCancel \/ CancelExternally \/ DeadlinePasses \/ AbandonOperation
    \/ \E m \in 1 .. MaxMembers : OwnerStep(m) \/ ServerExecutes(m)
    \/ CreditsGranted \/ GenerationDown

OperationSpec == OperationInit /\ [][OperationNext]_operationVars

\* An operation that can go on is polled, and time passes.
FairOperationSpec == OperationSpec /\ WF_operationVars(PollStep) /\ WF_operationVars(DeadlinePasses)

-----------------------------------------------------------------------------
(* Properties *)

\* What the caller hears of a member is what happened to it at the server: a
\* success was carried out, and what a lost connection, a full channel, a refusal
\* or a failed dependency ended was not and will not be (generation_runtime.rs:286).
LostIsTold ==
    \A m \in DOMAIN outcomes :
        /\ outcomes[m] = "success" => requests[m].executed
        /\ outcomes[m] \in {"stopped", "backpressure", "refused", "dependency"} => ~requests[m].executed

\* A member of a batch reaches the server only after every earlier member has
\* ended, and after the one it depends on was carried out (batch.rs:116).
BatchInOrder ==
    \A m \in 1 .. MaxMembers : requests[m].at # "none" =>
        /\ m <= Current
        /\ operation.after[m] # 0 => requests[operation.after[m]].executed

\* On a connection with large MTU, a request that is sent has paid for what goes in
\* either direction, for no more than goes in both, and its charge fits the header
\* (operation.rs:184 of the runtime).
ChargeCovers ==
    LET c == operation.command
        sends == IF c.command \in {"write", "ioctl"} THEN c.input ELSE 0
        receives == CASE c.command \in {"read", "query directory"} -> c.output
                      [] c.command = "ioctl" -> c.output + c.back
                      [] OTHER -> 0
    IN  operation.large_mtu /\ (\E m \in 1 .. MaxMembers : requests[m].sent) =>
            /\ operation.charge <= MaxCharge
            /\ operation.charge * CreditBytes >= Larger(sends, receives)
            /\ operation.charge = 1 \/ (operation.charge - 1) * CreditBytes < sends + receives

\* A started operation with a deadline ends, though it is parked for credits, the
\* server is silent and the runtime's own deadline never counts (operation.rs:213).
OperationEnds == (operation.at = "running" /\ operation.deadline # "none") ~> ~Unfinished

\* An operation that ends with an error for which outcome_unknown() is false, and
\* without an answer, was not carried out.  Violated: run_bounded reports a
\* cancellation or a deadline whatever became of the request.
OutcomeTold ==
    operation.result \in {"cancelled", "timeout"} /\ ~outcome_unknown(operation.result) =>
        \A m \in 1 .. MaxMembers : m > Len(outcomes) => ~requests[m].executed

\* A request that is not yet sent when its operation is given up is not sent
\* afterwards.  Violated: the queued request stays.
GivenUpIsWithdrawn ==
    [][ \A m \in 1 .. MaxMembers : ~Unfinished => requests'[m].sent = requests[m].sent ]_operationVars

\* What an operation reports of its members is true, the members run in the order their
\* dependencies ask for, and each has paid for what it sends and receives.
ReportsTrue == LostIsTold /\ BatchInOrder /\ ChargeCovers
=============================================================================
