------------------------------ MODULE MCProgress ------------------------------
(***************************************************************************)
(* What must end, for TLC: the recovery of sessions and of resources, a    *)
(* listing, a watch, a transfer, the signing of frames, an operation.  The *)
(* components have no variable in common: a behaviour runs the one that    *)
(* chosen names, and the others stay as they start.                        *)
(*                                                                         *)
(* One caller recovers a session, and may be given up at any time.  Two    *)
(* users, of whom the second does not close, use a durable handle on a     *)
(* share that stays open.  One listing, which one of the first two classes *)
(* serves, or two that overlap, where the server takes every class; the    *)
(* jobs of the crypto work are ordered by size; an operation sends one     *)
(* byte.                                                                   *)
(***************************************************************************)
EXTENDS SessionRecovery, ResourceHandles, DirectoryScan, DirectoryWatch, Transfer,
        CryptoWork, DomainOperation, TLC

CONSTANTS a, u1, u2

VARIABLE chosen

MCCalls == a :> CallKinds
OneByte == [command |-> "write", input |-> 1, output |-> 1, back |-> 1]

RecoveryPart ==
  /\ SessionInit
  /\ IF chosen = "sessions" THEN todo = {a}
     ELSE todo = {} /\ expired + conn.losses = 0 /\ share = NoShare
  /\ HandlesInit
  /\ IF chosen = "handles" THEN calling = {u1, u2, Opener} /\ asked.durable /\ ~Oplock
     ELSE calling = {Opener} /\ ~asked.durable /\ ~Oplock

StreamsPart ==
  /\ ScanInit /\ listing["l1"].at = "idle"
  /\ IF chosen = "scan" THEN accepted # 3 ELSE accepted = 1
  /\ listing["l2"].at = "idle" => chosen = "scan" /\ accepted = 1
  /\ WatchInit
  /\ TransferInit /\ (chosen # "transfer" => ~transfer.deadline)

WorkPart ==
  /\ IF chosen = "crypto"
     THEN /\ CryptoInit /\ \A j \in Jobs : job[j].key = "k1"
          /\ job["j1"].payload <= job["j2"].payload /\ job["j2"].payload <= job["j3"].payload
     ELSE /\ job = [j \in Jobs |-> [way |-> "out", payload |-> 0, key |-> "k1", at |-> "asked",
                                    cancelled |-> FALSE, signedBy |-> NoLeader]]
          /\ owner = "loop" /\ batch = [queue |-> <<>>, leader |-> NoLeader]
          /\ permits = [free |-> Permits, queue |-> <<>>]
  /\ IF chosen = "operation"
     THEN OperationInit /\ operation.command = OneByte /\ operation.large_mtu
     ELSE /\ operation = [layer |-> "runtime", at |-> "unpolled", token |-> FALSE, external |-> FALSE,
                          deadline |-> "none", after |-> <<0>>, result |-> "none",
                          command |-> OneByte, large_mtu |-> TRUE, charge |-> credit_charge(OneByte, TRUE)]
          /\ outcomes = <<>> /\ memberAt = "none" /\ generation = "up" /\ credits = 1
          /\ requests = [m \in 1..MaxMembers |-> NotSubmitted]

MCInit ==
  /\ chosen \in {"sessions", "handles", "scan", "watch", "transfer", "crypto", "operation"}
  /\ RecoveryPart /\ StreamsPart /\ WorkPart

recoveryVars == <<vars, allHandleVars>>
streamVars == <<scanVars, watchVars, transferVars>>
workVars == <<cryptoVars, operationVars>>

MCNext ==
  /\ UNCHANGED chosen
  /\ \/ chosen = "sessions" /\ SessionNext /\ UNCHANGED <<allHandleVars, streamVars, workVars>>
     \/ /\ chosen = "handles" /\ HandlesNext /\ actor'[u2].call # "close" /\ ~closed'
        /\ UNCHANGED <<vars, streamVars, workVars>>
     \/ chosen = "scan" /\ ScanNext /\ UNCHANGED <<watchVars, transferVars, recoveryVars, workVars>>
     \/ chosen = "watch" /\ WatchNext /\ UNCHANGED <<scanVars, transferVars, recoveryVars, workVars>>
     \/ chosen = "transfer" /\ TransferNext /\ UNCHANGED <<scanVars, watchVars, recoveryVars, workVars>>
     \/ chosen = "crypto" /\ CryptoNext /\ UNCHANGED <<operationVars, recoveryVars, streamVars>>
     \/ chosen = "operation" /\ OperationNext /\ UNCHANGED <<cryptoVars, recoveryVars, streamVars>>

\* The fairness of the component that runs.
MCFairness ==
  /\ WF_vars(chosen = "sessions" /\ SomeFutureRuns)
  /\ WF_allHandleVars(chosen = "handles" /\ SomeUserRuns)
  /\ WF_scanVars(chosen = "scan" /\ ((\E s \in Streams : Fetch(s)) \/ (\E l \in Listings : Consume(l))))
  /\ WF_watchVars(chosen = "watch" /\ (WatchAsk \/ WatchPublish \/ WatchFail))
  /\ WF_watchVars(chosen = "watch" /\ WatcherAt("asked") /\ cancelled /\ WatchEnded)
  /\ WF_watchVars(chosen = "watch" /\ (NextEvent \/ EventsEnd))
  /\ WF_transferVars(chosen = "transfer" /\ (PollFirst \/ CopySteps \/ DeadlineExpires))
  /\ WF_cryptoVars(chosen = "crypto" /\ \E j \in Jobs : PollSign(j))
  /\ WF_cryptoVars(chosen = "crypto" /\ \E j \in Jobs : WorkerEnds(j))
  /\ WF_operationVars(chosen = "operation" /\ PollStep)
  /\ WF_operationVars(chosen = "operation" /\ DeadlinePasses)

MCSpec == MCInit /\ [][MCNext]_<<recoveryVars, streamVars, workVars, chosen>> /\ MCFairness

\* Whoever waits for a session, a share or a reopen is answered, though recoveries wait
\* for each other's mutexes and no server need ever answer.
RecoveriesEnd == CallsEnd /\ UsersEnd

\* Listings, watches and transfers end once their consumer goes on or gives up.
StreamsEnd == ListingsEnd /\ WatchEnds /\ TransferEnds

\* The owner returns from every preparation, but of a frame whose size was misjudged, and an
\* operation with a deadline ends.
WorkEnds == OwnerReturns /\ OperationEnds
=============================================================================
