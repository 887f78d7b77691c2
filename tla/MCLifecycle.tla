----------------------------- MODULE MCLifecycle -----------------------------
(***************************************************************************)
(* What a client holds and what it does with it, for TLC: the setup of a   *)
(* session, sessions and shares, resources, the caches and the close of a  *)
(* client, the handles opened on a share, a listing, a watch, a transfer,  *)
(* one operation or batch, and the signing of a connection's frames.  The  *)
(* components have no variable in common: a behaviour runs the one that    *)
(* chosen names, and the others stay as they start.                        *)
(*                                                                         *)
(* Sessions: a caller that may be given up at any time, and a second one   *)
(* where the session is deleted or the connection lost.  Handles: one user *)
(* and oplock breaks, or two users, who see the share replaced once if the *)
(* handle is durable.  Setup: one driver with every setting, or two with   *)
(* one attempt each, of which the second makes a new session and no        *)
(* exchange on it.  A second listing begins at any time, beside the first  *)
(* one or after it, where the server takes every class.  The jobs of the   *)
(* crypto work are ordered by size, and the last may have a key of its     *)
(* own.  An operation of the domain sends one byte; an operation of the    *)
(* runtime has any command and length.                                     *)
(***************************************************************************)
EXTENDS SessionRecovery, ResourceHandles, SessionSetup, DirectoryScan, DirectoryWatch,
        Transfer, CryptoWork, DomainOperation, ClientCaches, ShareUse, TLC

CONSTANTS a, b, u1, u2, d1, d2

VARIABLE chosen

MCCalls == (a :> CallKinds) @@ (b :> {"execute", "disconnect"})

SessionsPart ==
  /\ SessionInit
  /\ chosen = "sessions" => a \in todo /\ (b \in todo => expired + conn.losses = 1)
  /\ chosen # "sessions" => todo = {} /\ expired + conn.losses = 0 /\ share = NoShare

HandlesPart ==
  /\ HandlesInit
  /\ chosen = "handle" => calling = {u1, Opener}
  /\ chosen = "two users" => calling = {u1, u2, Opener} /\ ~Oplock
  /\ chosen \notin {"handle", "two users"} => calling = {Opener} /\ ~asked.durable /\ ~Oplock

UsualSettings == [smb311 |-> TRUE, encryption |-> "allowed", cipher |-> TRUE,
                  signing |-> TRUE, demand |-> FALSE, guests |-> FALSE]

SetupPart ==
  /\ SetupInit
  /\ chosen = "setup" /\ driver[d2].at # "failed" =>
       /\ driver[d1].at # "failed" /\ driver[d2].kind = "create" /\ settings = UsualSettings
       /\ driver[d1].at = "reset" => driver[d1].try = MaxTries
  /\ chosen # "setup" => settings = UsualSettings /\ \A d \in Drivers : driver[d].at = "failed"

OneByte == [command |-> "write", input |-> 1, output |-> 1, back |-> 1]

ScanPart ==
  /\ ScanInit /\ listing["l1"].at = "idle"
  /\ listing["l2"].at = "idle" => chosen = "scan" /\ accepted = 1
  /\ chosen # "scan" => accepted = 1

CryptoPart ==
  IF chosen = "crypto"
  THEN /\ CryptoInit /\ job["j1"].key = "k1" /\ job["j2"].key = "k1"
       /\ job["j1"].payload <= job["j2"].payload /\ job["j2"].payload <= job["j3"].payload
  ELSE /\ job = [j \in Jobs |-> [way |-> "out", payload |-> 0, key |-> "k1", at |-> "asked",
                                 cancelled |-> FALSE, signedBy |-> NoLeader]]
       /\ owner = "loop" /\ batch = [queue |-> <<>>, leader |-> NoLeader]
       /\ permits = [free |-> Permits, queue |-> <<>>]

\* A length the command does not use is one.
OnlyUsed(c) ==
  /\ c.command \notin {"write", "ioctl"} => c.input = 1
  /\ c.command \in {"write", "other"} => c.output = 1

OperationPart ==
  IF chosen = "operation"
  THEN /\ OperationInit /\ OnlyUsed(operation.command)
       /\ operation.layer = "domain" => operation.command = OneByte /\ operation.large_mtu
  ELSE /\ operation = [layer |-> "runtime", at |-> "unpolled", token |-> FALSE, external |-> FALSE,
                       deadline |-> "none", after |-> <<0>>, result |-> "none",
                       command |-> OneByte, large_mtu |-> TRUE, charge |-> credit_charge(OneByte, TRUE)]
       /\ outcomes = <<>> /\ memberAt = "none" /\ generation = "up" /\ credits = 1
       /\ requests = [m \in 1..MaxMembers |-> NotSubmitted]

MCInit ==
  /\ chosen \in {"sessions", "handle", "two users", "setup", "scan", "watch", "transfer",
                 "crypto", "operation", "client", "share"}
  /\ SetupPart /\ SessionsPart /\ HandlesPart
  /\ ScanPart /\ WatchInit
  /\ TransferInit /\ (chosen # "transfer" => ~transfer.deadline)
  /\ CryptoPart /\ OperationPart
  /\ ClientInit /\ ShareUseInit

lifeVars == <<vars, allHandleVars, setupVars>>
streamVars == <<scanVars, watchVars, transferVars>>
workVars == <<cryptoVars, operationVars>>
domainVars == <<clientVars, shareUseVars>>

LifeNext ==
  /\ UNCHANGED <<streamVars, workVars, domainVars>>
  /\ \/ chosen = "sessions" /\ SessionNext /\ UNCHANGED <<allHandleVars, setupVars>>
     \/ /\ chosen \in {"handle", "two users"} /\ HandlesNext
        /\ chosen = "two users" /\ asked.durable => newest' <= 2
        /\ UNCHANGED <<vars, setupVars>>
     \/ chosen = "setup" /\ SetupNext /\ last'[d2] = <<>> /\ UNCHANGED <<vars, allHandleVars>>

WorkNext ==
  /\ UNCHANGED lifeVars
  /\ \/ chosen = "scan" /\ ScanNext /\ UNCHANGED <<watchVars, transferVars, workVars, domainVars>>
     \/ chosen = "watch" /\ WatchNext /\ UNCHANGED <<scanVars, transferVars, workVars, domainVars>>
     \/ chosen = "transfer" /\ TransferNext /\ UNCHANGED <<scanVars, watchVars, workVars, domainVars>>
     \/ chosen = "crypto" /\ CryptoNext /\ UNCHANGED <<streamVars, operationVars, domainVars>>
     \/ chosen = "operation" /\ OperationNext /\ UNCHANGED <<streamVars, cryptoVars, domainVars>>
     \/ chosen = "client" /\ ClientNext /\ UNCHANGED <<streamVars, workVars, shareUseVars>>
     \/ chosen = "share" /\ ShareUseNext /\ UNCHANGED <<streamVars, workVars, clientVars>>

MCNext == UNCHANGED chosen /\ (LifeNext \/ WorkNext)

MCSpec == MCInit /\ [][MCNext]_<<lifeVars, streamVars, workVars, domainVars, chosen>>
=============================================================================
