---------------------------- MODULE ResourceHandles ----------------------------
(***************************************************************************)
(* An opened file, directory or pipe on a share whose session may be       *)
(* replaced at any time.  The share is the one ShareCell promises, and     *)
(* SessionRecovery implements.  Opens, operations, closes and the task     *)
(* that answers oplock breaks overlap.  An operation makes sure the        *)
(* resource belongs to the current share, which for a durable open may     *)
(* mean to open it again, reads the file id, makes sure again, and submits *)
(* for the resource's object.  An object of a resource is named by the     *)
(* share's object it is a child of.  The server is external.               *)
(***************************************************************************)
EXTENDS ShareCell, Sequences, FiniteSets

CONSTANTS Users,        \* futures that use the resource, one call each
          MaxReopens,   \* policy.max_attempts
          MaxShares     \* bound on the share objects

Opener == "opener"
Breaks == "break handler"

ASSUME HandlesAssumption ==
  /\ MaxReopens \in Nat \ {0} /\ MaxShares \in Nat \ {0}
  /\ Opener \notin Users /\ Breaks \notin Users

Futures == Users \cup {Opener}
Actors == Futures \cup {Breaks}

VARIABLES asked,       \* FileCreateArgs: a durable handle, an oplock
          resource,    \* ResourceHandle: open, and generation: file id and object
          slot,        \* OplockSlot: file id, object, level; level 0 if none
          registered,  \* file ids under which the connection finds the slot
          opened,      \* file id -> the share object the server opened it on
          handles,     \* file ids the server holds open
          broken,      \* breaks the server has sent and nobody has read
          actor,       \* what each future is doing
          calling,     \* those that have yet to call
          closes,      \* Close requests the runtime accepted
          closedOk     \* a close returned success

handleVars == <<asked, resource, slot, registered, opened, handles, broken, actor, calling,
                closes, closedOk>>
serverVars == <<opened, handles, broken>>
allHandleVars == <<handleVars, cellVars>>

NoResource == [open |-> FALSE, fid |-> 0, share |-> 0]
Idle == [call |-> "idle", at |-> "idle", next |-> "idle", share |-> 0, fid |-> 0,
         previous |-> NoResource, attempt |-> 1]

HandlesInit ==
  /\ CellInit /\ object = 1
  /\ asked \in [durable : BOOLEAN, oplock : BOOLEAN]
  /\ resource = NoResource
  /\ slot = [fid |-> 0, share |-> 0, level |-> 0]
  /\ registered = {}
  /\ opened = <<>>
  /\ handles = {}
  /\ broken = {}
  /\ actor = [u \in Actors |-> Idle]
  /\ \E some \in SUBSET Users : calling = some \cup {Opener}
  /\ closes = 0
  /\ closedOk = FALSE

Durable == asked.durable
Oplock == asked.oplock

-----------------------------------------------------------------------------
Is(u, at) == actor[u].at = at
Now(u, frame) == actor' = [actor EXCEPT ![u] = frame]
Moves(u, at) == Now(u, [actor[u] EXCEPT !.at = at])
Ends(u) == Now(u, Idle)

\* current_share_object: waits for the share to be recovered, which may fail,
\* and reads the object it has then.
ShareOrError == {object, 0}

-----------------------------------------------------------------------------
(* Resource::create.                                                       *)

\* One call of each.  The name, the disposition and a durable request
\* are checked first.  file_id() refuses an operation on a closed resource.
BeginCall(u) ==
  /\ u \in calling
  /\ calling' = calling \ {u}
  /\ \/ /\ u = Opener
        /\ \E at \in {"create", "idle"} :
             Now(u, IF at = "idle" THEN Idle ELSE [Idle EXCEPT !.call = "create", !.at = at])
     \/ /\ u # Opener /\ resource # NoResource
        /\ Now(u, IF resource.open
                  THEN [Idle EXCEPT !.call = "operate", !.at = "ensure", !.next = "file id"]
                  ELSE Idle)
     \/ /\ u # Opener /\ resource # NoResource
        /\ Now(u, [Idle EXCEPT !.call = "close", !.at = "ensure", !.next = "close"])
  /\ UNCHANGED <<asked, resource, slot, registered, serverVars, closes, closedOk, cellVars>>

quietly == <<asked, resource, slot, registered, calling, closes, closedOk, cellVars>>

\* The parent's object is captured, and the request depends on it.
CreateSubmit(u) ==
  /\ Is(u, "create")
  /\ \E share \in ShareOrError :
       IF share \in alive /\ ~closed
       THEN Now(u, [actor[u] EXCEPT !.at = "creating", !.share = share])
       ELSE Ends(u)
  /\ UNCHANGED <<quietly, serverVars>>

\* The server opens the file, or the caller hears of an error.
CreateAnswered(u) ==
  /\ Is(u, "creating")
  /\ \/ /\ opened' = Append(opened, actor[u].share)
        /\ handles' = handles \cup {Len(opened')}
        /\ Now(u, [actor[u] EXCEPT !.at = "validate", !.fid = Len(opened')])
     \/ Ends(u) /\ UNCHANGED <<opened, handles>>
  /\ UNCHANGED <<quietly, broken>>

\* validate_create_parent_epoch, and the durable grant, which may be missing.
CreateValidate(u) ==
  /\ Is(u, "validate")
  /\ \E share \in ShareOrError, granted \in {TRUE, ~Durable} :
       IF share = actor[u].share /\ granted THEN Moves(u, "child") ELSE Ends(u)
  /\ UNCHANGED <<quietly, serverVars>>

\* create_resource_object_for, then the oplock slot.
CreateChild(u) ==
  /\ Is(u, "child")
  /\ IF actor[u].share \in alive
     THEN /\ slot' = IF Oplock THEN [fid |-> actor[u].fid, share |-> actor[u].share, level |-> 2]
                     ELSE slot
          /\ Moves(u, "register")
     ELSE Ends(u) /\ UNCHANGED slot
  /\ UNCHANGED <<asked, resource, registered, calling, closes, closedOk, cellVars, serverVars>>

CreatePublish(u) ==
  /\ Is(u, "register")
  /\ registered' = IF Oplock THEN registered \cup {slot.fid} ELSE registered
  /\ resource' = [open |-> TRUE, fid |-> actor[u].fid, share |-> actor[u].share]
  /\ Ends(u)
  /\ UNCHANGED <<asked, slot, calling, closes, closedOk, cellVars, serverVars>>

Create(u) ==
  CreateSubmit(u) \/ CreateAnswered(u) \/ CreateValidate(u) \/ CreateChild(u) \/ CreatePublish(u)

-----------------------------------------------------------------------------
(* ResourceHandle::ensure_current.                                         *)

Attempt == {"attempt", "reopen", "reopening", "check", "object"}
Reopening == Attempt \cup {"replace", "store"}
RecoveryHeld == \E u \in Users : actor[u].at \in Reopening

EnsureCurrent(u) ==
  /\ Is(u, "ensure")
  /\ \E share \in ShareOrError :
       CASE share # 0 /\ share = resource.share -> Moves(u, actor[u].next)
         [] share # 0 /\ share # resource.share /\ Durable -> Moves(u, "lock")
         [] OTHER -> Ends(u)
  /\ UNCHANGED <<quietly, serverVars>>

EnsureLock(u) ==
  /\ Is(u, "lock") /\ ~RecoveryHeld
  /\ Moves(u, "attempt")
  /\ UNCHANGED <<quietly, serverVars>>

\* The next attempt, or the last error.
AttemptFails(u) ==
  IF actor[u].attempt < MaxReopens
  THEN Now(u, [actor[u] EXCEPT !.at = "attempt", !.attempt = @ + 1])
  ELSE Ends(u)

\* An attempt reads the generation and the share; another may have opened it.
AttemptBegins(u) ==
  /\ Is(u, "attempt")
  /\ \E share \in ShareOrError :
       CASE share = 0 -> AttemptFails(u)
         [] share # 0 /\ share = resource.share ->
              Now(u, [actor[u] EXCEPT !.at = actor[u].next, !.attempt = 1])
         [] OTHER -> Now(u, [actor[u] EXCEPT !.at = "reopen", !.share = share,
                                             !.previous = resource])
  /\ UNCHANGED <<quietly, serverVars>>

\* The request goes out on whichever share is current when it is submitted.
ReopenSubmit(u) ==
  /\ Is(u, "reopen")
  /\ \E share \in ShareOrError :
       IF share \in alive /\ ~closed
       THEN Now(u, [actor[u] EXCEPT !.at = "reopening", !.fid = share])
       ELSE AttemptFails(u)
  /\ UNCHANGED <<quietly, serverVars>>

\* The server gives the durable open a new file id, on that share.
ReopenAnswered(u) ==
  /\ Is(u, "reopening")
  /\ \/ /\ actor[u].previous.fid \in handles
        /\ opened' = Append(opened, actor[u].fid)
        /\ handles' = (handles \ {actor[u].previous.fid}) \cup {Len(opened')}
        /\ Now(u, [actor[u] EXCEPT !.at = "check", !.fid = Len(opened')])
     \/ AttemptFails(u) /\ UNCHANGED <<opened, handles>>
  /\ UNCHANGED <<quietly, broken>>

ReopenCheck(u) ==
  /\ Is(u, "check")
  /\ \E share \in ShareOrError :
       IF share = actor[u].share THEN Moves(u, "object") ELSE AttemptFails(u)
  /\ UNCHANGED <<quietly, serverVars>>

ReopenObject(u) ==
  /\ Is(u, "object")
  /\ IF actor[u].share \in alive THEN Moves(u, "replace") ELSE AttemptFails(u)
  /\ UNCHANGED <<quietly, serverVars>>

\* run_bounded_attempt.
ReopenTimesOut(u) ==
  /\ actor[u].at \in Attempt
  /\ AttemptFails(u)
  /\ UNCHANGED <<quietly, serverVars>>

\* Mutant of ReopenReplace: the slot is registered after the handle is stored.
ReplaceLater(u) ==
  /\ Is(u, "replace")
  /\ resource' = [resource EXCEPT !.fid = actor[u].fid, !.share = actor[u].share]
  /\ Moves(u, "store")
  /\ UNCHANGED <<asked, slot, registered, calling, closes, closedOk, cellVars, serverVars>>

\* The slot follows first, and is registered under the new file id.
ReopenReplace(u) ==
  /\ Is(u, "replace")
  /\ IF Oplock
     THEN /\ slot' = [slot EXCEPT !.fid = actor[u].fid, !.share = actor[u].share]
          /\ registered' = registered \cup {actor[u].fid}
     ELSE UNCHANGED <<asked, slot, registered>>
  /\ Moves(u, "store")
  /\ UNCHANGED <<asked, resource, calling, closes, closedOk, cellVars, serverVars>>

ReopenStore(u) ==
  /\ Is(u, "store")
  /\ resource' = [resource EXCEPT !.fid = actor[u].fid, !.share = actor[u].share]
  /\ Now(u, [actor[u] EXCEPT !.at = actor[u].next, !.attempt = 1])
  /\ UNCHANGED <<asked, slot, registered, calling, closes, closedOk, cellVars, serverVars>>

Ensure(u) ==
  \/ EnsureCurrent(u) \/ EnsureLock(u) \/ AttemptBegins(u) \/ ReopenSubmit(u)
  \/ ReopenAnswered(u) \/ ReopenCheck(u) \/ ReopenObject(u) \/ ReopenTimesOut(u)
  \/ ReopenReplace(u) \/ ReopenStore(u)

-----------------------------------------------------------------------------
(* Operations, close, drop.                                                *)

\* file_id(), after which execute_content and its like ensure once more.
ReadFileId(u) ==
  /\ Is(u, "file id")
  /\ Now(u, [actor[u] EXCEPT !.fid = resource.fid, !.at = "ensure", !.next = "submit"])
  /\ UNCHANGED <<quietly, serverVars>>

\* The request is made for the object that is current now.
Submit(u) ==
  /\ Is(u, "submit")
  /\ IF resource.share \in alive /\ ~closed
     THEN Now(u, [actor[u] EXCEPT !.share = resource.share, !.at = "sent"])
     ELSE Ends(u)
  /\ UNCHANGED <<quietly, serverVars>>

Answered(u) == Is(u, "sent") /\ Ends(u) /\ UNCHANGED <<quietly, serverVars>>

\* Only the first close sends, for the file id and object it reads together.
CloseResource(u) ==
  /\ Is(u, "close")
  /\ resource' = [resource EXCEPT !.open = FALSE]
  /\ IF resource.open
     THEN Now(u, [actor[u] EXCEPT !.at = "closing", !.fid = resource.fid, !.share = resource.share])
     ELSE Ends(u)
  /\ UNCHANGED <<asked, slot, registered, calling, closes, closedOk, cellVars, serverVars>>

CloseSubmit(u) ==
  /\ Is(u, "closing")
  /\ IF actor[u].share \in alive /\ ~closed
     THEN Moves(u, "close sent") /\ closes' = closes + 1
     ELSE Ends(u) /\ UNCHANGED closes
  /\ UNCHANGED <<asked, resource, slot, registered, calling, closedOk, cellVars, serverVars>>

\* Mutant of CloseAnswered: an error of the server is taken for success.
CloseNeverFails(u) ==
  /\ Is(u, "close sent")
  /\ closedOk' = TRUE
  /\ \E gone \in SUBSET {actor[u].fid} : handles' = handles \ gone
  /\ Ends(u)
  /\ UNCHANGED <<asked, resource, slot, registered, calling, closes, cellVars, opened, broken>>

CloseAnswered(u) ==
  /\ Is(u, "close sent")
  /\ \/ /\ actor[u].fid \in handles
        /\ handles' = handles \ {actor[u].fid}
        /\ closedOk' = (actor[u].share \in alive)
     \/ UNCHANGED <<handles, closedOk>>
  /\ Ends(u)
  /\ UNCHANGED <<asked, resource, slot, registered, calling, closes, cellVars, opened, broken>>

Use(u) ==
  ReadFileId(u) \/ Submit(u) \/ Answered(u) \/ CloseResource(u) \/ CloseSubmit(u) \/ CloseAnswered(u)

-----------------------------------------------------------------------------
(* handle_oplock_break.                                                    *)

\* The slot is found by the file id the server names; its level falls.  A
\* break of level II, 1 here, needs no acknowledgement.  A slot of another
\* connection is left alone; then its share is not alive.
BreakReceived ==
  /\ Is(Breaks, "idle") /\ broken # {}
  /\ \E f \in broken :
       /\ broken' = broken \ {f}
       /\ \E stale \in {FALSE, slot.share \notin alive} :
          IF f \in registered /\ ~stale
          THEN /\ slot' = [slot EXCEPT !.level = 1]
               /\ Now(Breaks, IF slot.level = 1 THEN Idle
                              ELSE [Idle EXCEPT !.call = "break", !.at = "ack", !.fid = slot.fid])
          ELSE UNCHANGED <<slot, actor>>
  /\ UNCHANGED <<asked, resource, registered, calling, closes, closedOk, cellVars, opened, handles>>

\* send_oplock_break_ack names the slot's file id and depends on its object.
BreakAck ==
  /\ Is(Breaks, "ack")
  /\ Now(Breaks, IF slot.share \in alive /\ ~closed
                 THEN [actor[Breaks] EXCEPT !.share = slot.share, !.at = "acked"] ELSE Idle)
  /\ UNCHANGED <<quietly, serverVars>>

BreakAnswered == Is(Breaks, "acked") /\ Ends(Breaks) /\ UNCHANGED <<quietly, serverVars>>

-----------------------------------------------------------------------------
(* The server and the share.                                               *)

ServerBreaks ==
  /\ Oplock /\ broken = {}
  /\ \E f \in handles : slot.level # 1 /\ broken' = {f}
  /\ UNCHANGED <<quietly, actor, opened, handles>>

\* The server closes the handles of a session that is gone.
ServerForgets ==
  /\ \E f \in handles : opened[f] \notin alive /\ handles' = handles \ {f}
  /\ UNCHANGED <<quietly, actor, opened, broken>>

ShareMoves ==
  /\ CellNext /\ newest' <= MaxShares
  /\ UNCHANGED handleVars

UserSteps(u) == actor[u] # Idle /\ (Create(u) \/ Ensure(u) \/ Use(u))

HandlesNext ==
  \/ \E u \in Futures : BeginCall(u) \/ UserSteps(u)
  \/ BreakReceived \/ BreakAck \/ BreakAnswered
  \/ ServerBreaks \/ ServerForgets \/ ShareMoves

SomeUserRuns == \E u \in Futures : UserSteps(u)

HandlesSpec == HandlesInit /\ [][HandlesNext]_allHandleVars /\ WF_allHandleVars(SomeUserRuns)

-----------------------------------------------------------------------------
(* Properties.                                                             *)

\* What a resource publishes was opened on the share it is filed under: a
\* share replaced during an open or a durable reconnect never lends its
\* object to a file id of another session.
PublishedOnOwnShare ==
  resource # NoResource => opened[resource.fid] = resource.share

\* The connection can find the slot of every handle that callers can see, so
\* that a break is not dropped as unknown.
PublishedIsRegistered ==
  Oplock /\ resource # NoResource => resource.fid \in registered

\* Concurrent closes put one Close on the wire; when it succeeded the server holds no
\* handle of this resource, and no operation that was under way opens it again.
ClosedForGood == closes <= 1 /\ (closedOk => handles = {})

\* Every call ends: attempts are bounded and the recovery mutex is given up.
UsersEnd == (\E u \in Futures : actor[u] # Idle) ~> (\A u \in Futures : actor[u] = Idle)

\* An operation names the handle its object was opened for.
NamesOwnHandle == \A u \in Users : Is(u, "sent") => opened[actor[u].fid] = actor[u].share

\* What callers can see of a resource is consistent: its handle was opened on the share it
\* names, and the connection can find it for a break, though reopens and closes of
\* several callers publish and withdraw it (resource.rs:611, 630).
PublishedHandle == PublishedOnOwnShare /\ PublishedIsRegistered
=============================================================================
