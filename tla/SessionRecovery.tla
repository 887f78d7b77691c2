---------------------------- MODULE SessionRecovery ----------------------------
(***************************************************************************)
(* A session and a share on it, when the server deletes the session or the *)
(* connection is replaced.  Many futures may want the session back at      *)
(* once: the recovery task, operations that wait for it, and every         *)
(* operation that was told its session is gone.  They call each other:     *)
(* reauthenticate reconnects the shares, a reconnect that is told the      *)
(* session is gone reauthenticates.  Both hold a mutex while they do.      *)
(*                                                                         *)
(* Each process is a stack of calls.  A step ends at an await, or between  *)
(* two reads of shared state.  The mutexes and the two `recovering` flags  *)
(* live exactly as long as the call that took them, also when the call is  *)
(* dropped, and are read off the stacks.  Objects of sessions are numbered *)
(* in the order the runtime makes them; a share's object is named by the   *)
(* session object it is a child of, a tree by the session it was connected *)
(* on.  The server and the connection's own recovery are external.         *)
(***************************************************************************)
EXTENDS Naturals, Sequences, FiniteSets

CONSTANTS Callers,       \* futures of the application, one call each
          Calls,         \* what each may call, see CallKinds
          Impatient,     \* those whose deadline may pass, or that are dropped
          MaxAttempts,   \* policy.max_attempts
          Slots,         \* policy.max_waiting_operations
          MaxExpiries,   \* how often the server deletes a session
          MaxLosses      \* how often the connection is lost

\* Tree::connect, Tree::execute, Tree::disconnect and Session::logoff.
CallKinds == {"connect", "execute", "disconnect", "logoff"}

ASSUME RecoveryAssumption ==
  /\ Calls \in [Callers -> SUBSET CallKinds]
  /\ Impatient \subseteq Callers
  /\ MaxAttempts \in Nat \ {0} /\ Slots \in Nat
  /\ MaxExpiries \in Nat /\ MaxLosses \in Nat

Task == "recovery task"
Procs == Callers \cup {Task}

VARIABLES conn,      \* the connection: its generation, up, and the losses counted
          session,   \* SessionContext.generation: session id and object
          objects,   \* session objects: generation, phase, session id
          invalid,   \* ids of the sessions whose SessionInfo is Invalid
          keys,      \* the ids the connection registry knows this session by
          share,     \* TreeContext.generation and closed
          sessions,  \* the sessions the server has
          trees,     \* the sessions on which the server has the tree
          issued,    \* session ids the server has given out
          expired,   \* the deletions counted
          dropping,  \* SessionContext.dropping
          stack,     \* Procs -> the calls each is in, innermost last
          todo       \* callers that have yet to call

vars == <<conn, session, objects, invalid, keys, share, sessions, trees, issued,
          expired, dropping, stack, todo>>

NoShare == [tree |-> 0, session |-> 0, object |-> 0, closed |-> FALSE, replayed |-> FALSE]

SessionInit ==
  /\ conn \in [generation : {1}, up : {TRUE}, losses : 0..MaxLosses]
  /\ session = [id |-> 1, object |-> 1]
  /\ objects = <<[generation |-> 1, phase |-> "active", id |-> 1]>>
  /\ invalid = {}
  /\ keys = {1}
  /\ share \in {NoShare, [NoShare EXCEPT !.tree = 1, !.session = 1, !.object = 1]}
  /\ sessions = {1}
  /\ trees = {share.tree} \ {0}
  /\ issued = 1
  /\ expired \in 0..MaxExpiries
  /\ dropping = FALSE
  /\ stack = [p \in Procs |-> <<>>]
  /\ todo \in SUBSET Callers

-----------------------------------------------------------------------------
(* Calls.                                                                  *)

Depth(p) == Len(stack[p])
Top(p) == stack[p][Depth(p)]
At(p, call, at) == stack[p] # <<>> /\ Top(p).call = call /\ Top(p).at = at

Under(p) == SubSeq(stack[p], 1, Depth(p) - 1)
Become(p, frame) == stack' = [stack EXCEPT ![p] = Append(Under(p), frame)]
Goto(p, at) == Become(p, [Top(p) EXCEPT !.at = at])
Enter(p, at, frame) ==
  stack' = [stack EXCEPT ![p] = Under(p) \o <<[Top(p) EXCEPT !.at = at], frame>>]

\* Where a call goes on when the call it awaits has returned.
Resumed(frame, ok) ==
  [frame EXCEPT !.id = IF frame.at = "registering" THEN session.id ELSE @, !.at =
     CASE frame.at = "gated"        -> IF ~ok THEN "over"
                                       ELSE IF frame.call = "execute" THEN "load" ELSE "send"
       [] frame.at = "object gated" -> IF ok THEN "object" ELSE "over"
       [] frame.at = "registering"  -> IF ok THEN "register" ELSE "end"
       [] frame.at = "recovering"   -> IF frame.call = "reconnect" THEN "retry" ELSE "over"
       [] frame.at = "replaying"    -> "done"]

Return(p, ok) ==
  stack' = [stack EXCEPT ![p] =
              IF Depth(p) = 1 \/ (Depth(p) = 2 /\ Resumed(@[1], ok).at = "over") THEN <<>>
              ELSE [Under(p) EXCEPT ![Depth(p) - 1] = Resumed(@, ok)]]

\* A caller has its result.
Finish(p) == stack' = [stack EXCEPT ![p] = <<>>]

\* Some process is in this call, and past these points.
InCall(call, before) ==
  \E p \in Procs : \E i \in 1..Depth(p) :
    stack[p][i].call = call /\ stack[p][i].at \notin before

\* SessionContext.recovery and TreeContext.recovery are held.
SessionLocked == InCall("reauthenticate", {"lock"})
ShareLocked == InCall("reconnect", {"lock"})

\* SessionContext.recovering and TreeContext.recovering.
SessionRecovering == InCall("reauthenticate", {"lock", "replay", "replaying", "done"})
ShareRecovering == ShareLocked

\* Permits of the recovery slots that spawned tasks hold.
Spawned(call) ==
  Cardinality(UNION {{p} \X {i \in 1..Depth(p) : stack[p][i].call = call /\ stack[p][i].spawned}
                       : p \in Procs})

Active(object) == object # 0 /\ objects[object].phase = "active"

\* The runtime accepts a request that depends on this session object.
Admits(object) == conn.up /\ Active(object)

-----------------------------------------------------------------------------
(* SessionContext::reauthenticate.                                         *)

local == <<conn, session, objects, invalid, keys, share>>
remote == <<sessions, trees, issued, expired, dropping>>

ReauthenticateCall(expected, spawned) ==
  [call |-> "reauthenticate", at |-> "lock", spawned |-> spawned, expected |-> expected,
   generation |-> 0, same |-> FALSE, attempt |-> 1, id |-> 0, object |-> 0]

Reauthentication(p, at) == At(p, "reauthenticate", at)

\* The mutex is taken.  Another future may have replaced the session already.
ReauthLock(p) ==
  /\ Reauthentication(p, "lock") /\ ~SessionLocked
  /\ IF session.id # Top(p).expected
     THEN Return(p, TRUE)
     ELSE Become(p, [Top(p) EXCEPT !.at = "begin", !.generation = conn.generation,
                       !.same = objects[session.object].generation = conn.generation])
  /\ UNCHANGED <<local, remote, todo>>

\* Whether the generation this call works for is still the current one.
RuntimeLives(p) == conn.up /\ Top(p).generation = conn.generation

\* begin_object_recovery, which fails on an object that is not active, and
\* reset_preauth_to_negotiate.
ReauthBegin(p) ==
  /\ Reauthentication(p, "begin")
  /\ IF RuntimeLives(p) /\ (Top(p).same => Active(session.object))
     THEN /\ objects' = IF Top(p).same
                        THEN [objects EXCEPT ![session.object].phase = "recovering"] ELSE objects
          /\ Goto(p, "setup")
     ELSE Return(p, FALSE) /\ UNCHANGED objects
  /\ UNCHANGED <<conn, session, invalid, keys, share, remote, todo>>

\* One bounded SessionSetup succeeds, on whichever generation is current.
ReauthSetup(p) ==
  /\ Reauthentication(p, "setup") /\ conn.up
  /\ issued' = issued + 1
  /\ sessions' = sessions \cup {issued'}
  /\ Become(p, [Top(p) EXCEPT !.at = "publish", !.id = issued'])
  /\ UNCHANGED <<local, trees, expired, dropping, todo>>

\* It fails or times out.
ReauthSetupFails(p) ==
  /\ Reauthentication(p, "setup")
  /\ Become(p, IF Top(p).attempt < MaxAttempts
               THEN [Top(p) EXCEPT !.attempt = @ + 1]
               ELSE [Top(p) EXCEPT !.at = "fail"])
  /\ UNCHANGED <<local, remote, todo>>

\* Mutant of ReauthFail: the object is active again, as before the attempt.
FailReactivates(p) ==
  /\ Reauthentication(p, "fail")
  /\ objects' = IF Top(p).same /\ RuntimeLives(p)
                THEN [objects EXCEPT ![session.object].phase = "active"] ELSE objects
  /\ Return(p, FALSE)
  /\ UNCHANGED <<conn, session, invalid, keys, share, remote, todo>>

\* fail_object_recovery, whose own failure is ignored.
ReauthFail(p) ==
  /\ Reauthentication(p, "fail")
  /\ objects' = IF Top(p).same /\ RuntimeLives(p)
                THEN [objects EXCEPT ![session.object].phase = "failed"] ELSE objects
  /\ Return(p, FALSE)
  /\ UNCHANGED <<conn, session, invalid, keys, share, remote, todo>>

NewObject(p) == [generation |-> conn.generation, phase |-> "active", id |-> Top(p).id]

\* On the same generation the session object gets a new epoch; otherwise
\* Channel::new makes an object on the current generation.
ReauthPublish(p) ==
  /\ Reauthentication(p, "publish")
  /\ IF IF Top(p).same THEN RuntimeLives(p) ELSE conn.up
     THEN /\ objects' = Append(IF Top(p).same
                               THEN [objects EXCEPT ![session.object].phase = "stale"] ELSE objects,
                               NewObject(p))
          /\ Become(p, [Top(p) EXCEPT !.at = "store", !.object = Len(objects')])
     ELSE Return(p, FALSE) /\ UNCHANGED objects
  /\ UNCHANGED <<conn, session, invalid, keys, share, remote, todo>>

ReauthStore(p) ==
  /\ Reauthentication(p, "store")
  /\ session' = [id |-> Top(p).id, object |-> Top(p).object]
  /\ Goto(p, "invalidate")
  /\ UNCHANGED <<conn, objects, invalid, keys, share, remote, todo>>

\* The old SessionInfo is invalidated and forgotten; the flag falls.
ReauthInvalidate(p) ==
  /\ Reauthentication(p, "invalidate")
  /\ invalid' = invalid \cup {Top(p).expected}
  /\ Goto(p, "replay")
  /\ UNCHANGED <<conn, session, objects, keys, share, remote, todo>>

ReconnectCall(spawned) ==
  [call |-> "reconnect", at |-> "lock", spawned |-> spawned, session |-> 0, attempt |-> 1,
   id |-> 0, tree |-> 0, object |-> 0]

\* recover_shares, with the session's mutex still held.
ReauthReplay(p) ==
  /\ Reauthentication(p, "replay")
  /\ IF share # NoShare THEN Enter(p, "replaying", ReconnectCall(FALSE)) ELSE Return(p, TRUE)
  /\ UNCHANGED <<local, remote, todo>>

ReauthDone(p) ==
  /\ Reauthentication(p, "done")
  /\ Return(p, TRUE)
  /\ UNCHANGED <<local, remote, todo>>

Reauthenticate(p) ==
  \/ ReauthLock(p) \/ ReauthBegin(p) \/ ReauthSetup(p) \/ ReauthSetupFails(p)
  \/ ReauthFail(p) \/ ReauthPublish(p) \/ ReauthStore(p) \/ ReauthInvalidate(p) \/ ReauthReplay(p) \/ ReauthDone(p)

-----------------------------------------------------------------------------
(* ConnectionCore::recover_session and, in the recovery task,              *)
(* recover_sessions: reauthenticate, then move the registry's key.         *)

RecoverCall(previous) ==
  [call |-> "recover", at |-> "find", spawned |-> FALSE, previous |-> previous, id |-> 0]

\* recover_sessions takes the session it finds; recover_session looks for
\* the one it was told is gone.
RecoverFind(p) ==
  /\ At(p, "recover", "find")
  /\ IF p = Task \/ (keys # {} /\ session.id = Top(p).previous)
     THEN stack' = [stack EXCEPT ![p] =
                      Under(p) \o <<[Top(p) EXCEPT !.at = "registering", !.previous = session.id],
                                    ReauthenticateCall(session.id, FALSE)>>]
     ELSE Return(p, FALSE)
  /\ UNCHANGED <<local, remote, todo>>

RecoverRegister(p) ==
  /\ At(p, "recover", "register")
  /\ keys' = (keys \ {Top(p).previous}) \cup {Top(p).id}
  /\ Return(p, TRUE)
  /\ UNCHANGED <<conn, session, objects, invalid, share, remote, todo>>

\* The connection was replaced: the recovery task restores its sessions.
RestoreSessions ==
  /\ stack[Task] = <<>> /\ ~conn.up
  /\ conn' = [conn EXCEPT !.generation = @ + 1, !.up = TRUE]
  /\ stack' = [stack EXCEPT ![Task] = <<RecoverCall(0)>>]
  /\ UNCHANGED <<session, objects, invalid, keys, share, remote, todo>>

RecoverEnds(p) == At(p, "recover", "end") /\ Return(p, FALSE) /\ UNCHANGED <<local, remote, todo>>

Recover(p) == RecoverFind(p) \/ RecoverRegister(p) \/ RecoverEnds(p)

-----------------------------------------------------------------------------
(* A request on the wire.                                                  *)

\* ChannelContext::execute: the current channel stamps its session id and
\* refuses if its session was invalidated.
SessionAdmits == Admits(session.object) /\ session.id \notin invalid
SentOnSession(p) == [Top(p) EXCEPT !.at = "sent", !.id = session.id]

\* The server no longer knows the session: recover it, then report the error.
ToldSessionIsGone(p) ==
  /\ Top(p).id \notin sessions /\ conn.up
  /\ Enter(p, "recovering", RecoverCall(Top(p).id))

-----------------------------------------------------------------------------
(* TreeContext::reconnect.                                                 *)

Reconnection(p, at) == At(p, "reconnect", at)

ReconnectLock(p) ==
  /\ Reconnection(p, "lock") /\ ~ShareLocked
  /\ CASE share.closed -> Return(p, FALSE)
       [] ~share.closed /\ share.session = session.object -> Return(p, TRUE)
       [] OTHER -> Become(p, [Top(p) EXCEPT !.at = "send", !.session = session.object])
  /\ UNCHANGED <<local, remote, todo>>

ReconnectSend(p) ==
  /\ Reconnection(p, "send")
  /\ IF SessionAdmits THEN Become(p, SentOnSession(p)) ELSE Goto(p, "retry")
  /\ UNCHANGED <<local, remote, todo>>

\* The server connects the tree.
ReconnectAnswered(p) ==
  /\ Reconnection(p, "sent")
  /\ \/ /\ Top(p).id \in sessions
        /\ trees' = trees \cup {Top(p).id}
        /\ Become(p, [Top(p) EXCEPT !.at = "object", !.tree = Top(p).id])
     \/ ToldSessionIsGone(p) /\ UNCHANGED trees
     \/ Goto(p, "retry") /\ UNCHANGED trees
  /\ UNCHANGED <<local, sessions, issued, expired, dropping, todo>>

\* create_child_object_on_current_session.
ReconnectObject(p) ==
  /\ Reconnection(p, "object")
  /\ Become(p, IF Admits(session.object)
               THEN [Top(p) EXCEPT !.at = "check", !.object = session.object]
               ELSE [Top(p) EXCEPT !.at = "retry"])
  /\ UNCHANGED <<local, remote, todo>>

Attempting == {"send", "sent", "object", "recovering"}

\* Mutant of ReconnectTimesOut: the attempt is not bounded while it waits
\* for the session to be recovered.
TimesOutUnlessRecovering(p) ==
  /\ \E i \in 1..Depth(p) :
       /\ stack[p][i].call = "reconnect" /\ stack[p][i].at \in Attempting \ {"recovering"}
       /\ stack' = [stack EXCEPT ![p] = Append(SubSeq(@, 1, i - 1), [@[i] EXCEPT !.at = "retry"])]
  /\ UNCHANGED <<local, remote, todo>>

\* run_bounded_attempt: the attempt is dropped with every call it is in.
ReconnectTimesOut(p) ==
  /\ \E i \in 1..Depth(p) :
       /\ stack[p][i].call = "reconnect" /\ stack[p][i].at \in Attempting
       /\ stack' = [stack EXCEPT ![p] = Append(SubSeq(@, 1, i - 1), [@[i] EXCEPT !.at = "retry"])]
  /\ UNCHANGED <<local, remote, todo>>

ReconnectRetry(p) ==
  /\ Reconnection(p, "retry")
  /\ IF Top(p).attempt < MaxAttempts
     THEN Become(p, [Top(p) EXCEPT !.at = "send", !.attempt = @ + 1])
     ELSE Return(p, FALSE)
  /\ UNCHANGED <<local, remote, todo>>

\* The share may have been closed meanwhile.
ReconnectCheck(p) ==
  /\ Reconnection(p, "check")
  /\ IF share.closed THEN Return(p, FALSE) ELSE Goto(p, "store")
  /\ UNCHANGED <<local, remote, todo>>

\* Mutant of ReconnectStore: the candidate is filed under the session that is
\* current now, not the one read before the tree was connected.
StoreUnderLatest(p) ==
  /\ Reconnection(p, "store")
  /\ share' = [share EXCEPT !.tree = Top(p).tree, !.session = session.object,
                            !.object = Top(p).object, !.replayed = TRUE]
  /\ Return(p, TRUE)
  /\ UNCHANGED <<conn, session, objects, invalid, keys, remote, todo>>

ReconnectStore(p) ==
  /\ Reconnection(p, "store")
  /\ share' = [share EXCEPT !.tree = Top(p).tree, !.session = Top(p).session,
                            !.object = Top(p).object, !.replayed = TRUE]
  /\ Return(p, TRUE)
  /\ UNCHANGED <<conn, session, objects, invalid, keys, remote, todo>>

Reconnect(p) ==
  \/ ReconnectLock(p) \/ ReconnectSend(p) \/ ReconnectAnswered(p) \/ ReconnectObject(p)
  \/ ReconnectTimesOut(p) \/ ReconnectRetry(p) \/ ReconnectCheck(p) \/ ReconnectStore(p)

-----------------------------------------------------------------------------
(* The two gates: a caller passes if the session (the share) is current,   *)
(* and otherwise spawns a task that recovers it and waits for the task.    *)

\* wait_for_reauthentication.
SessionGate(p, passed, gated) ==
  CASE ~SessionRecovering /\ objects[session.object].generation = conn.generation ->
         Goto(p, passed)
    [] (SessionRecovering \/ objects[session.object].generation # conn.generation)
       /\ Spawned("reauthenticate") < Slots ->
         Enter(p, gated, ReauthenticateCall(session.id, TRUE))
    [] OTHER -> Finish(p)

\* wait_for_reconnect.
ShareGate(p) ==
  CASE ~ShareRecovering /\ share.session = session.object -> Goto(p, "load")
    [] (ShareRecovering \/ share.session # session.object) /\ Spawned("reconnect") < Slots ->
         Enter(p, "gated", ReconnectCall(TRUE))
    [] OTHER -> Finish(p)

\* The deadline or the cancellation of a wait: the task it spawned goes on.
WaitEndsEarly(p) ==
  /\ p \in Impatient
  /\ \E i \in 2..Depth(p) :
       /\ stack[p][i].spawned
       /\ stack' = [stack EXCEPT ![p] = SubSeq(@, i, Len(@))]
  /\ UNCHANGED <<local, remote, todo>>

\* The caller's future is dropped anywhere else, and all calls in it.
CallerDrops(p) ==
  /\ p \in Impatient /\ stack[p] # <<>>
  /\ \A i \in 1..Depth(p) : ~stack[p][i].spawned
  /\ stack' = [stack EXCEPT ![p] = <<>>]
  /\ UNCHANGED <<local, remote, todo>>

-----------------------------------------------------------------------------
(* The callers.                                                            *)

Call(kind, at) ==
  [call |-> kind, at |-> at, spawned |-> FALSE, id |-> 0, tree |-> 0, object |-> 0]

\* logoff does nothing on a session that is not ready; disconnect closes the
\* share before anything else, and only the first does more.
Start(p) ==
  /\ p \in todo
  /\ todo' = todo \ {p}
  /\ \E kind \in Calls[p] :
       /\ kind \in {"execute", "disconnect"} => share # NoShare
       /\ kind = "connect" => share = NoShare /\ ~InCall("connect", {})
       /\ share' = IF kind = "disconnect" THEN [share EXCEPT !.closed = TRUE] ELSE share
       /\ stack' = [stack EXCEPT ![p] =
                      IF \/ kind = "logoff" /\ (dropping \/ session.id \in invalid)
                         \/ kind = "disconnect" /\ share.closed
                      THEN <<>>
                      ELSE <<Call(kind, IF kind = "disconnect" THEN "load" ELSE "gate")>>]
       /\ dropping' = (dropping \/ kind = "logoff")
  /\ UNCHANGED <<conn, session, objects, invalid, keys, sessions, trees, issued, expired>>

PassGate(p) ==
  /\ \/ At(p, "execute", "gate") /\ ShareGate(p)
     \/ (At(p, "connect", "gate") \/ At(p, "logoff", "gate")) /\ SessionGate(p, "send", "gated")
     \/ At(p, "connect", "object gate") /\ SessionGate(p, "object", "object gated")
  /\ UNCHANGED <<local, remote, todo>>

\* TreeContext::execute reads the object; disconnect reads one generation.
LoadShare(p) ==
  /\ \/ At(p, "execute", "load")
        /\ Become(p, [Top(p) EXCEPT !.object = share.object, !.at = "prepare"])
     \/ At(p, "disconnect", "load")
        /\ Become(p, [Top(p) EXCEPT !.object = share.object, !.tree = share.tree, !.at = "channel"])
  /\ UNCHANGED <<local, remote, todo>>

\* TreeContext::prepare.
PrepareOnShare(p) ==
  /\ At(p, "execute", "prepare")
  /\ IF share.closed THEN Finish(p)
     ELSE Become(p, [Top(p) EXCEPT !.tree = share.tree, !.at = "channel"])
  /\ UNCHANGED <<local, remote, todo>>

ShareCall(p, at) == At(p, "execute", at) \/ At(p, "disconnect", at)

\* resolve_channel, then ChannelContext::prepare.
ChooseChannel(p) ==
  /\ ShareCall(p, "channel")
  /\ IF session.id \in invalid THEN Finish(p)
     ELSE Become(p, [Top(p) EXCEPT !.id = session.id, !.at = "submit"])
  /\ UNCHANGED <<local, remote, todo>>

\* Mutant of SubmitForShare: the share's object is read again.
SubmitReloaded(p) ==
  /\ ShareCall(p, "submit")
  /\ IF Admits(share.object)
     THEN Become(p, [Top(p) EXCEPT !.at = "sent", !.object = share.object]) ELSE Finish(p)
  /\ UNCHANGED <<local, remote, todo>>

SubmitForShare(p) ==
  /\ ShareCall(p, "submit")
  /\ IF Admits(Top(p).object) THEN Goto(p, "sent") ELSE Finish(p)
  /\ UNCHANGED <<local, remote, todo>>

ShareAnswered(p) ==
  /\ ShareCall(p, "sent")
  /\ \/ /\ Top(p).id \in sessions
        /\ trees' = IF Top(p).call = "disconnect" /\ Top(p).tree = Top(p).id
                    THEN trees \ {Top(p).tree} ELSE trees
        /\ Finish(p)
     \/ ToldSessionIsGone(p) /\ UNCHANGED trees
     \/ Finish(p) /\ UNCHANGED trees
  /\ UNCHANGED <<local, sessions, issued, expired, dropping, todo>>

SendForSession(p) ==
  /\ At(p, "connect", "send") \/ At(p, "logoff", "send")
  /\ IF SessionAdmits THEN Become(p, SentOnSession(p)) ELSE Finish(p)
  /\ UNCHANGED <<local, remote, todo>>

ConnectAnswered(p) ==
  /\ At(p, "connect", "sent")
  /\ \/ /\ Top(p).id \in sessions
        /\ trees' = trees \cup {Top(p).id}
        /\ Become(p, [Top(p) EXCEPT !.tree = Top(p).id, !.at = "object gate"])
     \/ ToldSessionIsGone(p) /\ UNCHANGED trees
     \/ Finish(p) /\ UNCHANGED trees
  /\ UNCHANGED <<local, sessions, issued, expired, dropping, todo>>

ConnectObject(p) ==
  /\ At(p, "connect", "object")
  /\ IF Admits(session.object)
     THEN Become(p, [Top(p) EXCEPT !.object = session.object, !.at = "session"])
     ELSE Finish(p)
  /\ UNCHANGED <<local, remote, todo>>

\* The session is read last; the share is published and registered.
ConnectPublish(p) ==
  /\ At(p, "connect", "session")
  /\ share' = [NoShare EXCEPT !.tree = Top(p).tree, !.session = session.object,
                              !.object = Top(p).object]
  /\ Finish(p)
  /\ UNCHANGED <<conn, session, objects, invalid, keys, remote, todo>>

LogoffAnswered(p) ==
  /\ At(p, "logoff", "sent")
  /\ \/ /\ Top(p).id \in sessions
        /\ sessions' = sessions \ {Top(p).id} /\ trees' = trees \ {Top(p).id}
        /\ Goto(p, "invalidate")
     \/ ToldSessionIsGone(p) /\ UNCHANGED <<sessions, trees>>
     \/ Finish(p) /\ UNCHANGED <<sessions, trees>>
  /\ UNCHANGED <<local, issued, expired, dropping, todo>>

\* logoff invalidates whichever session is current by then.
LogoffInvalidate(p) ==
  /\ At(p, "logoff", "invalidate")
  /\ invalid' = invalid \cup {session.id}
  /\ Finish(p)
  /\ UNCHANGED <<conn, session, objects, keys, share, remote, todo>>

CallerSteps(p) ==
  \/ PassGate(p) \/ LoadShare(p) \/ PrepareOnShare(p) \/ ChooseChannel(p) \/ SubmitForShare(p)
  \/ ShareAnswered(p) \/ SendForSession(p) \/ ConnectAnswered(p) \/ ConnectObject(p)
  \/ ConnectPublish(p) \/ LogoffAnswered(p) \/ LogoffInvalidate(p)

-----------------------------------------------------------------------------
(* The server and the connection.                                          *)

\* The server deletes a session, and the trees on it.
ServerDeletesSession ==
  /\ expired < MaxExpiries
  /\ \E id \in sessions :
       /\ sessions' = sessions \ {id}
       /\ trees' = trees \ {id}
  /\ expired' = expired + 1
  /\ UNCHANGED <<local, issued, dropping, stack, todo>>

ConnectionLost ==
  /\ conn.up /\ conn.losses < MaxLosses
  /\ conn' = [conn EXCEPT !.up = FALSE, !.losses = @ + 1]
  /\ objects' = [o \in DOMAIN objects |-> [objects[o] EXCEPT !.phase = "stale"]]
  /\ sessions' = {} /\ trees' = {}
  /\ UNCHANGED <<session, invalid, keys, share, issued, expired, dropping, stack, todo>>

\* A step of the innermost call, or the end of a bounded attempt around it.
Step(p) ==
  /\ stack[p] # <<>>
  /\ CASE Top(p).call = "reauthenticate" -> Reauthenticate(p) \/ ReconnectTimesOut(p)
       [] Top(p).call = "recover" -> Recover(p) \/ ReconnectTimesOut(p)
       [] Top(p).call = "reconnect" -> Reconnect(p)
       [] OTHER -> CallerSteps(p)

SessionNext ==
  \/ \E p \in Procs : Step(p) \/ WaitEndsEarly(p) \/ CallerDrops(p)
  \/ \E p \in Callers : Start(p)
  \/ RestoreSessions \/ ServerDeletesSession \/ ConnectionLost

SessionSpec == SessionInit /\ [][SessionNext]_vars

\* Tokio runs some future that is ready, timers included.
SomeFutureRuns == \E p \in Procs : Step(p)
FairSessionSpec == SessionSpec /\ WF_vars(SomeFutureRuns)

-----------------------------------------------------------------------------
(* Properties.                                                             *)

\* Types, and that a call that may be overtaken holds what it needs.
SessionTypeOK ==
  /\ conn \in [generation : 1..(MaxLosses + 1), up : BOOLEAN, losses : 0..MaxLosses]
  /\ session \in [id : 1..issued, object : 1..Len(objects)]
  /\ \A o \in DOMAIN objects :
       /\ objects[o].generation \in 1..conn.generation
       /\ objects[o].phase \in {"active", "recovering", "failed", "stale"}
  /\ sessions \subseteq 1..issued /\ trees \subseteq sessions
  /\ invalid \subseteq 1..issued /\ keys \subseteq 1..issued
  /\ share \in [tree : 0..issued, session : 0..Len(objects), object : 0..Len(objects),
                closed : BOOLEAN, replayed : BOOLEAN]
  /\ \A p \in Procs : Depth(p) <= 6

\* A share that was reconnected and is filed under the current session has
\* its tree and its object on that session, though the session may be
\* replaced at any await of the reconnect.
RecoveredShareBelongs ==
  share.replayed /\ share.session = session.object =>
    share.tree = session.id /\ share.object = session.object

\* A request the runtime accepted for a share carries the id of the session
\* the share's object belongs to: keys and session id never mix.
AcceptedOnOwnSession ==
  \A p \in Callers :
    ShareCall(p, "sent") => objects[Top(p).object].id = Top(p).id

\* Every call ends, though reauthentication and reconnection wait for each
\* other's mutex, and for their own: a bounded attempt breaks the wait.
CallsEnd == (\E p \in Procs : stack[p] # <<>>) ~> (\A p \in Procs : stack[p] = <<>>)

\* While a session object is being recovered some future recovers it.
RecoveryIsOwned ==
  objects[session.object].phase = "recovering" => SessionRecovering

\* A request is sent to a tree of the session it is sent on.
SentToOwnTree ==
  \A p \in Callers : ShareCall(p, "sent") => Top(p).tree = Top(p).id

\* The share as the resources on it see it.
Cell == INSTANCE ShareCell
          WITH object <- share.object, newest <- Len(objects), closed <- share.closed,
               alive <- {o \in DOMAIN objects : objects[o].phase = "active"}

\* A share never returns to an older object and a refused object is never
\* accepted again, whichever futures recover session and share.
ImplementsCell == Cell!CellSpec
=============================================================================
