------------------------- MODULE SessionRecoveryProofs -------------------------
(***************************************************************************)
(* Proofs about SessionRecovery, for any number of callers, attempts,      *)
(* expiries and lost connections: what a share promises (ShareCell), that  *)
(* a reconnected share belongs to the session it is filed under, and that  *)
(* an accepted request carries the id of its object's session.             *)
(*                                                                         *)
(* SessionSteps has the invariant.  Here are the steps that make objects,  *)
(* have them refused or store them, and what follows for every step.       *)
(***************************************************************************)
EXTENDS SessionSteps

-----------------------------------------------------------------------------
(* Objects come to life, and are refused for good.                         *)

\* Session and share stay.  No object that was refused is accepted again,
\* and those that are belong to the current generation.
Weaker ==
  /\ UNCHANGED <<session, share>> /\ SharedType'
  /\ Len(objects) <= Len(objects')
  /\ \A o \in DOMAIN objects :
       /\ objects'[o].id = objects[o].id
       /\ objects'[o].phase = "active" => objects[o].phase = "active"
  /\ \A o \in DOMAIN objects' :
       /\ objects'[o].generation <= conn'.generation
       /\ objects'[o].phase = "active" => conn'.up /\ objects'[o].generation = conn'.generation

\* What a call relies on survives when objects are only taken away or added.
LEMMA WeakerFrame ==
  ASSUME SharedType, Weaker, NEW fr \in Frame, FrameInv(fr)
  PROVE  FrameInv(fr)'
<1>1. /\ session' = session /\ share' = share /\ session.object \in Nat
      /\ Len(objects) \in Nat /\ DOMAIN objects = 1..Len(objects) /\ session.object <= Len(objects)
  BY DEF SharedType, Weaker
<1>2. \A o \in 0..session.object :
        /\ Active(o)' => Active(o)
        /\ o # 0 => objects'[o].id = objects[o].id
  BY <1>1 DEF Weaker, Active
<1>3. \A o \in 0..session.object : Known(o) => Known(o)'
  BY <1>1, <1>2, ZenonT(40) DEF Known
<1>4. ~Active(session.object) => ~Active(session.object)'
  BY <1>1, <1>2, SMTT(30) DEF Active
<1>5. CASE fr.call = "reauthenticate"
  <2>1. fr \in ReauthFrame /\ ReauthInv(fr)
    BY <1>5, Kinds, ZenonT(40) DEF FrameInv
  <2>2. ASSUME fr.at = "store"
        PROVE  /\ session.object < fr.object /\ fr.object <= Len(objects')
               /\ objects'[fr.object].id = fr.id
    <3>1. fr.object \in Nat /\ session.object < fr.object /\ fr.object <= Len(objects)
      BY <2>1, <2>2, ZenonT(40) DEF ReauthFrame, ReauthInv
    <3>2. fr.object \in DOMAIN objects /\ objects[fr.object].id = fr.id
      BY <1>1, <2>1, <2>2, <3>1, SMTT(30) DEF ReauthInv
    <3>3. Len(objects) <= Len(objects') /\ Len(objects') \in Nat
      BY DEF Weaker, SharedType
    <3>4. fr.object <= Len(objects')
      BY <1>1, <3>1, <3>3, SMTT(30)
    <3> QED BY <3>1, <3>2, <3>4, ZenonT(40) DEF Weaker
  <2>3. ReauthInv(fr)'
    BY <1>1, <1>4, <2>1, <2>2, ZenonT(40) DEF ReauthInv
  <2> QED BY <1>5, <2>3, ZenonT(40) DEF FrameInv
<1>6. CASE fr.call = "reconnect"
  <2>1. fr \in ReconnectFrame /\ ReconnectInv(fr)
    BY <1>6, Kinds, ZenonT(40) DEF FrameInv
  <2>2. fr.at \in {"check", "store"} => Known(fr.object)'
    <3>1. fr.object \in Nat
      BY <2>1, ZenonT(40) DEF ReconnectFrame
    <3>2. Known(fr.object) => fr.object \in 0..session.object
      BY <1>1, <3>1, SMTT(30) DEF Known
    <3> QED BY <1>3, <2>1, <3>2, ZenonT(40) DEF ReconnectInv
  <2>3. ReconnectInv(fr)'
    BY <1>1, <2>1, <2>2, ZenonT(40) DEF ReconnectInv
  <2> QED BY <1>6, <2>3, ZenonT(40) DEF FrameInv
<1>7. CASE fr.call \in CallKinds
  <2>1. fr \in CallFrame /\ fr.object \in Nat
    BY <1>7, Kinds, ZenonT(40) DEF CallFrame
  <2>2. Known(fr.object) => fr.object \in 0..session.object
    BY <1>1, <2>1, SMTT(30) DEF Known
  <2>3. CASE fr.call \in {"execute", "disconnect"}
    <3>1. ShareCallInv(fr)
      BY <2>3, ZenonT(40) DEF FrameInv
    <3>2. fr.at \in {"prepare", "channel", "submit", "sent"} =>
            Known(fr.object)' /\ fr.object \in 0..session.object
      BY <1>3, <2>2, <3>1, ZenonT(40) DEF ShareCallInv
    <3>3. fr.at = "submit" /\ Active(fr.object)' => fr.id = objects'[fr.object].id
      BY <1>2, <3>1, <3>2, ZenonT(40) DEF ShareCallInv, Active
    <3>4. fr.at = "sent" => fr.object # 0 /\ fr.id = objects'[fr.object].id
      BY <1>2, <3>1, <3>2, ZenonT(40) DEF ShareCallInv
    <3>5. ShareCallInv(fr)'
      BY <1>1, <3>1, <3>2, <3>3, <3>4, ZenonT(40) DEF ShareCallInv
    <3> QED BY <2>3, <3>5, ZenonT(40) DEF FrameInv
  <2>4. CASE fr.call = "connect"
    <3>1. ConnectInv(fr)'
      BY <1>1, <1>3, <2>2, <2>4, ZenonT(40) DEF FrameInv, ConnectInv
    <3> QED BY <2>4, <3>1, ZenonT(40) DEF FrameInv
  <2>5. CASE fr.call = "logoff"
    BY <2>5 DEF FrameInv
  <2> QED BY <1>7, <2>3, <2>4, <2>5, ZenonT(40) DEF CallKinds
<1>8. CASE fr.call = "recover"
  BY <1>8, ZenonT(40) DEF FrameInv
<1> QED BY <1>5, <1>6, <1>7, <1>8, Kinds, ZenonT(40)

\* A frame of the next state that agrees with the next state.
LEMMA Lift ==
  ASSUME NEW q, NEW i, NEW fr, fr = stack'[q][i], FrameInv(fr)'
  PROVE  FrameInv(stack[q][i])'
BY ZenonT(40) DEF FrameInv, ReauthInv, ReconnectInv, ShareCallInv, ConnectInv, Known, Active

\* The invariant survives when objects are only taken away or added.
LEMMA WeakerKeeps ==
  ASSUME SessionInv, Weaker, StackInv',
         \A q \in Procs : \A i \in DOMAIN stack'[q] : FrameInv(stack'[q][i])
  PROVE  SessionInv'
<1>1. SharedInv'
  <2>1. /\ session' = session /\ share' = share /\ session.object \in Nat /\ share.object \in Nat
        /\ Len(objects) \in Nat /\ DOMAIN objects = 1..Len(objects) /\ session.object <= Len(objects)
        /\ session.object \in DOMAIN objects
    BY SMTT(30) DEF SessionInv, SharedType, Weaker
  <2>2. Known(share.object)'
    <3>1. Known(share.object) /\ share.object <= session.object
      BY DEF SessionInv, SharedInv, Known
    <3>2. share.object # 0 => share.object \in DOMAIN objects
      BY <2>1, <3>1, SMTT(30)
    <3> QED BY <2>1, <3>1, <3>2 DEF Known, Active, Weaker
  <2>3. \A o \in DOMAIN objects' :
           /\ objects'[o].generation <= conn'.generation
           /\ Active(o)' => conn'.up /\ objects'[o].generation = conn'.generation
    BY ZenonT(40) DEF Weaker, Active
  <2>4. (objects[session.object].id = session.id)'
    BY <2>1 DEF Weaker, SessionInv, SharedInv
  <2> QED BY <2>1, <2>2, <2>3, <2>4, SMTT(30) DEF SessionInv, SharedInv, RecoveredShareBelongs
<1>2. ASSUME NEW q \in Procs, NEW i \in DOMAIN stack'[q] PROVE FrameInv(stack[q][i])'
  <2>1. PICK fr \in Frame : fr = stack'[q][i]
    BY DEF StackInv
  <2>2. FrameInv(fr)
    BY <2>1
  <2>3. FrameInv(fr)'
    BY <2>2, WeakerFrame, ZenonT(40) DEF SessionInv
  <2> QED BY <2>1, <2>3, Lift, ZenonT(40)
<1> QED BY <1>1, <1>2, ZenonT(40) DEF SessionInv, FramesInv, Weaker

\* After a return every frame agrees with the shared state it was in, and
\* none holds what the call that returned held.
LEMMA ReturnFrames ==
  ASSUME SessionInv, NEW p \in Procs, stack[p] # <<>>, NEW ok \in BOOLEAN, Return(p, ok)
  PROVE  /\ StackInv'
         /\ \A q \in Procs : \A i \in DOMAIN stack'[q] :
              /\ stack'[q][i] \in Frame /\ FrameInv(stack'[q][i])
              /\ \A lock \in Locks : Holds(lock, Top(p)) => ~Holds(lock, stack'[q][i])
<1>1. /\ StackInv'
      /\ \A q \in Procs : \A i \in DOMAIN stack'[q] :
              \/ Beside(p, stack'[q][i])
              \/ \E g \in Frame : g.at \in Waiting /\ Beside(p, g) /\ stack'[q][i] = Resumed(g, ok)
  BY Shared, ReturnShape, ZenonT(40)
<1>2. ASSUME NEW q \in Procs, NEW i \in DOMAIN stack'[q]
      PROVE  /\ stack'[q][i] \in Frame /\ FrameInv(stack'[q][i])
             /\ \A lock \in Locks : Holds(lock, Top(p)) => ~Holds(lock, stack'[q][i])
  <2>1. CASE Beside(p, stack'[q][i])
    BY <2>1, Shared, BesideHolds, ZenonT(40)
  <2>2. ASSUME NEW g \in Frame, g.at \in Waiting, Beside(p, g), stack'[q][i] = Resumed(g, ok)
        PROVE  /\ stack'[q][i] \in Frame /\ FrameInv(stack'[q][i])
               /\ \A lock \in Locks : Holds(lock, Top(p)) => ~Holds(lock, stack'[q][i])
    <3>1. FrameInv(g) /\ \A lock \in Locks : Holds(lock, Top(p)) => ~Holds(lock, g)
      BY <2>2, Shared, BesideHolds, ZenonT(40)
    <3>2. /\ Resumed(g, ok) \in Frame /\ FrameInv(Resumed(g, ok))
          /\ \A lock \in Locks : Holds(lock, Resumed(g, ok)) => Holds(lock, g)
      BY <2>2, <3>1, Shared, ResumedFrame, ZenonT(40)
    <3> QED BY <2>2, <3>1, <3>2, ZenonT(40)
  <2> QED BY <1>1, <2>1, <2>2, ZenonT(40)
<1> QED BY <1>1, <1>2, ZenonT(40)

\* The phase of the session's object falls.
LEMMA PhaseFalls ==
  ASSUME SessionInv, UNCHANGED <<conn, session, share, issued>>,
         \/ objects' = objects
         \/ objects' = [objects EXCEPT ![session.object].phase = "recovering"]
         \/ objects' = [objects EXCEPT ![session.object].phase = "failed"]
  PROVE  Weaker
<1>1. /\ objects \in Seq(Object) /\ Len(objects) \in Nat /\ DOMAIN objects = 1..Len(objects)
      /\ session.object \in DOMAIN objects
  BY Shared, SMTT(30) DEF SharedType
<1>2. /\ objects' \in Seq(Object) /\ Len(objects') = Len(objects) /\ DOMAIN objects' = DOMAIN objects
      /\ \A o \in DOMAIN objects :
           /\ objects'[o].id = objects[o].id /\ objects'[o].generation = objects[o].generation
           /\ objects'[o].phase = "active" => objects[o].phase = "active"
  <2>1. CASE objects' = objects
    BY <1>1, <2>1, ZenonT(40)
  <2>2. ASSUME NEW phase \in {"recovering", "failed"},
               objects' = [objects EXCEPT ![session.object].phase = phase]
        PROVE  /\ objects' \in Seq(Object) /\ Len(objects') = Len(objects) /\ DOMAIN objects' = DOMAIN objects
               /\ \A o \in DOMAIN objects :
                    /\ objects'[o].id = objects[o].id /\ objects'[o].generation = objects[o].generation
                    /\ objects'[o].phase = "active" => objects[o].phase = "active"
    <3> DEFINE old == objects[session.object]
               new == [old EXCEPT !.phase = phase]
    <3>1. old \in Object
      BY <1>1, SMTT(30)
    <3>2. new \in Object /\ new.id = old.id /\ new.generation = old.generation /\ new.phase = phase
      BY <3>1, ZenonT(40) DEF Object
    <3>3. objects' = [objects EXCEPT ![session.object] = new]
      BY <1>1, <2>2, ZenonT(40)
    <3> HIDE DEF new
    <3> QED BY <1>1, <3>2, <3>3, SMTT(30)
  <2> QED BY <2>1, <2>2, ZenonT(40)
<1>3. SharedType'
  BY <1>2, Shared, ZenonT(40) DEF SharedType
<1>4. \A o \in DOMAIN objects :
        /\ objects[o].generation <= conn.generation
        /\ objects[o].phase = "active" => conn.up /\ objects[o].generation = conn.generation
  <2>1. \A o \in DOMAIN objects : o # 0
    BY <1>1
  <2> QED BY <2>1, Shared, ZenonT(40) DEF SharedInv, Active
<1> QED BY <1>1, <1>2, <1>3, <1>4, SMTT(30) DEF Weaker
\* begin_object_recovery: the session's object is refused while it is replaced.
LEMMA ReauthBeginKeeps == ASSUME SessionInv, NEW p \in Procs, ReauthBegin(p) PROVE SessionInv'
<1>1. UNCHANGED <<conn, session, share, issued>>
  BY DEF ReauthBegin, remote
<1>2. /\ stack[p] # <<>> /\ Top(p) \in ReauthFrame /\ Top(p).call = "reauthenticate"
      /\ Top(p).at = "begin" /\ ReauthInv(Top(p))
  BY ReauthAt DEF ReauthBegin
<1>3. CASE Return(p, FALSE) /\ UNCHANGED objects
  BY <1>1, <1>2, <1>3, Shared, ReturnQuiet, ZenonT(40) DEF quiet
<1>4. CASE /\ Goto(p, "setup")
           /\ objects' = IF Top(p).same
                         THEN [objects EXCEPT ![session.object].phase = "recovering"] ELSE objects
  <2> DEFINE f == [Top(p) EXCEPT !.at = "setup"]
  <2>1. Become(p, f)
    BY <1>4, ZenonT(40) DEF Goto
  <2>2. f \in ReauthFrame /\ f.at = "setup" /\ f.same = Top(p).same /\ f.call = "reauthenticate"
    BY <1>2, ZenonT(40) DEF ReauthFrame, ReauthPoints
  <2> HIDE DEF f
  <2>3. f \in Frame /\ FrameInv(f)
    BY <1>2, <2>2, ZenonT(40) DEF Frame, FrameInv, ReauthInv
  <2>4. \A lock \in Locks : Holds(lock, f) => Holds(lock, Top(p)) \/ Free(lock)
    BY <1>2, <2>2, ZenonT(40) DEF Holds
  <2>5. /\ StackInv'
        /\ \A q \in Procs : \A i \in DOMAIN stack'[q] : stack'[q][i] = f \/ Beside(p, stack'[q][i])
    BY <1>2, <2>1, <2>3, <2>4, Shared, BecomeShape, ZenonT(40)
  <2>6. \A q \in Procs : \A i \in DOMAIN stack'[q] : FrameInv(stack'[q][i])
    BY <2>3, <2>5, Shared, BesideHolds, ZenonT(40)
  <2>7. Weaker
    BY <1>1, <1>4, PhaseFalls, ZenonT(40)
  <2> QED BY <2>5, <2>6, <2>7, WeakerKeeps, ZenonT(40)
<1> QED BY <1>3, <1>4, ZenonT(40) DEF ReauthBegin

\* fail_object_recovery.
LEMMA ReauthFailKeeps == ASSUME SessionInv, NEW p \in Procs, ReauthFail(p) PROVE SessionInv'
<1>1. UNCHANGED <<conn, session, share, issued>>
  BY DEF ReauthFail, remote
<1>2. stack[p] # <<>>
  BY ReauthAt DEF ReauthFail
<1>3. StackInv' /\ \A q \in Procs : \A i \in DOMAIN stack'[q] : FrameInv(stack'[q][i])
  BY <1>2, ReturnFrames, ZenonT(40) DEF ReauthFail
<1>4. Weaker
  BY <1>1, PhaseFalls, ZenonT(40) DEF ReauthFail
<1> QED BY <1>3, <1>4, WeakerKeeps, ZenonT(40)

\* The connection is lost, and with it every object.
LEMMA ConnectionLostKeeps == ASSUME SessionInv, ConnectionLost PROVE SessionInv'
<1>1. UNCHANGED <<session, share, issued, stack>>
  BY DEF ConnectionLost
<1>2. StackInv' /\ \A q \in Procs : \A i \in DOMAIN stack'[q] : FrameInv(stack'[q][i])
  <2>1. StackInv'
    BY <1>1, Shared, StackSame, ZenonT(40)
  <2> QED BY <1>1, <2>1, Shared, ZenonT(40) DEF FramesInv
<1>3. /\ objects \in Seq(Object) /\ DOMAIN objects = 1..Len(objects) /\ Len(objects) \in Nat
      /\ \A o \in DOMAIN objects : objects[o] \in Object
  BY Shared DEF SharedType
<1>4. objects' = [o \in DOMAIN objects |-> [objects[o] EXCEPT !.phase = "stale"]]
  BY DEF ConnectionLost
<1>5. \A o \in DOMAIN objects :
        /\ objects'[o] \in Object /\ objects'[o].phase = "stale"
        /\ objects'[o].id = objects[o].id /\ objects'[o].generation = objects[o].generation
  BY <1>3, <1>4, ZenonT(40) DEF Object
<1>6. objects' \in Seq(Object) /\ Len(objects') = Len(objects) /\ DOMAIN objects' = DOMAIN objects
  <2>1. objects' \in [1..Len(objects) -> Object]
    BY <1>3, <1>4, <1>5, ZenonT(40)
  <2> QED BY <1>3, <2>1, SMTT(30)
<1>7. /\ conn' \in [generation : Nat, up : BOOLEAN, losses : Nat]
      /\ conn'.generation = conn.generation
  <2>1. conn \in [generation : Nat, up : BOOLEAN, losses : Nat]
    BY Shared DEF SharedType
  <2>2. PICK n \in Nat : n = conn.losses + 1
    BY <2>1
  <2>3. conn' = [conn EXCEPT !.up = FALSE, !.losses = n]
    BY <2>1, <2>2, ZenonT(40) DEF ConnectionLost
  <2> QED BY <2>1, <2>2, <2>3, ZenonT(40)
<1>8. SharedType'
  BY <1>1, <1>6, <1>7, Shared, ZenonT(40) DEF SharedType
<1>9. \A o \in DOMAIN objects : objects[o].generation <= conn.generation
  BY Shared, ZenonT(40) DEF SharedInv
<1>10. Weaker
  BY <1>1, <1>3, <1>5, <1>6, <1>7, <1>8, <1>9, SMTT(30) DEF Weaker
<1> QED BY <1>2, <1>10, WeakerKeeps, ZenonT(40)

\* The connection is replaced.  Nothing was accepted while it was down.
LEMMA RestoreSessionsKeeps == ASSUME SessionInv, RestoreSessions PROVE SessionInv'
<1>1. /\ UNCHANGED <<session, objects, share, issued>> /\ ~conn.up
      /\ conn' = [conn EXCEPT !.generation = @ + 1, !.up = TRUE]
      /\ stack' = [stack EXCEPT ![Task] = <<RecoverCall(0)>>]
  BY DEF RestoreSessions, remote
<1>2. Task \in Procs /\ 0 \in Nat
  BY DEF Procs
<1> DEFINE f == RecoverCall(0)
<1>3. f \in Frame /\ FrameInv(f) /\ \A lock \in Locks : ~Holds(lock, f)
  BY <1>2, Shared, Beginnings, ZenonT(40)
<1>4. stack' = [stack EXCEPT ![Task] = <<f>>]
  BY <1>1
<1> HIDE DEF f
<1>5. /\ StackInv'
      /\ \A q \in Procs : \A i \in DOMAIN stack'[q] : stack'[q][i] = f \/ Beside(Task, stack'[q][i])
  BY <1>2, <1>3, <1>4, Shared, BeginShape, ZenonT(40)
<1>6. \A q \in Procs : \A i \in DOMAIN stack'[q] : FrameInv(stack'[q][i])
  BY <1>2, <1>3, <1>5, Shared, BesideHolds, ZenonT(40)
<1>7. /\ conn' \in [generation : Nat, up : BOOLEAN, losses : Nat]
      /\ conn'.generation = conn.generation + 1 /\ conn.generation \in Nat
  <2>1. conn \in [generation : Nat, up : BOOLEAN, losses : Nat]
    BY Shared DEF SharedType
  <2>2. PICK n \in Nat : n = conn.generation + 1
    BY <2>1, SMTT(30)
  <2>3. conn' = [conn EXCEPT !.generation = n, !.up = TRUE]
    BY <1>1, <2>1, <2>2, ZenonT(40)
  <2> QED BY <2>1, <2>2, <2>3, ZenonT(40)
<1>8. SharedType'
  BY <1>1, <1>7, Shared, ZenonT(40) DEF SharedType
<1>9. \A o \in DOMAIN objects :
        /\ objects[o].generation \in Nat /\ objects[o].generation <= conn.generation
        /\ objects[o].phase # "active"
  <2>1. \A o \in DOMAIN objects : objects[o].generation \in Nat /\ o # 0
    <3>1. objects \in Seq(Object) /\ \A o \in DOMAIN objects : o # 0
      BY Shared, SMTT(30) DEF SharedType
    <3> QED BY <3>1, Shared, ZenonT(40) DEF Object
  <2> QED BY <1>1, <2>1, Shared, ZenonT(40) DEF SharedInv, Active
<1>10. \A o \in DOMAIN objects : objects[o].generation <= conn'.generation
  BY <1>7, <1>9
<1>11. Len(objects) <= Len(objects)
  BY Shared, SMTT(30) DEF SharedType
<1>12. Weaker
  BY <1>1, <1>8, <1>9, <1>10, <1>11, ZenonT(40) DEF Weaker
<1> QED BY <1>5, <1>6, <1>12, WeakerKeeps, ZenonT(40)

\* The session's object is stale, and a new one comes to life after it.
LEMMA ReauthPublishKeeps == ASSUME SessionInv, NEW p \in Procs, ReauthPublish(p) PROVE SessionInv'
<1>1. UNCHANGED <<conn, session, share, issued>>
  BY ZenonT(40) DEF ReauthPublish, remote
<1>2. /\ stack[p] # <<>> /\ Top(p) \in ReauthFrame /\ Top(p).call = "reauthenticate"
      /\ Top(p).at = "publish" /\ ReauthInv(Top(p)) /\ Top(p).id \in Nat
  BY ReauthAt DEF ReauthPublish, ReauthFrame
<1>3. CASE Return(p, FALSE) /\ UNCHANGED objects
  BY <1>1, <1>2, <1>3, Shared, ReturnQuiet, ZenonT(40) DEF quiet
<1>4. CASE ~(Return(p, FALSE) /\ UNCHANGED objects)
  <2> DEFINE old == IF Top(p).same THEN [objects EXCEPT ![session.object].phase = "stale"] ELSE objects
             new == NewObject(p)
             n == Len(objects)
             f == [Top(p) EXCEPT !.at = "store", !.object = Len(objects')]
  <2>1. objects' = Append(old, new) /\ Become(p, f) /\ conn.up
    BY <1>4, ZenonT(40) DEF ReauthPublish, RuntimeLives
  <2>2. /\ objects \in Seq(Object) /\ n \in Nat /\ DOMAIN objects = 1..n
        /\ session.object \in DOMAIN objects /\ conn.generation \in Nat
    BY Shared, SMTT(30) DEF SharedType
  <2>3. /\ old \in Seq(Object) /\ Len(old) = n /\ DOMAIN old = DOMAIN objects
        /\ \A o \in DOMAIN objects :
             /\ old[o].id = objects[o].id /\ old[o].generation = objects[o].generation
             /\ old[o].phase = "active" => objects[o].phase = "active"
        /\ old[session.object].phase # "active"
    <3>1. CASE Top(p).same
      <4> DEFINE was == objects[session.object]
                 is == [was EXCEPT !.phase = "stale"]
      <4>1. was \in Object
        BY <2>2, SMTT(30)
      <4>2. is \in Object /\ is.id = was.id /\ is.generation = was.generation /\ is.phase = "stale"
        BY <4>1 DEF Object
      <4>3. old = [objects EXCEPT ![session.object] = is]
        BY <2>2, <3>1, ZenonT(40)
      <4> HIDE DEF is, old
      <4> QED BY <2>2, <4>2, <4>3, SMTT(30)
    <3>2. CASE ~Top(p).same
      <4>1. objects[session.object].phase # "active"
        BY <1>2, <2>2, <3>2, SMTT(30) DEF ReauthInv, Active
      <4> QED BY <2>2, <3>2, <4>1, ZenonT(40)
    <3> QED BY <3>1, <3>2, ZenonT(40)
  <2>4. /\ new \in Object /\ new.generation = conn.generation /\ new.id = Top(p).id
    BY <1>2, <2>2, ZenonT(40) DEF NewObject, Object
  <2> HIDE DEF old, new, n
  <2>5. /\ objects' \in Seq(Object) /\ Len(objects') = n + 1 /\ objects'[n + 1] = new
        /\ DOMAIN objects' = 1..(n + 1)
        /\ \A o \in 1..n : objects'[o] = old[o]
    BY <2>1, <2>2, <2>3, <2>4, SMTT(30)
  <2>6. f \in ReauthFrame /\ f.at = "store" /\ f.object = n + 1 /\ f.id = Top(p).id
        /\ f.call = "reauthenticate"
    <3>1. PICK m \in Nat : m = Len(objects') /\ m = n + 1
      BY <2>2, <2>5, SMTT(30)
    <3>2. f = [Top(p) EXCEPT !.at = "store", !.object = m]
      BY <3>1, ZenonT(40)
    <3> HIDE DEF f
    <3> QED BY <1>2, <3>1, <3>2, ZenonT(40) DEF ReauthFrame, ReauthPoints
  <2>7. PICK g \in Frame : g = f /\ Become(p, g)
    BY <2>1, <2>6, ZenonT(40) DEF Frame
  <2> HIDE DEF f
  <2>8. \A lock \in Locks : Holds(lock, g) => Holds(lock, Top(p)) \/ Free(lock)
    BY <1>2, <2>6, <2>7, ZenonT(40) DEF Holds
  <2>9. /\ StackInv'
        /\ \A q \in Procs : \A i \in DOMAIN stack'[q] : stack'[q][i] = g \/ Beside(p, stack'[q][i])
    BY <1>2, <2>7, <2>8, Shared, BecomeShape, ZenonT(40)
  <2>10. n \in DOMAIN objects' /\ session.object \in 1..(n + 1) /\ n <= n + 1
        /\ session.object < n + 1 /\ session.object \in 1..n
    BY <2>2, <2>5, SMTT(30)
  <2>11. SharedType'
    BY <1>1, <2>5, <2>10, Shared, ZenonT(40) DEF SharedType
  <2>12. \A o \in DOMAIN objects :
           /\ objects[o].generation <= conn.generation
           /\ objects[o].phase = "active" => conn.up /\ objects[o].generation = conn.generation
    <3>1. \A o \in DOMAIN objects : o # 0
      BY <2>2, SMTT(30)
    <3> QED BY <3>1, Shared, ZenonT(40) DEF SharedInv, Active
  <2>13. Weaker
    <3>1. \A o \in DOMAIN objects :
            /\ objects'[o].id = objects[o].id
            /\ objects'[o].phase = "active" => objects[o].phase = "active"
      BY <2>2, <2>3, <2>5, ZenonT(40)
    <3>2. ASSUME NEW o \in DOMAIN objects'
          PROVE  /\ objects'[o].generation <= conn.generation
                 /\ objects'[o].phase = "active" => conn.up /\ objects'[o].generation = conn.generation
      <4>1. CASE o = n + 1
        BY <2>1, <2>2, <2>4, <2>5, <4>1, SMTT(30)
      <4>2. CASE o # n + 1
        <5>1. o \in DOMAIN objects /\ objects'[o] = old[o]
          BY <2>2, <2>5, <4>2, SMTT(30)
        <5> QED BY <2>3, <2>12, <5>1, ZenonT(40)
      <4> QED BY <4>1, <4>2, ZenonT(40)
    <3> QED BY <1>1, <2>5, <2>10, <2>11, <3>1, <3>2, ZenonT(40) DEF Weaker, n
  <2>14. FrameInv(g)'
    <3>1. ~Active(session.object)'
      BY <1>1, <2>2, <2>3, <2>5, <2>10, ZenonT(40) DEF Active
    <3>2. /\ session'.object < g.object /\ g.object <= Len(objects')
          /\ objects'[g.object].id = g.id /\ g.at = "store" /\ g.call = "reauthenticate"
      BY <1>1, <2>2, <2>4, <2>5, <2>6, <2>7, <2>10, SMTT(30)
    <3> QED BY <3>1, <3>2, ZenonT(40) DEF FrameInv, ReauthInv
  <2>15. ASSUME NEW q \in Procs, NEW i \in DOMAIN stack'[q] PROVE FrameInv(stack[q][i])'
    <3>1. PICK fr \in Frame : fr = stack'[q][i]
      BY <2>9, SMTT(30) DEF StackInv
    <3>2. CASE fr = g
      BY <2>14, <3>1, <3>2, Lift, ZenonT(40)
    <3>3. CASE Beside(p, fr)
      <4>1. FrameInv(fr)
        BY <3>3, Shared, BesideHolds, ZenonT(40)
      <4>2. FrameInv(fr)'
        BY <2>13, <4>1, Shared, WeakerFrame, ZenonT(40)
      <4> QED BY <3>1, <4>2, Lift, ZenonT(40)
    <3> QED BY <2>9, <3>1, <3>2, <3>3, ZenonT(40)
  <2>16. SharedInv'
    <3>1. (objects[session.object].id = session.id)'
      BY <1>1, <2>2, <2>3, <2>5, <2>10, Shared, ZenonT(40) DEF SharedInv
    <3>2. Known(share.object)'
      <4>1. Known(share.object) /\ share.object \in Nat /\ share.object <= session.object
        BY Shared, ZenonT(40) DEF SharedInv, Known, SharedType
      <4>2. share.object # 0 => share.object \in DOMAIN objects
        BY <2>2, <4>1, SMTT(30)
      <4> QED BY <1>1, <2>13, <4>1, <4>2, ZenonT(40) DEF Known, Active, Weaker
    <3>3. \A o \in DOMAIN objects' :
            /\ objects'[o].generation <= conn'.generation
            /\ Active(o)' => conn'.up /\ objects'[o].generation = conn'.generation
      BY <2>13, ZenonT(40) DEF Weaker, Active
    <3> QED BY <1>1, <3>1, <3>2, <3>3, Shared, ZenonT(40) DEF SharedInv, RecoveredShareBelongs
  <2> QED BY <2>9, <2>11, <2>15, <2>16, ZenonT(40) DEF SessionInv, FramesInv
<1> QED BY <1>3, <1>4, ZenonT(40)

\* The new object becomes the session's.  What others know of the session is
\* of an object that is refused by now.
LEMMA ReauthStoreKeeps == ASSUME SessionInv, NEW p \in Procs, ReauthStore(p) PROVE SessionInv'
<1>1. UNCHANGED <<conn, objects, share, issued>>
  BY ZenonT(40) DEF ReauthStore, remote
<1>2. /\ stack[p] # <<>> /\ Top(p) \in ReauthFrame /\ Top(p).call = "reauthenticate"
      /\ Top(p).at = "store" /\ ReauthInv(Top(p)) /\ Top(p).id \in Nat /\ Top(p).object \in Nat
  BY ReauthAt, ZenonT(40) DEF ReauthStore, ReauthFrame
<1>3. /\ session' \in [id : Nat, object : Nat]
      /\ session'.id = Top(p).id /\ session'.object = Top(p).object
  BY <1>2, ZenonT(40) DEF ReauthStore
<1>4. /\ objects \in Seq(Object) /\ Len(objects) \in Nat /\ session.object \in Nat
      /\ DOMAIN objects = 1..Len(objects) /\ session.object # 0
  BY Shared, SMTT(30) DEF SharedType
<1>5. /\ session.object < session'.object /\ session'.object <= Len(objects)
      /\ session'.object \in DOMAIN objects /\ session'.object \in Nat
      /\ objects[session'.object].id = session'.id /\ ~Active(session.object)
  BY <1>2, <1>3, <1>4, SMTT(30) DEF ReauthInv
<1>6. \A o \in Nat : o <= session.object => o <= session'.object /\ o # session'.object
  BY <1>4, <1>5, SMTT(30)
<1>7. \A o \in Nat : Known(o) => Known(o)'
  BY <1>1, <1>5, <1>6, ZenonT(40) DEF Known, Active
<1>8. SharedType'
  BY <1>1, <1>3, <1>4, <1>5, Shared, ZenonT(40) DEF SharedType
<1>9. SharedInv'
  <2>1. Known(share.object)'
    BY <1>1, <1>7, Shared, ZenonT(40) DEF SharedInv, SharedType
  <2>2. share'.session <= session'.object /\ share'.session # session'.object
    <3>1. share.session \in Nat /\ share.session <= session.object
      BY Shared, ZenonT(40) DEF SharedInv, SharedType
    <3> QED BY <1>1, <1>6, <3>1, ZenonT(40)
  <2>3. \A o \in DOMAIN objects :
           /\ objects[o].generation <= conn.generation
           /\ Active(o) => conn.up /\ objects[o].generation = conn.generation
    BY Shared, ZenonT(40) DEF SharedInv
  <2> QED BY <1>1, <1>5, <2>1, <2>2, <2>3, ZenonT(40) DEF SharedInv, RecoveredShareBelongs, Active
<1> DEFINE f == [Top(p) EXCEPT !.at = "invalidate"]
<1>10. Become(p, f)
  BY DEF ReauthStore, Goto
<1>11. f \in ReauthFrame /\ f.at = "invalidate" /\ f.call = "reauthenticate"
  BY <1>2, ZenonT(40) DEF ReauthFrame, ReauthPoints
<1> HIDE DEF f
<1>12. f \in Frame /\ \A lock \in Locks : Holds(lock, f) => Holds(lock, Top(p)) \/ Free(lock)
  BY <1>2, <1>11, ZenonT(40) DEF Frame, Holds
<1>13. /\ StackInv'
       /\ \A q \in Procs : \A i \in DOMAIN stack'[q] : stack'[q][i] = f \/ Beside(p, stack'[q][i])
  BY <1>2, <1>10, <1>12, Shared, BecomeShape, ZenonT(40)
<1>14. ASSUME NEW fr, Beside(p, fr) PROVE FrameInv(fr)'
  <2>1. fr \in Frame /\ FrameInv(fr) /\ ~Holds("session", fr)
    <3>1. "session" \in Locks /\ Holds("session", Top(p))
      BY <1>2, ZenonT(40) DEF Locks, Holds
    <3> QED BY <1>2, <1>14, <3>1, Shared, BesideHolds, ZenonT(40)
  <2>2. CASE fr.call = "reauthenticate"
    BY <2>1, <2>2, ZenonT(40) DEF Holds, FrameInv, ReauthInv
  <2>3. CASE fr.call = "reconnect"
    <3>1. ReconnectInv(fr) /\ fr.session \in Nat /\ fr.object \in Nat
      BY <2>1, <2>3, Kinds, ZenonT(40) DEF FrameInv, ReconnectFrame
    <3>2. fr.session <= session'.object /\ fr.session # session'.object
      BY <1>6, <3>1, ZenonT(40) DEF ReconnectInv
    <3>3. fr.at \in {"check", "store"} => share'.object <= fr.object /\ Known(fr.object)'
      BY <1>1, <1>7, <3>1, ZenonT(40) DEF ReconnectInv
    <3>4. share' # NoShare
      BY <1>1, <3>1, ZenonT(40) DEF ReconnectInv
    <3>5. ReconnectInv(fr)'
      BY <3>2, <3>3, <3>4, ZenonT(40) DEF ReconnectInv
    <3> QED BY <2>3, <3>5, ZenonT(40) DEF FrameInv
  <2>4. CASE fr.call \in CallKinds
    <3>1. fr.object \in Nat
      BY <2>1, <2>4, Kinds, ZenonT(40) DEF CallFrame
    <3>2. CASE fr.call \in {"execute", "disconnect"}
      <4>1. ShareCallInv(fr)'
        BY <1>1, <1>7, <2>1, <3>1, <3>2, ZenonT(40) DEF FrameInv, ShareCallInv, Active
      <4> QED BY <3>2, <4>1, ZenonT(40) DEF FrameInv
    <3>3. CASE fr.call = "connect"
      <4>1. ConnectInv(fr)'
        BY <1>1, <1>7, <2>1, <3>1, <3>3, ZenonT(40) DEF FrameInv, ConnectInv
      <4> QED BY <3>3, <4>1, ZenonT(40) DEF FrameInv
    <3>4. CASE fr.call = "logoff"
      BY <3>4, ZenonT(40) DEF FrameInv
    <3> QED BY <2>4, <3>2, <3>3, <3>4, ZenonT(40) DEF CallKinds
  <2>5. CASE fr.call = "recover"
    BY <2>5, ZenonT(40) DEF FrameInv
  <2> QED BY <2>1, <2>2, <2>3, <2>4, <2>5, Kinds, ZenonT(40)
<1>15. ASSUME NEW q \in Procs, NEW i \in DOMAIN stack'[q] PROVE FrameInv(stack[q][i])'
  <2>1. PICK fr \in Frame : fr = stack'[q][i]
    BY <1>13, SMTT(30) DEF StackInv
  <2>2. CASE fr.call = "reauthenticate" /\ fr.at = "invalidate"
    <3>1. FrameInv(fr)'
      BY <2>2, ZenonT(40) DEF FrameInv, ReauthInv
    <3> QED BY <2>1, <3>1, Lift, ZenonT(40)
  <2>3. CASE Beside(p, fr)
    <3>1. FrameInv(fr)'
      BY <1>14, <2>3, ZenonT(40)
    <3> QED BY <2>1, <3>1, Lift
  <2> QED BY <1>11, <1>13, <2>1, <2>2, <2>3, ZenonT(40)
<1> QED BY <1>8, <1>9, <1>13, <1>15, ZenonT(40) DEF SessionInv, FramesInv

\* The share is published on what the reconnection brought with it, if
\* nothing better was: the mutex keeps others from publishing meanwhile.
LEMMA ReconnectStoreKeeps == ASSUME SessionInv, NEW p \in Procs, ReconnectStore(p) PROVE SessionInv'
<1>1. UNCHANGED <<conn, objects, session, issued>>
  BY ZenonT(40) DEF ReconnectStore, remote
<1>2. /\ stack[p] # <<>> /\ Top(p) \in ReconnectFrame /\ Top(p).call = "reconnect"
      /\ Top(p).at = "store" /\ ReconnectInv(Top(p))
      /\ Top(p).tree \in Nat /\ Top(p).object \in Nat /\ Top(p).session \in Nat
  BY ReconnectAt DEF ReconnectStore, ReconnectFrame
<1>3. /\ share' \in [tree : Nat, session : Nat, object : Nat, closed : BOOLEAN, replayed : BOOLEAN]
      /\ share'.tree = Top(p).tree /\ share'.session = Top(p).session
      /\ share'.object = Top(p).object /\ share'.replayed /\ share'.closed = share.closed
  <2>1. share \in [tree : Nat, session : Nat, object : Nat, closed : BOOLEAN, replayed : BOOLEAN]
    BY Shared, ZenonT(40) DEF SharedType
  <2> QED BY <1>2, <2>1, ZenonT(40) DEF ReconnectStore
<1>4. share' # NoShare
  BY <1>3, SMTT(30) DEF NoShare
<1>5. SharedType'
  BY <1>1, <1>3, Shared, ZenonT(40) DEF SharedType
<1>6. SharedInv'
  <2>1. Known(share.object)' /\ share'.session <= session'.object
    BY <1>1, <1>2, <1>3, ZenonT(40) DEF ReconnectInv, Known, Active
  <2>2. RecoveredShareBelongs'
    BY <1>1, <1>2, <1>3, ZenonT(40) DEF ReconnectInv, RecoveredShareBelongs
  <2> QED BY <1>1, <2>1, <2>2, Shared, ZenonT(40) DEF SharedInv, Active
<1>7. /\ StackInv'
      /\ \A q \in Procs : \A i \in DOMAIN stack'[q] :
           /\ stack'[q][i] \in Frame /\ FrameInv(stack'[q][i])
           /\ \A lock \in Locks : Holds(lock, Top(p)) => ~Holds(lock, stack'[q][i])
  BY <1>2, ReturnFrames, ZenonT(40) DEF ReconnectStore
<1>8. ASSUME NEW q \in Procs, NEW i \in DOMAIN stack'[q] PROVE FrameInv(stack[q][i])'
  <2>1. PICK fr \in Frame : fr = stack'[q][i]
    BY <1>7, ZenonT(40)
  <2>2. FrameInv(fr) /\ ~Holds("share", fr)
    <3>1. "share" \in Locks /\ Holds("share", Top(p))
      BY <1>2, ZenonT(40) DEF Locks, Holds
    <3> QED BY <1>7, <2>1, <3>1, ZenonT(40)
  <2>3. share # NoShare
    BY <1>2, ZenonT(40) DEF ReconnectInv
  <2>4. FrameInv(fr)'
    <3>1. CASE fr.call = "reauthenticate"
      BY <1>1, <2>2, <3>1, ZenonT(40) DEF FrameInv, ReauthInv, Active
    <3>2. CASE fr.call = "reconnect"
      BY <1>1, <1>4, <2>2, <3>2, ZenonT(40) DEF Holds, FrameInv, ReconnectInv
    <3>3. CASE fr.call \in {"execute", "disconnect"}
      BY <1>1, <1>4, <2>2, <3>3, ZenonT(40) DEF FrameInv, ShareCallInv, Known, Active
    <3>4. CASE fr.call = "connect"
      BY <2>2, <2>3, <3>4, ZenonT(40) DEF FrameInv, ConnectInv
    <3>5. CASE fr.call \in {"recover", "logoff"}
      BY <3>5, ZenonT(40) DEF FrameInv
    <3> QED BY <3>1, <3>2, <3>3, <3>4, <3>5, Kinds, ZenonT(40) DEF CallKinds
  <2> QED BY <2>1, <2>4, Lift
<1> QED BY <1>5, <1>6, <1>7, <1>8, ZenonT(40) DEF SessionInv, FramesInv

\* The share is published for the first time: nobody could have used it.
LEMMA ConnectPublishKeeps == ASSUME SessionInv, NEW p \in Procs, ConnectPublish(p) PROVE SessionInv'
<1>1. UNCHANGED <<conn, objects, session, issued>>
  BY ZenonT(40) DEF ConnectPublish, remote
<1>2. /\ stack[p] # <<>> /\ Top(p) \in CallFrame /\ Top(p).call = "connect"
      /\ Top(p).at = "session" /\ FrameInv(Top(p)) /\ Top(p).tree \in Nat /\ Top(p).object \in Nat
  BY CallAt, ZenonT(40) DEF ConnectPublish, CallKinds, CallFrame
<1>3. share = NoShare /\ Known(Top(p).object) /\ session.object \in Nat
  BY <1>2, Shared, ZenonT(40) DEF FrameInv, ConnectInv
<1>4. /\ share' \in [tree : Nat, session : Nat, object : Nat, closed : BOOLEAN, replayed : BOOLEAN]
      /\ share'.session = session.object /\ share'.object = Top(p).object /\ ~share'.replayed
  BY <1>2, <1>3, ZenonT(40) DEF ConnectPublish, NoShare
<1>5. SharedType'
  BY <1>1, <1>4, Shared, ZenonT(40) DEF SharedType
<1>6. SharedInv'
  <2>1. Known(share.object)' /\ share'.session <= session'.object
    BY <1>1, <1>3, <1>4, SMTT(30) DEF Known, Active
  <2>2. RecoveredShareBelongs'
    BY <1>4 DEF RecoveredShareBelongs
  <2> QED BY <1>1, <2>1, <2>2, Shared DEF SharedInv, Active
<1>7. StackInv' /\ \A q \in Procs : \A i \in DOMAIN stack'[q] : Beside(p, stack'[q][i])
  BY Shared, EmptyShape, ZenonT(40) DEF ConnectPublish, Finish
<1>8. ASSUME NEW q \in Procs, NEW i \in DOMAIN stack'[q] PROVE FrameInv(stack[q][i])'
  <2>1. PICK fr \in Frame : fr = stack'[q][i]
    BY <1>7, SMTT(30) DEF StackInv
  <2>2. FrameInv(fr) /\ ~Holds("connect", fr)
    <3>1. "connect" \in Locks /\ Holds("connect", Top(p))
      BY <1>2, ZenonT(40) DEF Locks, Holds
    <3> QED BY <1>2, <1>7, <2>1, <3>1, Shared, BesideHolds, ZenonT(40)
  <2>3. FrameInv(fr)'
    <3>1. CASE fr.call = "reauthenticate"
      BY <1>1, <2>2, <3>1, ZenonT(40) DEF FrameInv, ReauthInv, Active
    <3>2. CASE fr.call = "reconnect"
      BY <1>3, <2>2, <3>2, ZenonT(40) DEF FrameInv, ReconnectInv
    <3>3. CASE fr.call \in {"execute", "disconnect"}
      BY <1>3, <2>2, <3>3, ZenonT(40) DEF FrameInv, ShareCallInv
    <3>4. CASE fr.call = "connect"
      BY <2>2, <3>4, ZenonT(40) DEF Holds
    <3>5. CASE fr.call \in {"recover", "logoff"}
      BY <3>5 DEF FrameInv
    <3> QED BY <3>1, <3>2, <3>3, <3>4, <3>5, Kinds DEF CallKinds
  <2> QED BY <2>1, <2>3, Lift
<1> QED BY <1>5, <1>6, <1>7, <1>8, ZenonT(40) DEF SessionInv, FramesInv

\* A caller begins; disconnect closes the share.
LEMMA StartKeeps == ASSUME SessionInv, NEW p \in Callers, Start(p) PROVE SessionInv'
<1>1. UNCHANGED <<conn, objects, session, issued>> /\ p \in Procs
  BY DEF Start, Procs
<1>2. PICK kind \in Calls[p] :
        /\ kind \in {"execute", "disconnect"} => share # NoShare
        /\ kind = "connect" => share = NoShare /\ ~InCall("connect", {})
        /\ share' = IF kind = "disconnect" THEN [share EXCEPT !.closed = TRUE] ELSE share
        /\ \/ stack' = [stack EXCEPT ![p] = <<>>]
           \/ stack' = [stack EXCEPT ![p] = <<Call(kind, IF kind = "disconnect" THEN "load" ELSE "gate")>>]
  BY ZenonT(40) DEF Start
<1>3. kind \in CallKinds
  BY RecoveryAssumption
<1>4. /\ share \in [tree : Nat, session : Nat, object : Nat, closed : BOOLEAN, replayed : BOOLEAN]
      /\ share' \in [tree : Nat, session : Nat, object : Nat, closed : BOOLEAN, replayed : BOOLEAN]
      /\ share'.session = share.session /\ share'.object = share.object
      /\ share'.replayed = share.replayed /\ share'.tree = share.tree
  <2>1. share \in [tree : Nat, session : Nat, object : Nat, closed : BOOLEAN, replayed : BOOLEAN]
    BY Shared, ZenonT(40) DEF SharedType
  <2> QED BY <1>2, <2>1, ZenonT(40)
<1>5. (share # NoShare => share' # NoShare) /\ (share = NoShare => share' = NoShare)
  <2>1. CASE kind = "disconnect"
    <3>1. share'.closed = TRUE
      BY <1>2, <1>4, <2>1, ZenonT(40)
    <3> QED BY <1>2, <2>1, <3>1, ZenonT(40) DEF NoShare
  <2>2. CASE kind # "disconnect"
    BY <1>2, <2>2, ZenonT(40)
  <2> QED BY <2>1, <2>2, ZenonT(40)
<1>6. SharedType'
  BY <1>1, <1>4, Shared, ZenonT(40) DEF SharedType
<1>7. SharedInv'
  BY <1>1, <1>4, Shared, ZenonT(40) DEF SharedInv, Known, Active, RecoveredShareBelongs
<1>8. ASSUME NEW fr \in Frame, FrameInv(fr) PROVE FrameInv(fr)'
  <2>1. CASE fr.call = "reauthenticate"
    BY <1>1, <1>8, <2>1, ZenonT(40) DEF FrameInv, ReauthInv, Active
  <2>2. CASE fr.call = "reconnect"
    <3>1. ReconnectInv(fr)'
      BY <1>1, <1>4, <1>5, <1>8, <2>2, ZenonT(40) DEF FrameInv, ReconnectInv, Known, Active
    <3> QED BY <2>2, <3>1, ZenonT(40) DEF FrameInv
  <2>3. CASE fr.call \in {"execute", "disconnect"}
    BY <1>1, <1>5, <1>8, <2>3, ZenonT(40) DEF FrameInv, ShareCallInv, Known, Active
  <2>4. CASE fr.call = "connect"
    BY <1>1, <1>5, <1>8, <2>4, ZenonT(40) DEF FrameInv, ConnectInv, Known, Active
  <2>5. CASE fr.call \in {"recover", "logoff"}
    BY <2>5, ZenonT(40) DEF FrameInv
  <2> QED BY <2>1, <2>2, <2>3, <2>4, <2>5, Kinds, ZenonT(40) DEF CallKinds
<1>9. CASE stack' = [stack EXCEPT ![p] = <<>>]
  <2>1. StackInv' /\ \A q \in Procs : \A i \in DOMAIN stack'[q] : Beside(p, stack'[q][i])
    BY <1>1, <1>9, Shared, EmptyShape, ZenonT(40)
  <2>2. ASSUME NEW q \in Procs, NEW i \in DOMAIN stack'[q] PROVE FrameInv(stack[q][i])'
    <3>1. PICK fr \in Frame : fr = stack'[q][i]
      BY <2>1, SMTT(30) DEF StackInv
    <3>2. FrameInv(fr)'
      <4>1. FrameInv(fr)
        BY <1>1, <2>1, <3>1, Shared, BesideHolds, ZenonT(40)
      <4> QED BY <1>8, <4>1, ZenonT(40)
    <3> QED BY <3>1, <3>2, Lift, ZenonT(40)
  <2> QED BY <1>6, <1>7, <2>1, <2>2, ZenonT(40) DEF SessionInv, FramesInv
<1>10. ASSUME NEW at \in {"load", "gate"}, stack' = [stack EXCEPT ![p] = <<Call(kind, at)>>]
       PROVE  SessionInv'
  <2> DEFINE f == Call(kind, at)
  <2>1. f \in CallFrame /\ f.call = kind /\ f.at = at
    BY <1>3, ZenonT(40) DEF Call, CallFrame, CallPoints
  <2>2. stack' = [stack EXCEPT ![p] = <<f>>]
    BY <1>10, ZenonT(40)
  <2> HIDE DEF f
  <2>3. FrameInv(f)'
    BY <1>2, <1>3, <1>5, <2>1, ZenonT(40) DEF FrameInv, ShareCallInv, ConnectInv, CallKinds
  <2>4. kind = "connect" => Free("connect")
    <3>1. \A q \in Procs : stack[q] \in Seq(Frame) /\ DOMAIN stack[q] = 1..Depth(q)
      BY Shared, SMTT(30) DEF StackInv, Depth
    <3> QED BY <1>2, <3>1, ZenonT(40) DEF Free, Holds, InCall
  <2>5. f \in Frame /\ \A lock \in Locks : Holds(lock, f) => Free(lock)
    BY <1>3, <2>1, <2>4, ZenonT(40) DEF Frame, Holds, CallKinds
  <2>6. /\ StackInv'
        /\ \A q \in Procs : \A i \in DOMAIN stack'[q] : stack'[q][i] = f \/ Beside(p, stack'[q][i])
    BY <1>1, <2>2, <2>5, Shared, BeginShape, ZenonT(40)
  <2>7. ASSUME NEW q \in Procs, NEW i \in DOMAIN stack'[q] PROVE FrameInv(stack[q][i])'
    <3>1. PICK fr \in Frame : fr = stack'[q][i]
      BY <2>6, SMTT(30) DEF StackInv
    <3>2. CASE fr = f
      <4>1. FrameInv(fr)'
        BY <1>2, <1>3, <1>5, <2>1, <3>2, ZenonT(40) DEF FrameInv, ShareCallInv, ConnectInv, CallKinds
      <4> QED BY <3>1, <4>1, Lift, ZenonT(40)
    <3>3. CASE Beside(p, fr)
      <4>1. FrameInv(fr)
        BY <1>1, <3>3, Shared, BesideHolds, ZenonT(40)
      <4>2. FrameInv(fr)'
        BY <1>8, <4>1, ZenonT(40)
      <4> QED BY <3>1, <4>2, Lift
    <3> QED BY <2>6, <3>1, <3>2, <3>3, ZenonT(40)
  <2> QED BY <1>6, <1>7, <2>6, <2>7, ZenonT(40) DEF SessionInv, FramesInv
<1> QED BY <1>2, <1>9, <1>10, ZenonT(40)

-----------------------------------------------------------------------------
(* Every step.                                                             *)

\* Every step of a future keeps the invariant.
LEMMA StepKeeps == ASSUME SessionInv, NEW p \in Procs, Step(p) PROVE SessionInv'
<1>1. CASE Reauthenticate(p)
  BY <1>1, ReauthLockKeeps, ReauthBeginKeeps, ReauthSetupKeeps, ReauthSetupFailsKeeps,
     ReauthFailKeeps, ReauthPublishKeeps, ReauthStoreKeeps, ReauthInvalidateKeeps,
     ReauthReplayKeeps, ReauthDoneKeeps, ZenonT(40) DEF Reauthenticate
<1>2. CASE Recover(p)
  BY <1>2, RecoverKeeps, ZenonT(40)
<1>3. CASE Reconnect(p)
  BY <1>3, ReconnectLockKeeps, ReconnectSendKeeps, ReconnectAnsweredKeeps, ReconnectObjectKeeps,
     ReconnectTimesOutKeeps, ReconnectRetryKeeps, ReconnectCheckKeeps, ReconnectStoreKeeps, ZenonT(40)
     DEF Reconnect
<1>4. CASE CallerSteps(p)
  BY <1>4, PassGateKeeps, LoadShareKeeps, PrepareOnShareKeeps, ChooseChannelKeeps,
     SubmitForShareKeeps, ShareAnsweredKeeps, SendForSessionKeeps, ConnectAnsweredKeeps,
     ConnectObjectKeeps, ConnectPublishKeeps, LogoffKeeps, ZenonT(40) DEF CallerSteps
<1>5. CASE ReconnectTimesOut(p)
  BY <1>5, ReconnectTimesOutKeeps
<1> QED BY <1>1, <1>2, <1>3, <1>4, <1>5, ZenonT(40) DEF Step

\* The invariant is inductive, over futures, callers, server and connection.
LEMMA SessionInductive == SessionInv /\ [SessionNext]_vars => SessionInv'
<1> SUFFICES ASSUME SessionInv, [SessionNext]_vars PROVE SessionInv'
  BY ZenonT(40)
<1>1. CASE SessionNext
  BY <1>1, StepKeeps, AbandonKeeps, StartKeeps, RestoreSessionsKeeps, ServerDeletesSessionKeeps,
     ConnectionLostKeeps, ZenonT(40) DEF SessionNext
<1>2. CASE UNCHANGED vars
  <2>1. UNCHANGED quiet /\ issued' \in Nat /\ stack' = stack
    BY <1>2, Shared, ZenonT(40) DEF vars, quiet
  <2>2. StackInv'
    BY <2>1, Shared, StackSame, ZenonT(40)
  <2>3. \A q \in Procs : \A i \in DOMAIN stack'[q] : FrameInv(stack'[q][i])
    BY <2>1, Shared, ZenonT(40) DEF FramesInv
  <2> QED BY <2>1, <2>2, <2>3, Quiet, ZenonT(40)
<1> QED BY <1>1, <1>2, ZenonT(40)

\* It holds with one session object and a share on it or none.
LEMMA SessionInitially == SessionInit => SessionInv
<1> SUFFICES ASSUME SessionInit PROVE SessionInv
  BY ZenonT(40)
<1> DEFINE first == [generation |-> 1, phase |-> "active", id |-> 1]
<1>1. first \in Object /\ first.generation = 1 /\ first.id = 1
  BY DEF Object
<1>2. objects = <<first>>
  BY DEF SessionInit
<1> HIDE DEF first
<1>3. objects \in Seq(Object) /\ Len(objects) = 1 /\ DOMAIN objects = {1} /\ objects[1] = first
  BY <1>1, <1>2, SMTT(30)
<1>4. session.id = 1 /\ session.object = 1 /\ session \in [id : Nat, object : Nat]
  BY DEF SessionInit
<1>5. /\ conn \in [generation : Nat, up : BOOLEAN, losses : Nat]
      /\ conn.generation = 1 /\ conn.up
  <2>1. conn \in [generation : {1}, up : {TRUE}, losses : 0..MaxLosses] /\ MaxLosses \in Nat
    BY RecoveryAssumption, ZenonT(40) DEF SessionInit
  <2>2. 1 \in Nat /\ TRUE \in BOOLEAN /\ 0..MaxLosses \subseteq Nat
    BY <2>1, SMTT(30)
  <2> QED BY <2>1, <2>2, ZenonT(40)
<1>6. /\ share \in [tree : Nat, session : Nat, object : Nat, closed : BOOLEAN, replayed : BOOLEAN]
      /\ share.object \in {0, 1} /\ share.session \in {0, 1} /\ ~share.replayed
  <2>1. CASE share = NoShare
    BY <2>1 DEF NoShare
  <2>2. CASE share = [NoShare EXCEPT !.tree = 1, !.session = 1, !.object = 1]
    BY <2>2, ZenonT(40) DEF NoShare
  <2> QED BY <2>1, <2>2, ZenonT(40) DEF SessionInit
<1>7. SharedType
  BY <1>3, <1>4, <1>5, <1>6, SMTT(30) DEF SessionInit, SharedType
<1>8. SharedInv
  <2>1. Known(share.object) /\ share.session <= session.object
    BY <1>4, <1>6, SMTT(30) DEF Known, Active
  <2>2. \A o \in DOMAIN objects :
          /\ objects[o].generation <= conn.generation
          /\ Active(o) => conn.up /\ objects[o].generation = conn.generation
    BY <1>1, <1>3, <1>5, SMTT(30)
  <2>3. objects[session.object].id = session.id /\ RecoveredShareBelongs
    BY <1>1, <1>3, <1>4, <1>6, ZenonT(40) DEF RecoveredShareBelongs
  <2> QED BY <2>1, <2>2, <2>3, ZenonT(40) DEF SharedInv
<1>9. stack \in [Procs -> Seq(Frame)] /\ \A p \in Procs : stack[p] = <<>> /\ DOMAIN stack[p] = {}
  BY SMTT(30) DEF SessionInit
<1>10. StackInv /\ FramesInv
  BY <1>9, ZenonT(40) DEF StackInv, Nested, Alone, FramesInv
<1> QED BY <1>7, <1>8, <1>10, ZenonT(40) DEF SessionInv

-----------------------------------------------------------------------------
(* The share as the resources see it: every step is one of ShareCell, or   *)
(* leaves the object, the objects that are accepted and closed alone.      *)

\* The objects the runtime accepts.
Alive == {o \in DOMAIN objects : objects[o].phase = "active"}

\* begin_object_recovery, fail_object_recovery and a lost connection only
\* take objects away.
LEMMA CellRevokes ==
  ASSUME UNCHANGED share, DOMAIN objects' = DOMAIN objects, Len(objects') = Len(objects),
         \A o \in DOMAIN objects : objects'[o].phase = "active" => objects[o].phase = "active"
  PROVE  Cell!CellNext
<1>1. Alive' \subseteq Alive
  BY DEF Alive
<1> QED BY <1>1, ZenonT(40) DEF Alive, Cell!CellNext, Cell!Revoke

\* A step that touches neither share nor objects.
LEMMA CellStutters == ASSUME UNCHANGED <<share, objects>> PROVE UNCHANGED Cell!cellVars
BY ZenonT(40) DEF Cell!cellVars

\* reauthenticate takes the session's object away and may bring a newer one.
LEMMA CellReauthenticates ==
  ASSUME SessionInv, NEW p \in Procs, Reauthenticate(p) PROVE [Cell!CellNext]_(Cell!cellVars)
<1>1. /\ objects \in Seq(Object) /\ Len(objects) \in Nat /\ DOMAIN objects = 1..Len(objects)
      /\ session.object \in DOMAIN objects
  BY Shared, SMTT(30) DEF SharedType
<1>2. ASSUME NEW phase \in {"recovering", "failed", "stale"}
      PROVE  /\ [objects EXCEPT ![session.object].phase = phase] \in Seq(Object)
             /\ Len([objects EXCEPT ![session.object].phase = phase]) = Len(objects)
             /\ DOMAIN [objects EXCEPT ![session.object].phase = phase] = DOMAIN objects
             /\ \A o \in DOMAIN objects :
                  [objects EXCEPT ![session.object].phase = phase][o].phase = "active"
                    => objects[o].phase = "active"
  <2> DEFINE old == objects[session.object]
             new == [old EXCEPT !.phase = phase]
             next == [objects EXCEPT ![session.object] = new]
  <2>1. old \in Object
    BY <1>1, SMTT(30)
  <2>2. new \in Object /\ new.phase = phase
    BY <2>1 DEF Object
  <2>3. next = [objects EXCEPT ![session.object].phase = phase]
    BY <1>1, ZenonT(40)
  <2> HIDE DEF new
  <2>4. /\ next \in Seq(Object) /\ Len(next) = Len(objects) /\ DOMAIN next = DOMAIN objects
        /\ \A o \in DOMAIN objects : next[o].phase = "active" => objects[o].phase = "active"
    BY <1>1, <2>2, SMTT(30)
  <2> HIDE DEF next
  <2> QED BY <2>3, <2>4, ZenonT(40)
<1>3. CASE UNCHANGED <<share, objects>>
  BY <1>3, CellStutters, ZenonT(40)
<1>4. ASSUME NEW phase \in {"recovering", "failed", "stale"}, UNCHANGED share,
             objects' = [objects EXCEPT ![session.object].phase = phase]
      PROVE  Cell!CellNext
  BY <1>2, <1>4, CellRevokes, ZenonT(40)
<1>5. CASE ReauthBegin(p)
  BY <1>3, <1>4, <1>5, ZenonT(40) DEF ReauthBegin
<1>6. CASE ReauthFail(p)
  BY <1>3, <1>4, <1>6, ZenonT(40) DEF ReauthFail
<1>7. CASE ReauthPublish(p) /\ objects' # objects
  <2> DEFINE old == IF Top(p).same THEN [objects EXCEPT ![session.object].phase = "stale"] ELSE objects
             new == NewObject(p)
             n == Len(objects)
  <2>1. objects' = Append(old, new) /\ UNCHANGED share
    BY <1>7, ZenonT(40) DEF ReauthPublish
  <2>2. /\ old \in Seq(Object) /\ Len(old) = n /\ DOMAIN old = DOMAIN objects
        /\ \A o \in DOMAIN objects : old[o].phase = "active" => objects[o].phase = "active"
    BY <1>1, <1>2, ZenonT(40)
  <2>3. new.phase = "active"
    BY ZenonT(40) DEF NewObject
  <2> HIDE DEF old, new
  <2>4. /\ Len(objects') = n + 1 /\ DOMAIN objects' = 1..(n + 1) /\ objects'[n + 1] = new
        /\ \A o \in 1..n : objects'[o] = old[o]
    BY <1>1, <2>1, <2>2, SMTT(30)
  <2>5. Alive' = {o \in 1..n : old[o].phase = "active"} \cup {n + 1}
    BY <1>1, <2>3, <2>4, SMTT(30) DEF Alive
  <2>6. {o \in 1..n : old[o].phase = "active"} \in SUBSET Alive
    BY <1>1, <2>2, ZenonT(40) DEF Alive
  <2>7. Cell!Establish
    BY <2>1, <2>4, <2>5, <2>6, ZenonT(40) DEF Alive, Cell!Establish
  <2> QED BY <2>7 DEF Cell!CellNext
<1>8. CASE ReauthPublish(p) /\ objects' = objects
  BY <1>3, <1>8, ZenonT(40) DEF ReauthPublish
<1>9. CASE ~(ReauthBegin(p) \/ ReauthFail(p) \/ ReauthPublish(p))
  BY <1>3, <1>9, ZenonT(40) DEF Reauthenticate, ReauthLock, ReauthSetup, ReauthSetupFails, ReauthStore,
     ReauthInvalidate, ReauthReplay, ReauthDone, local
<1> QED BY <1>5, <1>6, <1>7, <1>8, <1>9, ZenonT(40)

\* TreeContext::reconnect stores an object that is not older.
LEMMA CellReconnects ==
  ASSUME SessionInv, NEW p \in Procs, Reconnect(p) PROVE [Cell!CellNext]_(Cell!cellVars)
<1>1. CASE ReconnectStore(p)
  <2>1. /\ Top(p) \in ReconnectFrame /\ Top(p).at = "store" /\ ReconnectInv(Top(p))
        /\ Top(p).object \in Nat
    BY <1>1, ReconnectAt, ZenonT(40) DEF ReconnectStore, ReconnectFrame
  <2>2. /\ share \in [tree : Nat, session : Nat, object : Nat, closed : BOOLEAN, replayed : BOOLEAN]
        /\ session.object \in Nat /\ session.object <= Len(objects) /\ Len(objects) \in Nat
    BY Shared, SMTT(30) DEF SharedType
  <2>3. share'.object = Top(p).object /\ share'.closed = share.closed /\ UNCHANGED objects
    BY <1>1, <2>2, ZenonT(40) DEF ReconnectStore
  <2>4. share.object <= Top(p).object /\ Top(p).object <= Len(objects) /\ share.object \in Nat
    BY <2>1, <2>2, SMTT(30) DEF ReconnectInv, Known
  <2>5. share'.object \in share.object..Len(objects)
    BY <2>1, <2>2, <2>3, <2>4, SMTT(30)
  <2> QED BY <2>3, <2>5, ZenonT(40) DEF Cell!CellNext, Cell!Publish
<1>2. CASE ~ReconnectStore(p)
  <2>1. UNCHANGED <<share, objects>>
    BY <1>2, ZenonT(40) DEF Reconnect, ReconnectLock, ReconnectSend, ReconnectAnswered, ReconnectObject,
       ReconnectTimesOut, ReconnectRetry, ReconnectCheck, local
  <2> QED BY <2>1, CellStutters, ZenonT(40)
<1> QED BY <1>1, <1>2, ZenonT(40)

\* connect publishes the first object of a share; no other caller touches it.
LEMMA CellCalls ==
  ASSUME SessionInv, NEW p \in Procs, CallerSteps(p) PROVE [Cell!CellNext]_(Cell!cellVars)
<1>1. CASE ConnectPublish(p)
  <2>1. /\ Top(p) \in CallFrame /\ Top(p).at = "session" /\ FrameInv(Top(p))
        /\ Top(p).object \in Nat /\ Top(p).call = "connect"
    BY <1>1, CallAt, ZenonT(40) DEF ConnectPublish, CallKinds, CallFrame
  <2>2. session.object \in Nat /\ session.object <= Len(objects) /\ Len(objects) \in Nat
    BY Shared, SMTT(30) DEF SharedType
  <2>3. share = NoShare /\ Known(Top(p).object)
    BY <2>1, ZenonT(40) DEF FrameInv, ConnectInv
  <2>4. /\ share'.object = Top(p).object /\ share'.closed = share.closed /\ UNCHANGED objects
        /\ share.object = 0
    BY <1>1, <2>3, ZenonT(40) DEF ConnectPublish, NoShare
  <2>5. share'.object \in share.object..Len(objects)
    BY <2>1, <2>2, <2>3, <2>4, SMTT(30) DEF Known
  <2> QED BY <2>4, <2>5, ZenonT(40) DEF Cell!CellNext, Cell!Publish
<1>2. CASE ~ConnectPublish(p)
  <2>1. UNCHANGED <<share, objects>>
    BY <1>2, ZenonT(40) DEF CallerSteps, PassGate, LoadShare, PrepareOnShare, ChooseChannel, SubmitForShare,
       ShareAnswered, SendForSession, ConnectAnswered, ConnectObject, LogoffAnswered,
       LogoffInvalidate, local
  <2> QED BY <2>1, CellStutters
<1> QED BY <1>1, <1>2

\* disconnect closes the share and keeps its object.
LEMMA CellStarts ==
  ASSUME SessionInv, NEW p \in Callers, Start(p) PROVE [Cell!CellNext]_(Cell!cellVars)
<1>1. UNCHANGED objects /\ (UNCHANGED share \/ share' = [share EXCEPT !.closed = TRUE])
  BY ZenonT(40) DEF Start
<1>2. share \in [tree : Nat, session : Nat, object : Nat, closed : BOOLEAN, replayed : BOOLEAN]
  BY Shared, ZenonT(40) DEF SharedType
<1>3. CASE UNCHANGED share
  BY <1>1, <1>3, CellStutters, ZenonT(40)
<1>4. CASE share' = [share EXCEPT !.closed = TRUE]
  BY <1>1, <1>2, <1>4, ZenonT(40) DEF Cell!CellNext, Cell!CloseCell
<1> QED BY <1>1, <1>3, <1>4, ZenonT(40)

\* Every step of the runtime is a step of the promise, or none.
LEMMA CellSteps == SessionInv /\ [SessionNext]_vars => [Cell!CellNext]_(Cell!cellVars)
<1> SUFFICES ASSUME SessionInv, [SessionNext]_vars PROVE [Cell!CellNext]_(Cell!cellVars)
  OBVIOUS
<1>1. ASSUME NEW p \in Procs, Step(p) PROVE [Cell!CellNext]_(Cell!cellVars)
  <2>1. CASE Reauthenticate(p)
    BY <2>1, CellReauthenticates, ZenonT(40)
  <2>2. CASE Reconnect(p)
    BY <2>2, CellReconnects, ZenonT(40)
  <2>3. CASE CallerSteps(p)
    BY <2>3, CellCalls
  <2>4. CASE Recover(p) \/ ReconnectTimesOut(p)
    <3>1. UNCHANGED <<share, objects>>
      BY <2>4, ZenonT(40) DEF Recover, RecoverFind, RecoverRegister, RecoverEnds, ReconnectTimesOut, local
    <3> QED BY <3>1, CellStutters, ZenonT(40)
  <2> QED BY <1>1, <2>1, <2>2, <2>3, <2>4, ZenonT(40) DEF Step
<1>2. ASSUME NEW p \in Callers, Start(p) PROVE [Cell!CellNext]_(Cell!cellVars)
  BY <1>2, CellStarts, ZenonT(40)
<1>3. CASE ConnectionLost
  <2>1. objects \in Seq(Object) /\ Len(objects) \in Nat /\ DOMAIN objects = 1..Len(objects)
        /\ \A o \in DOMAIN objects : objects[o] \in Object
    BY Shared DEF SharedType
  <2>2. UNCHANGED share /\ objects' = [o \in DOMAIN objects |-> [objects[o] EXCEPT !.phase = "stale"]]
    BY <1>3 DEF ConnectionLost
  <2>3. \A o \in DOMAIN objects : objects'[o].phase = "stale" /\ objects'[o] \in Object
    BY <2>1, <2>2, ZenonT(40) DEF Object
  <2>4. DOMAIN objects' = DOMAIN objects /\ Len(objects') = Len(objects)
    <3>1. objects' \in [1..Len(objects) -> Object]
      BY <2>1, <2>2, <2>3, ZenonT(40)
    <3> QED BY <2>1, <3>1, SMTT(30)
  <2> QED BY <2>2, <2>3, <2>4, CellRevokes, ZenonT(40)
<1>4. CASE \/ \E p \in Procs : WaitEndsEarly(p) \/ CallerDrops(p)
           \/ RestoreSessions \/ ServerDeletesSession \/ UNCHANGED vars
  <2>1. UNCHANGED <<share, objects>>
    BY <1>4, ZenonT(40) DEF WaitEndsEarly, CallerDrops, RestoreSessions, ServerDeletesSession, vars, local
  <2> QED BY <2>1, CellStutters, ZenonT(40)
<1> QED BY <1>1, <1>2, <1>3, <1>4, ZenonT(40) DEF SessionNext

\* One session object exists at first, and the share is on it or not connected.
LEMMA CellInitially == SessionInit => Cell!CellInit
<1> SUFFICES ASSUME SessionInit PROVE Cell!CellInit
  OBVIOUS
<1> DEFINE first == [generation |-> 1, phase |-> "active", id |-> 1]
<1>1. first.phase = "active" /\ objects = <<first>>
  BY DEF SessionInit
<1> HIDE DEF first
<1>2. Len(objects) = 1 /\ DOMAIN objects = {1} /\ objects[1].phase = "active"
  BY <1>1, SMTT(30)
<1>3. Alive = {1}
  BY <1>2, ZenonT(40) DEF Alive
<1>4. share.object \in {0, 1} /\ share.closed = FALSE
  <2>1. CASE share = NoShare
    BY <2>1, ZenonT(40) DEF NoShare
  <2>2. CASE share = [NoShare EXCEPT !.tree = 1, !.session = 1, !.object = 1]
    BY <2>2, ZenonT(40) DEF NoShare
  <2> QED BY <2>1, <2>2, ZenonT(40) DEF SessionInit
<1>5. 0..1 = {0, 1} /\ 1..1 = {1}
  OBVIOUS
<1> QED BY <1>2, <1>3, <1>4, <1>5, ZenonT(40) DEF Alive, Cell!CellInit

-----------------------------------------------------------------------------
(* The theorems.                                                           *)

\* The inductive invariant behind the theorems on session and share.
LEMMA SessionInvariant == SessionSpec => []SessionInv
BY SessionInitially, SessionInductive, PTL DEF SessionSpec

\* A share that a reconnect stored under the session that is still current
\* has its tree and its object on that session, though reauthenticate may
\* have replaced the session at any await of the reconnect.
THEOREM RecoveredSharesBelong == SessionSpec => []RecoveredShareBelongs
<1>1. SessionInv => RecoveredShareBelongs
  BY ZenonT(40) DEF SessionInv, SharedInv
<1> QED BY <1>1, SessionInvariant, PTL

\* TreeContext::execute reads the share's object, ChannelContext::prepare the
\* session id, at different times: a request that was accepted carries the id
\* of the session its object belongs to.
THEOREM RequestsOnOwnSession == SessionSpec => []AcceptedOnOwnSession
<1>1. SessionInv => AcceptedOnOwnSession
  <2> SUFFICES ASSUME SessionInv, NEW p \in Callers, ShareCall(p, "sent")
               PROVE  objects[Top(p).object].id = Top(p).id
    BY ZenonT(40) DEF AcceptedOnOwnSession
  <2>1. ShareCallInv(Top(p)) /\ Top(p).at = "sent"
    BY ShareCallAt, ZenonT(40) DEF Procs
  <2> QED BY <2>1, ZenonT(40) DEF ShareCallInv
<1> QED BY <1>1, SessionInvariant, PTL

\* Session, share and their recoveries implement the promise of ShareCell: a
\* refused object is refused for good, new objects are newer than all before,
\* and the share never goes back to an older object or reopens.
THEOREM SharesImplementCell == SessionSpec => ImplementsCell
BY SessionInvariant, CellInitially, CellSteps, PTL DEF SessionSpec, ImplementsCell, Cell!CellSpec
=============================================================================
