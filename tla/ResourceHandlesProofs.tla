------------------------- MODULE ResourceHandlesProofs -------------------------
(***************************************************************************)
(* Proofs about ResourceHandles, for any number of callers, of reopens and *)
(* of replacements of the share.  What makes a reopen safe is that the     *)
(* share only moves forward: the share an attempt started from is still    *)
(* the current one after the answer, so the share the request went out on, *)
(* which lies between the two, is the same.  What makes a close final is   *)
(* that the server holds one handle at most, and that a reopen needs it.   *)
(***************************************************************************)
EXTENDS ResourceHandles, TLAPS

Creating == {"create", "creating", "validate", "child", "register"}
Closing == {"closing", "close sent"}
Points ==
  {"idle", "create", "creating", "validate", "child", "register", "ensure", "lock", "attempt",
   "reopen", "reopening", "check", "object", "replace", "store", "file id", "submit", "sent",
   "close", "closing", "close sent", "ack", "acked"}
Nexts == {"file id", "submit", "close"}
Kinds == {"idle", "create", "operate", "close", "break"}
Generation == [open : BOOLEAN, fid : Nat, share : Nat]
Frame == [call : Kinds, at : Points, next : Nexts \cup {"idle"}, share : Nat, fid : Nat,
          previous : Generation, attempt : Nat]

HandlesType ==
  /\ object \in Nat /\ newest \in Nat /\ object <= newest /\ alive \subseteq 1..newest
  /\ closed \in BOOLEAN
  /\ asked \in [durable : BOOLEAN, oplock : BOOLEAN]
  /\ resource \in Generation
  /\ slot \in [fid : Nat, share : Nat, level : Nat]
  /\ registered \subseteq Nat
  /\ opened \in Seq(Nat)
  /\ handles \subseteq 1..Len(opened)
  /\ broken \subseteq Nat
  /\ actor \in [Actors -> Frame]
  /\ calling \subseteq Futures
  /\ closes \in Nat /\ closedOk \in BOOLEAN
  /\ actor[Breaks].at \in {"idle", "ack", "acked"}

\* A file id and the share it was opened on.
OpenedOn(fid, share) == fid \in DOMAIN opened /\ opened[fid] = share

\* The opener only creates.  What it is about to publish was opened on the
\* share it is going to be filed under, and the slot has its file id.
OpenerFrame(a) ==
  /\ a.at \in Creating \cup {"idle"}
  /\ a.at \in {"validate", "child", "register"} => OpenedOn(a.fid, a.share)
  /\ a.at = "register" /\ Oplock => slot.fid = a.fid

\* A user that ensures has somewhere to go on.  The share an attempt started
\* from is not newer than the one its request went out on, which is not newer
\* than the current one.  What is about to be stored was opened on the share
\* it is going to be filed under, and can be found.
UserFrame(a) ==
  /\ a.at \notin Creating \cup {"ack", "acked"}
  /\ a.at \in Reopening \cup {"ensure", "lock"} => a.next \in Nexts
  /\ a.at = "reopen" => a.share # 0 /\ a.share <= object
  /\ a.at = "reopening" => a.share # 0 /\ a.share <= a.fid /\ a.fid <= object
  /\ a.at = "check" =>
       /\ a.fid \in DOMAIN opened
       /\ a.share # 0 /\ a.share <= opened[a.fid] /\ opened[a.fid] <= object
  /\ a.at \in {"object", "replace", "store"} => OpenedOn(a.fid, a.share)
  /\ a.at = "store" /\ Oplock => a.fid \in registered

\* Until the opener publishes it there is no resource, and nobody uses it.
Unpublished ==
  /\ resource.fid = 0 => resource = NoResource
  /\ Opener \in calling => actor[Opener] = Idle
  /\ Opener \in calling \/ actor[Opener].at \in Creating => resource = NoResource
  /\ Opener \in calling \/ actor[Opener].at \in {"create", "creating"} => handles = {}
  /\ resource = NoResource =>
       (\A u \in Users : actor[u].at = "idle") /\ closes = 0 /\ closedOk = FALSE

\* What is published; PublishedHandle in a form that names the domain.
Published ==
  resource # NoResource =>
    OpenedOn(resource.fid, resource.share) /\ (Oplock => resource.fid \in registered)

\* The server holds at most one handle.  One caller at most closes it, and
\* whoever closes found the resource open.
OneClose ==
  /\ \A f, g \in handles : f = g
  /\ closedOk => handles = {}
  /\ closes <= 1
  /\ \A u, v \in Users : actor[u].at \in Closing /\ actor[v].at \in Closing => u = v
  /\ resource.open => closes = 0 /\ \A u \in Users : actor[u].at \notin Closing
  /\ \A u \in Users : actor[u].at = "closing" => closes = 0

HandlesInv ==
  /\ HandlesType /\ Unpublished /\ Published /\ OneClose
  /\ OpenerFrame(actor[Opener])
  /\ \A u \in Users : UserFrame(actor[u])

-----------------------------------------------------------------------------
(* Steps that only move one future.                                        *)

\* Everything but what a future is doing.
still == <<asked, resource, slot, registered, opened, handles, broken, calling, closes, closedOk,
           object, alive, newest, closed>>

\* A future that calls nothing has a frame that is in order.
LEMMA IdleFrame == Idle \in Frame /\ Idle.at = "idle" /\ UserFrame(Idle) /\ OpenerFrame(Idle)
<1>1. Idle \in Frame /\ Idle.at = "idle"
  BY DEF Idle, Frame, Points, Kinds, Generation, NoResource
<1> QED BY <1>1, ZenonT(40) DEF UserFrame, OpenerFrame, Creating, Reopening, Attempt

\* A future that moves leaves the others where they are.
LEMMA Moved ==
  ASSUME NEW u \in Actors, NEW f \in Frame, actor \in [Actors -> Frame], Now(u, f)
  PROVE  /\ actor' \in [Actors -> Frame]
         /\ actor'[u] = f
         /\ \A v \in Actors \ {u} : actor'[v] = actor[v]
BY DEF Now

\* Opener, break handler and users are different futures.
LEMMA Distinct == Opener \in Actors /\ Breaks \in Actors /\ Opener # Breaks
                  /\ Users \subseteq Actors /\ Opener \notin Users /\ Breaks \notin Users
BY HandlesAssumption, ZenonT(40) DEF Actors, Futures, Opener, Breaks

\* A user that moves to a frame that is in order, and does not begin to close.
LEMMA UserMoves ==
  ASSUME HandlesInv, NEW u \in Users, actor[u].at # "idle",
         NEW f \in Frame, UserFrame(f), f.at \notin Closing, Now(u, f), UNCHANGED still
  PROVE  HandlesInv'
<1>1. /\ actor' \in [Actors -> Frame] /\ actor'[u] = f
      /\ \A v \in Actors \ {u} : actor'[v] = actor[v]
  BY Moved, Distinct, ZenonT(40) DEF HandlesInv, HandlesType
<1>2. HandlesType'
  BY <1>1, Distinct, ZenonT(40) DEF HandlesInv, HandlesType, still
<1>3. Unpublished'
  BY <1>1, Distinct, ZenonT(40) DEF HandlesInv, Unpublished, still
<1>4. Published'
  BY ZenonT(40) DEF HandlesInv, Published, OpenedOn, Oplock, still
<1>5. OneClose'
  BY <1>1, Distinct, ZenonT(40) DEF HandlesInv, OneClose, Closing, still
<1>6. OpenerFrame(actor[Opener])'
  BY <1>1, Distinct, ZenonT(40) DEF HandlesInv, OpenerFrame, OpenedOn, Oplock, still
<1>7. \A v \in Users : UserFrame(actor[v])'
  BY <1>1, Distinct, ZenonT(40) DEF HandlesInv, UserFrame, OpenedOn, Oplock, still
<1> QED BY <1>2, <1>3, <1>4, <1>5, <1>6, <1>7, ZenonT(40) DEF HandlesInv

\* The opener moves on, or gives up.
LEMMA OpenerMoves ==
  ASSUME HandlesInv, actor[Opener].at \in Creating, Opener \notin calling,
         NEW f \in Frame, OpenerFrame(f), Now(Opener, f), UNCHANGED still,
         f.at \in {"create", "creating"} => actor[Opener].at \in {"create", "creating"}
  PROVE  HandlesInv'
<1>1. /\ actor' \in [Actors -> Frame] /\ actor'[Opener] = f
      /\ \A v \in Actors \ {Opener} : actor'[v] = actor[v]
  BY Moved, Distinct, ZenonT(40) DEF HandlesInv, HandlesType
<1>2. HandlesType'
  BY <1>1, Distinct, ZenonT(40) DEF HandlesInv, HandlesType, still
<1>3. Unpublished'
  BY <1>1, Distinct, ZenonT(40) DEF HandlesInv, Unpublished, still
<1>4. Published'
  BY ZenonT(40) DEF HandlesInv, Published, OpenedOn, Oplock, still
<1>5. OneClose'
  BY <1>1, Distinct, ZenonT(40) DEF HandlesInv, OneClose, still
<1>6. OpenerFrame(actor[Opener])'
  BY <1>1, Distinct, ZenonT(40) DEF HandlesInv, OpenerFrame, OpenedOn, Oplock, still
<1>7. \A v \in Users : UserFrame(actor[v])'
  BY <1>1, Distinct, ZenonT(40) DEF HandlesInv, UserFrame, OpenedOn, Oplock, still
<1> QED BY <1>2, <1>3, <1>4, <1>5, <1>6, <1>7, ZenonT(40) DEF HandlesInv

\* A user whose call ends.
LEMMA UserEnds ==
  ASSUME HandlesInv, NEW u \in Users, actor[u].at # "idle", Ends(u), UNCHANGED still
  PROVE  HandlesInv'
BY IdleFrame, UserMoves, ZenonT(40) DEF Ends, Closing

\* A user goes on at another point, at which nothing is asked of its frame.
LEMMA UserGoesOn ==
  ASSUME HandlesInv, NEW u \in Users, actor[u].at # "idle", UNCHANGED still,
         NEW f \in Frame, Now(u, f), f.next = actor[u].next,
         f.at \in {"lock", "attempt"} => f.next \in Nexts,
         f.at \in {"lock", "attempt", "sent"} \cup Nexts
  PROVE  HandlesInv'
<1>1. UserFrame(f) /\ f.at \notin Closing
  BY ZenonT(40) DEF UserFrame, Creating, Closing, Reopening, Attempt, Nexts
<1> QED BY <1>1, UserMoves

\* An attempt fails: there is another one, or the call ends.
LEMMA AttemptFailing ==
  ASSUME HandlesInv, NEW u \in Users, actor[u].at \in Attempt, AttemptFails(u), UNCHANGED still
  PROVE  HandlesInv'
<1>1. actor[u] \in Frame /\ actor[u].at # "idle" /\ actor[u].next \in Nexts
  BY Distinct, ZenonT(40) DEF HandlesInv, HandlesType, UserFrame, Reopening, Attempt
<1>2. CASE Ends(u)
  BY <1>1, <1>2, UserEnds
<1>3. CASE Now(u, [actor[u] EXCEPT !.at = "attempt", !.attempt = @ + 1])
  <2> DEFINE f == [actor[u] EXCEPT !.at = "attempt", !.attempt = @ + 1]
  <2>1. f \in Frame /\ f.at = "attempt" /\ f.next = actor[u].next
    <3>1. actor[u].attempt + 1 \in Nat
      BY <1>1 DEF Frame
    <3> QED BY <1>1, <3>1, ZenonT(40) DEF Frame, Points
  <2> HIDE DEF f
  <2> QED BY <1>1, <1>3, <2>1, UserGoesOn, ZenonT(40) DEF f
<1> QED BY <1>2, <1>3 DEF AttemptFails

-----------------------------------------------------------------------------
(* The steps of a user that ensures.                                       *)

\* A user at one of the points of its calls, and what the invariant says of it.
LEMMA UserAt ==
  ASSUME HandlesInv, NEW u \in Futures,
         actor[u].at \in Points \ (Creating \cup {"idle", "ack", "acked"})
  PROVE  /\ u \in Users /\ u \in Actors /\ actor[u] \in Frame /\ UserFrame(actor[u])
         /\ resource # NoResource /\ resource \in Generation /\ object \in Nat
BY Distinct, ZenonT(40) DEF HandlesInv, HandlesType, Futures, OpenerFrame, Unpublished

\* The resource is on the current share, or the call has to reopen it.
LEMMA EnsureCurrentKeeps ==
  ASSUME HandlesInv, NEW u \in Futures, EnsureCurrent(u)
  PROVE  HandlesInv'
<1>1. actor[u].at = "ensure" /\ UNCHANGED still
  BY DEF EnsureCurrent, Is, quietly, serverVars, cellVars, still
<1>2. u \in Users /\ actor[u] \in Frame /\ actor[u].next \in Nexts
  BY <1>1, UserAt, ZenonT(40) DEF UserFrame, Points, Creating
<1>3. ASSUME NEW at \in Nexts \cup {"lock"}, Moves(u, at) PROVE HandlesInv'
  <2> DEFINE f == [actor[u] EXCEPT !.at = at]
  <2>1. f \in Frame /\ f.at = at /\ f.next = actor[u].next
    BY <1>2, ZenonT(40) DEF Frame, Points, Nexts
  <2>2. Now(u, f)
    BY <1>3 DEF Moves
  <2> HIDE DEF f
  <2> QED BY <1>1, <1>2, <2>1, <2>2, UserGoesOn, ZenonT(40) DEF Nexts
<1>4. CASE Ends(u)
  BY <1>1, <1>2, <1>4, UserEnds
<1> QED BY <1>2, <1>3, <1>4 DEF EnsureCurrent

\* The recovery lock is taken.
LEMMA EnsureLockKeeps ==
  ASSUME HandlesInv, NEW u \in Futures, EnsureLock(u)
  PROVE  HandlesInv'
<1>1. actor[u].at = "lock" /\ UNCHANGED still
  BY DEF EnsureLock, Is, quietly, serverVars, cellVars, still
<1>2. u \in Users /\ actor[u] \in Frame /\ actor[u].next \in Nexts
  BY <1>1, UserAt, ZenonT(40) DEF UserFrame, Points, Creating
<1> DEFINE f == [actor[u] EXCEPT !.at = "attempt"]
<1>3. f \in Frame /\ f.at = "attempt" /\ f.next = actor[u].next
  BY <1>2, ZenonT(40) DEF Frame, Points
<1>4. Now(u, f)
  BY DEF EnsureLock, Moves
<1> HIDE DEF f
<1> QED BY <1>1, <1>2, <1>3, <1>4, UserGoesOn

\* An attempt finds the resource reopened by another, or starts from the share as it is.
LEMMA AttemptBeginsKeeps ==
  ASSUME HandlesInv, NEW u \in Futures, AttemptBegins(u)
  PROVE  HandlesInv'
<1>1. actor[u].at = "attempt" /\ UNCHANGED still
  BY DEF AttemptBegins, Is, quietly, serverVars, cellVars, still
<1>2. /\ u \in Users /\ actor[u] \in Frame /\ actor[u].next \in Nexts
      /\ resource \in Generation /\ object \in Nat
  BY <1>1, UserAt, ZenonT(40) DEF UserFrame, Points, Creating, Reopening, Attempt
<1>3. CASE AttemptFails(u)
  BY <1>1, <1>2, <1>3, AttemptFailing DEF Attempt
<1>4. CASE Now(u, [actor[u] EXCEPT !.at = actor[u].next, !.attempt = 1])
  <2> DEFINE f == [actor[u] EXCEPT !.at = actor[u].next, !.attempt = 1]
  <2>1. f \in Frame /\ f.at = actor[u].next /\ f.next = actor[u].next
    BY <1>2, ZenonT(40) DEF Frame, Points, Nexts
  <2>2. Now(u, f)
    BY <1>4
  <2> HIDE DEF f
  <2> QED BY <1>1, <1>2, <2>1, <2>2, UserGoesOn, ZenonT(40) DEF Nexts
<1>5. ASSUME NEW share \in ShareOrError, share # 0,
             Now(u, [actor[u] EXCEPT !.at = "reopen", !.share = share, !.previous = resource])
      PROVE  HandlesInv'
  <2> DEFINE f == [actor[u] EXCEPT !.at = "reopen", !.share = share, !.previous = resource]
  <2>1. share \in Nat /\ share <= object
    BY <1>2, <1>5 DEF ShareOrError
  <2>2. f \in Frame /\ f.at = "reopen" /\ f.share = share /\ f.next = actor[u].next
    BY <1>2, <2>1, ZenonT(40) DEF Frame, Points
  <2>3. Now(u, f)
    BY <1>5
  <2> HIDE DEF f
  <2>4. UserFrame(f) /\ f.at \notin Closing
    BY <1>2, <1>5, <2>1, <2>2, ZenonT(40) DEF UserFrame, Creating, Closing
  <2> QED BY <1>1, <1>2, <2>2, <2>3, <2>4, UserMoves
<1> QED BY <1>3, <1>4, <1>5, ZenonT(40) DEF AttemptBegins

\* The CREATE goes out on whichever share is current by then.
LEMMA ReopenSubmitKeeps ==
  ASSUME HandlesInv, NEW u \in Futures, ReopenSubmit(u)
  PROVE  HandlesInv'
<1>1. actor[u].at = "reopen" /\ UNCHANGED still
  BY DEF ReopenSubmit, Is, quietly, serverVars, cellVars, still
<1>2. /\ u \in Users /\ actor[u] \in Frame /\ UserFrame(actor[u]) /\ actor[u].next \in Nexts
      /\ object \in Nat /\ alive \subseteq 1..newest
  BY <1>1, UserAt, ZenonT(40) DEF UserFrame, Points, Creating, Reopening, Attempt, HandlesInv, HandlesType
<1>3. CASE AttemptFails(u)
  BY <1>1, <1>2, <1>3, AttemptFailing DEF Attempt
<1>4. ASSUME NEW share \in ShareOrError, share \in alive,
             Now(u, [actor[u] EXCEPT !.at = "reopening", !.fid = share])
      PROVE  HandlesInv'
  <2> DEFINE f == [actor[u] EXCEPT !.at = "reopening", !.fid = share]
  <2>1. share = object
    BY <1>2, <1>4 DEF ShareOrError
  <2>2. /\ f \in Frame /\ f.at = "reopening" /\ f.fid = share /\ f.share = actor[u].share
        /\ f.next = actor[u].next
    BY <1>2, <2>1, ZenonT(40) DEF Frame, Points
  <2>3. Now(u, f)
    BY <1>4
  <2> HIDE DEF f
  <2>4. UserFrame(f) /\ f.at \notin Closing
    BY <1>1, <1>2, <2>1, <2>2, SMTT(30) DEF UserFrame, Creating, Closing
  <2> QED BY <1>1, <1>2, <2>2, <2>3, <2>4, UserMoves
<1> QED BY <1>3, <1>4, ZenonT(40) DEF ReopenSubmit

\* A file id once given stays that of the share it was opened on.
LEMMA OpensOneMore ==
  ASSUME opened \in Seq(Nat), NEW share \in Nat, opened' = Append(opened, share)
  PROVE  /\ opened' \in Seq(Nat) /\ Len(opened') = Len(opened) + 1
         /\ Len(opened') \in DOMAIN opened' /\ opened'[Len(opened')] = share
         /\ \A f \in DOMAIN opened : f \in DOMAIN opened' /\ opened'[f] = opened[f]
OBVIOUS

\* The server opened a new handle, or did not.
LEMMA ReopenAnsweredKeeps ==
  ASSUME HandlesInv, NEW u \in Futures, ReopenAnswered(u)
  PROVE  HandlesInv'
<1>1. actor[u].at = "reopening" /\ UNCHANGED <<quietly, broken>>
  BY ZenonT(40) DEF ReopenAnswered, Is
<1>2. /\ u \in Users /\ actor[u] \in Frame /\ UserFrame(actor[u]) /\ actor[u].next \in Nexts
      /\ opened \in Seq(Nat) /\ resource # NoResource /\ object \in Nat
  BY <1>1, UserAt, ZenonT(40) DEF UserFrame, Points, Creating, Reopening, Attempt, HandlesInv, HandlesType
<1>3. CASE AttemptFails(u) /\ UNCHANGED <<opened, handles>>
  BY <1>1, <1>2, <1>3, AttemptFailing DEF Attempt, quietly, cellVars, still
<1>4. CASE /\ actor[u].previous.fid \in handles
           /\ opened' = Append(opened, actor[u].fid)
           /\ handles' = (handles \ {actor[u].previous.fid}) \cup {Len(opened')}
           /\ Now(u, [actor[u] EXCEPT !.at = "check", !.fid = Len(opened')])
  <2> DEFINE n == Len(opened) + 1
             f == [actor[u] EXCEPT !.at = "check", !.fid = n]
  <2>1. /\ opened' \in Seq(Nat) /\ Len(opened') = n /\ n \in Nat \ {0}
        /\ n \in DOMAIN opened' /\ opened'[n] = actor[u].fid
        /\ \A g \in DOMAIN opened : g \in DOMAIN opened' /\ opened'[g] = opened[g]
    <3>1. actor[u].fid \in Nat
      BY <1>2 DEF Frame
    <3> QED BY <1>2, <1>4, <3>1, OpensOneMore
  <2>2. /\ actor[u].previous.fid \in handles
        /\ handles' = (handles \ {actor[u].previous.fid}) \cup {n}
    BY <1>4, <2>1
  <2>3. Now(u, f)
    BY <1>4, <2>1
  <2>4. handles' \subseteq 1..Len(opened')
    <3>1. handles \subseteq 1..Len(opened) /\ Len(opened) \in Nat
      BY <1>2, SMTT(30) DEF HandlesInv, HandlesType
    <3>2. \A g \in handles' : g \in 1..n
      BY <2>2, <3>1
    <3>3. Len(opened') = n
      BY <2>1
    <3> QED BY <3>2, <3>3
  <2> HIDE DEF n
  <2>5. /\ f \in Frame /\ f.at = "check" /\ f.fid = n /\ f.share = actor[u].share
        /\ f.next = actor[u].next
    BY <1>2, <2>1, ZenonT(40) DEF Frame, Points
  <2>6. UNCHANGED <<asked, resource, slot, registered, broken, calling, closes, closedOk,
                    object, alive, newest, closed>>
    BY <1>1 DEF quietly, cellVars
  <2> HIDE DEF f
  <2>7. /\ actor' \in [Actors -> Frame] /\ actor'[u] = f
        /\ \A v \in Actors \ {u} : actor'[v] = actor[v]
    BY <1>2, <2>3, <2>5, Moved, Distinct, ZenonT(40) DEF HandlesInv, HandlesType
  <2>8. HandlesType'
    BY <1>2, <2>1, <2>4, <2>6, <2>7, Distinct, ZenonT(40) DEF HandlesInv, HandlesType
  <2>9. Unpublished'
    BY <1>2, <2>6, <2>7, Distinct, ZenonT(40) DEF HandlesInv, Unpublished, OpenerFrame, Creating
  <2>10. Published'
    BY <2>1, <2>6, ZenonT(40) DEF HandlesInv, Published, OpenedOn, Oplock
  <2>11. OneClose'
    <3>1. \A g, h \in handles' : g = h
      BY <2>2, ZenonT(40) DEF HandlesInv, OneClose
    <3>2. closedOk' => handles' = {}
      BY <2>2, <2>6, ZenonT(40) DEF HandlesInv, OneClose
    <3> QED BY <1>2, <2>5, <2>6, <2>7, <3>1, <3>2, Distinct, ZenonT(40) DEF HandlesInv, OneClose, Closing
  <2>12. OpenerFrame(actor[Opener])'
    BY <1>2, <2>1, <2>6, <2>7, Distinct, ZenonT(40) DEF HandlesInv, OpenerFrame, OpenedOn, Oplock
  <2>13. UserFrame(actor[u])'
    BY <1>1, <1>2, <2>1, <2>5, <2>6, <2>7, ZenonT(40) DEF UserFrame, Creating
  <2>14. ASSUME NEW v \in Users, v # u PROVE UserFrame(actor[v])'
    <3>1. UserFrame(actor[v]) /\ actor'[v] = actor[v]
      BY <2>7, <2>14, Distinct, ZenonT(40) DEF HandlesInv
    <3> QED BY <2>1, <2>6, <3>1, ZenonT(40) DEF UserFrame, OpenedOn, Oplock
  <2> QED BY <2>8, <2>9, <2>10, <2>11, <2>12, <2>13, <2>14, ZenonT(40) DEF HandlesInv
<1> QED BY <1>3, <1>4 DEF ReopenAnswered

\* The share is still the one the attempt started from, or the attempt fails.
LEMMA ReopenCheckKeeps ==
  ASSUME HandlesInv, NEW u \in Futures, ReopenCheck(u)
  PROVE  HandlesInv'
<1>1. actor[u].at = "check" /\ UNCHANGED still
  BY ZenonT(40) DEF ReopenCheck, Is, quietly, serverVars, cellVars, still
<1>2. /\ u \in Users /\ actor[u] \in Frame /\ UserFrame(actor[u]) /\ actor[u].next \in Nexts
      /\ object \in Nat /\ opened \in Seq(Nat)
  BY <1>1, UserAt, ZenonT(40) DEF UserFrame, Points, Creating, Reopening, Attempt, HandlesInv, HandlesType
<1>3. CASE AttemptFails(u)
  BY <1>1, <1>2, <1>3, AttemptFailing DEF Attempt
<1>4. CASE actor[u].share \in ShareOrError /\ Moves(u, "object")
  <2> DEFINE f == [actor[u] EXCEPT !.at = "object"]
  <2>1. actor[u].share = object
    BY <1>1, <1>2, <1>4, ZenonT(40) DEF ShareOrError, UserFrame
  <2>2. OpenedOn(actor[u].fid, actor[u].share)
    BY <1>1, <1>2, <2>1, SMTT(30) DEF OpenedOn, UserFrame
  <2>3. /\ f \in Frame /\ f.at = "object" /\ f.fid = actor[u].fid /\ f.share = actor[u].share
        /\ f.next = actor[u].next
    BY <1>2, ZenonT(40) DEF Frame, Points
  <2>4. Now(u, f)
    BY <1>4 DEF Moves
  <2> HIDE DEF f
  <2>5. UserFrame(f) /\ f.at \notin Closing
    BY <1>2, <2>2, <2>3, ZenonT(40) DEF UserFrame, Creating, Closing
  <2> QED BY <1>1, <1>2, <2>3, <2>4, <2>5, UserMoves
<1> QED BY <1>3, <1>4 DEF ReopenCheck

\* The new child is created below the share it was opened on.
LEMMA ReopenObjectKeeps ==
  ASSUME HandlesInv, NEW u \in Futures, ReopenObject(u)
  PROVE  HandlesInv'
<1>1. actor[u].at = "object" /\ UNCHANGED still
  BY DEF ReopenObject, Is, quietly, serverVars, cellVars, still
<1>2. u \in Users /\ actor[u] \in Frame /\ UserFrame(actor[u]) /\ actor[u].next \in Nexts
  BY <1>1, UserAt, ZenonT(40) DEF UserFrame, Points, Creating, Reopening, Attempt
<1>3. CASE AttemptFails(u)
  BY <1>1, <1>2, <1>3, AttemptFailing DEF Attempt
<1>4. CASE Moves(u, "replace")
  <2> DEFINE f == [actor[u] EXCEPT !.at = "replace"]
  <2>1. /\ f \in Frame /\ f.at = "replace" /\ f.fid = actor[u].fid /\ f.share = actor[u].share
        /\ f.next = actor[u].next
    BY <1>2, ZenonT(40) DEF Frame, Points
  <2>2. Now(u, f)
    BY <1>4 DEF Moves
  <2> HIDE DEF f
  <2>3. UserFrame(f) /\ f.at \notin Closing
    BY <1>1, <1>2, <2>1, ZenonT(40) DEF UserFrame, Creating, Closing
  <2> QED BY <1>1, <1>2, <2>1, <2>2, <2>3, UserMoves
<1> QED BY <1>3, <1>4 DEF ReopenObject

\* The attempt is given up by its timeout.
LEMMA ReopenTimesOutKeeps ==
  ASSUME HandlesInv, NEW u \in Futures, ReopenTimesOut(u)
  PROVE  HandlesInv'
<1>1. actor[u].at \in Attempt /\ AttemptFails(u) /\ UNCHANGED still
  BY DEF ReopenTimesOut, quietly, serverVars, cellVars, still
<1>2. u \in Users
  BY <1>1, UserAt, ZenonT(40) DEF Points, Creating, Attempt
<1> QED BY <1>1, <1>2, AttemptFailing

\* The slot of the break handler gets the new file id before the new generation is stored.
LEMMA ReopenReplaceKeeps ==
  ASSUME HandlesInv, NEW u \in Futures, ReopenReplace(u)
  PROVE  HandlesInv'
<1>1. /\ actor[u].at = "replace"
      /\ UNCHANGED <<asked, resource, calling, closes, closedOk, object, alive, newest, closed,
                     opened, handles, broken>>
  BY DEF ReopenReplace, Is, serverVars, cellVars
<1>2. /\ u \in Users /\ actor[u] \in Frame /\ UserFrame(actor[u]) /\ actor[u].next \in Nexts
      /\ resource # NoResource /\ actor[u].fid \in Nat /\ actor[u].share \in Nat
  BY <1>1, UserAt, ZenonT(40) DEF UserFrame, Points, Creating, Reopening, Attempt, Frame
<1> DEFINE f == [actor[u] EXCEPT !.at = "store"]
<1>3. /\ f \in Frame /\ f.at = "store" /\ f.fid = actor[u].fid /\ f.share = actor[u].share
      /\ f.next = actor[u].next
  BY <1>2, ZenonT(40) DEF Frame, Points
<1>4. Now(u, f)
  BY DEF ReopenReplace, Moves
<1> HIDE DEF f
<1>5. /\ actor' \in [Actors -> Frame] /\ actor'[u] = f
      /\ \A v \in Actors \ {u} : actor'[v] = actor[v]
  BY <1>2, <1>3, <1>4, Moved, Distinct, ZenonT(40) DEF HandlesInv, HandlesType
<1>6. /\ registered \subseteq registered' /\ registered' \subseteq Nat
      /\ Oplock => actor[u].fid \in registered'
      /\ slot' \in [fid : Nat, share : Nat, level : Nat]
  BY <1>2, ZenonT(40) DEF ReopenReplace, HandlesInv, HandlesType
<1>7. HandlesType'
  BY <1>1, <1>2, <1>5, <1>6, Distinct, ZenonT(40) DEF HandlesInv, HandlesType
<1>8. Unpublished'
  BY <1>1, <1>2, <1>5, Distinct, ZenonT(40) DEF HandlesInv, Unpublished
<1>9. Published'
  BY <1>1, <1>6, ZenonT(40) DEF HandlesInv, Published, OpenedOn, Oplock
<1>10. OneClose'
  BY <1>1, <1>2, <1>3, <1>5, Distinct, ZenonT(40) DEF HandlesInv, OneClose, Closing
<1>11. OpenerFrame(actor[Opener])'
  BY <1>1, <1>2, <1>5, Distinct, ZenonT(40) DEF HandlesInv, OpenerFrame, Unpublished, Creating
<1>12. UserFrame(actor[u])'
  BY <1>1, <1>2, <1>3, <1>5, <1>6, ZenonT(40) DEF UserFrame, OpenedOn, Creating, Oplock
<1>13. ASSUME NEW v \in Users, v # u PROVE UserFrame(actor[v])'
  <2>1. UserFrame(actor[v]) /\ actor'[v] = actor[v]
    BY <1>5, <1>13, Distinct, ZenonT(40) DEF HandlesInv
  <2> QED BY <1>1, <1>6, <2>1, ZenonT(40) DEF UserFrame, OpenedOn, Oplock
<1> QED BY <1>7, <1>8, <1>9, <1>10, <1>11, <1>12, <1>13, ZenonT(40) DEF HandlesInv

\* The new generation becomes visible.
LEMMA ReopenStoreKeeps ==
  ASSUME HandlesInv, NEW u \in Futures, ReopenStore(u)
  PROVE  HandlesInv'
<1>1. /\ actor[u].at = "store"
      /\ resource' = [resource EXCEPT !.fid = actor[u].fid, !.share = actor[u].share]
      /\ UNCHANGED <<asked, slot, registered, calling, closes, closedOk, object, alive, newest,
                     closed, opened, handles, broken>>
  BY DEF ReopenStore, Is, serverVars, cellVars
<1>2. /\ u \in Users /\ actor[u] \in Frame /\ UserFrame(actor[u]) /\ actor[u].next \in Nexts
      /\ resource # NoResource /\ resource \in Generation /\ actor[u].fid \in Nat
      /\ actor[u].share \in Nat
  BY <1>1, UserAt, ZenonT(40) DEF UserFrame, Points, Creating, Reopening, Attempt, Frame
<1>3. /\ resource' \in Generation /\ resource'.open = resource.open
      /\ resource'.fid = actor[u].fid /\ resource'.share = actor[u].share
  BY <1>1, <1>2, ZenonT(40) DEF Generation
<1>4. OpenedOn(actor[u].fid, actor[u].share) /\ actor[u].fid # 0
  BY <1>1, <1>2, SMTT(30) DEF UserFrame, OpenedOn, HandlesInv, HandlesType
<1> DEFINE f == [actor[u] EXCEPT !.at = actor[u].next, !.attempt = 1]
<1>5. f \in Frame /\ f.at = actor[u].next /\ f.next = actor[u].next
  BY <1>2, ZenonT(40) DEF Frame, Points, Nexts
<1>6. Now(u, f)
  BY DEF ReopenStore
<1> HIDE DEF f
<1>7. /\ actor' \in [Actors -> Frame] /\ actor'[u] = f
      /\ \A v \in Actors \ {u} : actor'[v] = actor[v]
  BY <1>2, <1>5, <1>6, Moved, Distinct, ZenonT(40) DEF HandlesInv, HandlesType
<1>8. resource' # NoResource
  BY <1>3, <1>4 DEF NoResource
<1>9. HandlesType'
  BY <1>1, <1>2, <1>3, <1>7, Distinct, ZenonT(40) DEF HandlesInv, HandlesType
<1>10. Unpublished'
  BY <1>1, <1>2, <1>3, <1>4, <1>7, <1>8, Distinct, ZenonT(40) DEF HandlesInv, Unpublished
<1>11. Published'
  BY <1>1, <1>2, <1>3, <1>4, SMTT(30) DEF HandlesInv, Published, UserFrame, OpenedOn, Oplock
<1>12. OneClose'
  BY <1>1, <1>2, <1>3, <1>5, <1>7, Distinct, ZenonT(40) DEF HandlesInv, OneClose, Closing, Nexts
<1>13. OpenerFrame(actor[Opener])'
  BY <1>1, <1>2, <1>7, Distinct, ZenonT(40) DEF HandlesInv, OpenerFrame, OpenedOn, Oplock
<1>14. UserFrame(actor[u])'
  BY <1>2, <1>5, <1>7, ZenonT(40) DEF UserFrame, Nexts, Creating, Reopening, Attempt
<1>15. ASSUME NEW v \in Users, v # u PROVE UserFrame(actor[v])'
  <2>1. UserFrame(actor[v]) /\ actor'[v] = actor[v]
    BY <1>7, <1>15, Distinct, ZenonT(40) DEF HandlesInv
  <2> QED BY <1>1, <2>1, ZenonT(40) DEF UserFrame, OpenedOn, Oplock
<1> QED BY <1>9, <1>10, <1>11, <1>12, <1>13, <1>14, <1>15, ZenonT(40) DEF HandlesInv

-----------------------------------------------------------------------------
(* Operations and closes.                                                  *)

\* A call takes the file id and the share of the generation it sees.
LEMMA ReadFileIdKeeps ==
  ASSUME HandlesInv, NEW u \in Futures, ReadFileId(u)
  PROVE  HandlesInv'
<1>1. actor[u].at = "file id" /\ UNCHANGED still
  BY ZenonT(40) DEF ReadFileId, Is, quietly, serverVars, cellVars, still
<1>2. /\ u \in Users /\ actor[u] \in Frame /\ resource.fid \in Nat
  BY <1>1, UserAt, ZenonT(40) DEF Points, Creating, Generation
<1> DEFINE f == [actor[u] EXCEPT !.fid = resource.fid, !.at = "ensure", !.next = "submit"]
<1>3. f \in Frame /\ f.at = "ensure" /\ f.next = "submit"
  BY <1>2, ZenonT(40) DEF Frame, Points, Nexts
<1>4. Now(u, f)
  BY ZenonT(40) DEF ReadFileId
<1> HIDE DEF f
<1>5. UserFrame(f) /\ f.at \notin Closing
  BY <1>3, ZenonT(40) DEF UserFrame, Creating, Closing, Nexts
<1> QED BY <1>1, <1>2, <1>3, <1>4, <1>5, UserMoves, ZenonT(40)

\* The request of a call goes out, or is refused.
LEMMA SubmitKeeps ==
  ASSUME HandlesInv, NEW u \in Futures, Submit(u)
  PROVE  HandlesInv'
<1>1. actor[u].at = "submit" /\ UNCHANGED still
  BY DEF Submit, Is, quietly, serverVars, cellVars, still
<1>2. u \in Users /\ actor[u] \in Frame /\ resource.share \in Nat
  BY <1>1, UserAt, ZenonT(40) DEF Points, Creating, Generation
<1>3. CASE Ends(u)
  BY <1>1, <1>2, <1>3, UserEnds
<1>4. CASE Now(u, [actor[u] EXCEPT !.share = resource.share, !.at = "sent"])
  <2> DEFINE f == [actor[u] EXCEPT !.share = resource.share, !.at = "sent"]
  <2>1. f \in Frame /\ f.at = "sent" /\ f.next = actor[u].next
    BY <1>2, ZenonT(40) DEF Frame, Points
  <2>2. Now(u, f)
    BY <1>4
  <2> HIDE DEF f
  <2> QED BY <1>1, <1>2, <2>1, <2>2, UserGoesOn
<1> QED BY <1>3, <1>4 DEF Submit

\* The answer of a call ends it.
LEMMA AnsweredKeeps ==
  ASSUME HandlesInv, NEW u \in Futures, Answered(u)
  PROVE  HandlesInv'
<1>1. actor[u].at = "sent" /\ Ends(u) /\ UNCHANGED still
  BY DEF Answered, Is, quietly, serverVars, cellVars, still
<1> QED BY <1>1, UserAt, UserEnds, ZenonT(40) DEF Points, Creating

\* The first close takes the generation; later ones find it gone.
LEMMA CloseResourceKeeps ==
  ASSUME HandlesInv, NEW u \in Futures, CloseResource(u)
  PROVE  HandlesInv'
<1>1. /\ actor[u].at = "close"
      /\ resource' = [resource EXCEPT !.open = FALSE]
      /\ UNCHANGED <<asked, slot, registered, calling, closes, closedOk, object, alive, newest,
                     closed, opened, handles, broken>>
  BY DEF CloseResource, Is, serverVars, cellVars
<1>2. /\ u \in Users /\ actor[u] \in Frame /\ resource # NoResource /\ resource \in Generation
      /\ resource.fid # 0
  BY <1>1, UserAt, ZenonT(40) DEF Points, Creating, HandlesInv, Unpublished
<1>3. /\ resource' \in Generation /\ resource'.open = FALSE
      /\ resource'.fid = resource.fid /\ resource'.share = resource.share
  BY <1>1, <1>2, ZenonT(40) DEF Generation
<1>4. PICK f \in Frame : /\ Now(u, f)
                         /\ f.at = "idle" \/ (f.at = "closing" /\ resource.open)
  <2>1. CASE Ends(u)
    BY <2>1, IdleFrame DEF Ends
  <2>2. CASE resource.open
    <3> DEFINE g == [actor[u] EXCEPT !.at = "closing", !.fid = resource.fid, !.share = resource.share]
    <3>1. g \in Frame /\ g.at = "closing"
      BY <1>2, ZenonT(40) DEF Frame, Points, Generation
    <3>2. Now(u, g)
      BY <2>2 DEF CloseResource
    <3> HIDE DEF g
    <3> QED BY <2>2, <3>1, <3>2
  <2> QED BY <2>1, <2>2 DEF CloseResource
<1>5. /\ actor' \in [Actors -> Frame] /\ actor'[u] = f
      /\ \A v \in Actors \ {u} : actor'[v] = actor[v]
  BY <1>2, <1>4, Moved, Distinct, ZenonT(40) DEF HandlesInv, HandlesType
<1>6. resource' # NoResource
  BY <1>2, <1>3 DEF NoResource
<1>7. HandlesType'
  BY <1>1, <1>2, <1>3, <1>5, Distinct, ZenonT(40) DEF HandlesInv, HandlesType
<1>8. Unpublished'
  BY <1>1, <1>2, <1>3, <1>5, <1>6, Distinct, ZenonT(40) DEF HandlesInv, Unpublished
<1>9. Published'
  BY <1>1, <1>2, <1>3, SMTT(30) DEF HandlesInv, Published, OpenedOn, Oplock
<1>10. OneClose'
  <2>1. CASE f.at = "idle"
    BY <1>1, <1>2, <1>3, <2>1, <1>5, Distinct, ZenonT(40) DEF HandlesInv, OneClose, Closing
  <2>2. CASE f.at = "closing" /\ resource.open
    <3>1. closes' = 0 /\ \A v \in Users \ {u} : actor'[v].at \notin Closing
      BY <1>1, <1>5, <2>2, Distinct, ZenonT(40) DEF HandlesInv, OneClose
    <3> QED BY <1>1, <1>3, <3>1, ZenonT(40) DEF HandlesInv, OneClose, Closing
  <2> QED BY <1>4, <2>1, <2>2
<1>11. OpenerFrame(actor[Opener])'
  BY <1>1, <1>2, <1>5, Distinct, ZenonT(40) DEF HandlesInv, OpenerFrame, OpenedOn, Oplock
<1>12. UserFrame(actor[u])'
  BY <1>4, <1>5, ZenonT(40) DEF UserFrame, Creating, Reopening, Attempt
<1>13. ASSUME NEW v \in Users, v # u PROVE UserFrame(actor[v])'
  <2>1. UserFrame(actor[v]) /\ actor'[v] = actor[v]
    BY <1>5, <1>13, Distinct, ZenonT(40) DEF HandlesInv
  <2> QED BY <1>1, <2>1, ZenonT(40) DEF UserFrame, OpenedOn, Oplock
<1> QED BY <1>7, <1>8, <1>9, <1>10, <1>11, <1>12, <1>13, ZenonT(40) DEF HandlesInv

\* The CLOSE goes out, once.
LEMMA CloseSubmitKeeps ==
  ASSUME HandlesInv, NEW u \in Futures, CloseSubmit(u)
  PROVE  HandlesInv'
<1>1. /\ actor[u].at = "closing"
      /\ UNCHANGED <<asked, resource, slot, registered, calling, closedOk, object, alive, newest,
                     closed, opened, handles, broken>>
  BY ZenonT(40) DEF CloseSubmit, Is, serverVars, cellVars
<1>2. u \in Users /\ actor[u] \in Frame /\ resource # NoResource /\ closes = 0
  BY <1>1, UserAt, ZenonT(40) DEF Points, Creating, HandlesInv, OneClose
<1>3. CASE Ends(u) /\ UNCHANGED closes
  BY <1>1, <1>2, <1>3, UserEnds DEF still
<1>4. CASE Moves(u, "close sent") /\ closes' = closes + 1
  <2> DEFINE f == [actor[u] EXCEPT !.at = "close sent"]
  <2>1. f \in Frame /\ f.at = "close sent"
    BY <1>2, ZenonT(40) DEF Frame, Points
  <2>2. Now(u, f)
    BY <1>4, ZenonT(40) DEF Moves
  <2> HIDE DEF f
  <2>3. /\ actor' \in [Actors -> Frame] /\ actor'[u] = f
        /\ \A v \in Actors \ {u} : actor'[v] = actor[v]
    BY <1>2, <2>1, <2>2, Moved, Distinct, ZenonT(40) DEF HandlesInv, HandlesType
  <2>4. HandlesType' /\ closes' = 1
    <3>1. closes' = 1
      <4>1. closes = 0 /\ closes' = closes + 1
        BY <1>2, <1>4, ZenonT(40)
      <4> QED BY <4>1
    <3> QED BY <1>1, <1>2, <2>3, <3>1, Distinct, ZenonT(40) DEF HandlesInv, HandlesType
  <2>5. Unpublished'
    BY <1>1, <1>2, <2>3, Distinct, ZenonT(40) DEF HandlesInv, Unpublished
  <2>6. Published'
    BY <1>1, ZenonT(40) DEF HandlesInv, Published, OpenedOn, Oplock
  <2>7. OneClose'
    <3>1. ~resource.open /\ \A v \in Users \ {u} : actor'[v].at \notin Closing
      BY <1>1, <1>2, <2>3, Distinct, ZenonT(40) DEF HandlesInv, OneClose, Closing
    <3>2. /\ \A v \in Users : actor'[v].at \in Closing => v = u
          /\ actor'[u].at # "closing"
      BY <2>1, <2>3, <3>1, ZenonT(40)
    <3>3. closes' = 1 /\ \A v \in Users : actor'[v].at # "closing"
      BY <2>4, <3>2, ZenonT(40) DEF Closing
    <3> QED BY <1>1, <3>1, <3>2, <3>3, SMTT(30) DEF HandlesInv, OneClose
  <2>8. OpenerFrame(actor[Opener])'
    BY <1>1, <1>2, <2>3, Distinct, ZenonT(40) DEF HandlesInv, OpenerFrame, OpenedOn, Oplock
  <2>9. UserFrame(actor[u])'
    BY <2>1, <2>3, ZenonT(40) DEF UserFrame, Creating, Reopening, Attempt
  <2>10. ASSUME NEW v \in Users, v # u PROVE UserFrame(actor[v])'
    <3>1. UserFrame(actor[v]) /\ actor'[v] = actor[v]
      BY <2>3, <2>10, Distinct, ZenonT(40) DEF HandlesInv
    <3> QED BY <1>1, <3>1, ZenonT(40) DEF UserFrame, OpenedOn, Oplock
  <2> QED BY <2>4, <2>5, <2>6, <2>7, <2>8, <2>9, <2>10, ZenonT(40) DEF HandlesInv
<1> QED BY <1>3, <1>4, ZenonT(40) DEF CloseSubmit

\* The CLOSE succeeded, or failed.
LEMMA CloseAnsweredKeeps ==
  ASSUME HandlesInv, NEW u \in Futures, CloseAnswered(u)
  PROVE  HandlesInv'
<1>1. /\ actor[u].at = "close sent" /\ Ends(u)
      /\ UNCHANGED <<asked, resource, slot, registered, calling, closes, object, alive, newest,
                     closed, opened, broken>>
  BY ZenonT(40) DEF CloseAnswered, Is, cellVars
<1>2. u \in Users /\ actor[u] \in Frame /\ resource # NoResource
  BY <1>1, UserAt, ZenonT(40) DEF Points, Creating
<1>3. CASE UNCHANGED <<handles, closedOk>>
  BY <1>1, <1>2, <1>3, UserEnds, ZenonT(40) DEF still
<1>4. CASE /\ actor[u].fid \in handles
           /\ handles' = handles \ {actor[u].fid}
           /\ closedOk' = (actor[u].share \in alive)
  <2>1. handles' = {} /\ closedOk' \in BOOLEAN
    BY <1>4, SMTT(30) DEF HandlesInv, OneClose
  <2>2. /\ actor' \in [Actors -> Frame] /\ actor'[u] = Idle
        /\ \A v \in Actors \ {u} : actor'[v] = actor[v]
    BY <1>1, <1>2, IdleFrame, Moved, Distinct, ZenonT(40) DEF HandlesInv, HandlesType, Ends
  <2>3. HandlesType'
    BY <1>1, <1>2, <2>1, <2>2, Distinct, ZenonT(40) DEF HandlesInv, HandlesType
  <2>4. Unpublished'
    BY <1>1, <1>2, <2>1, <2>2, Distinct, ZenonT(40) DEF HandlesInv, Unpublished
  <2>5. Published'
    BY <1>1, ZenonT(40) DEF HandlesInv, Published, OpenedOn, Oplock
  <2>6. OneClose'
    BY <1>1, <1>2, <2>1, <2>2, IdleFrame, Distinct, ZenonT(40) DEF HandlesInv, OneClose, Closing
  <2>7. OpenerFrame(actor[Opener])'
    BY <1>1, <1>2, <2>2, Distinct, ZenonT(40) DEF HandlesInv, OpenerFrame, OpenedOn, Oplock
  <2>8. UserFrame(actor[u])'
    BY <2>2, IdleFrame, ZenonT(40) DEF UserFrame, Creating, Reopening, Attempt
  <2>9. ASSUME NEW v \in Users, v # u PROVE UserFrame(actor[v])'
    <3>1. UserFrame(actor[v]) /\ actor'[v] = actor[v]
      BY <2>2, <2>9, Distinct, ZenonT(40) DEF HandlesInv
    <3> QED BY <1>1, <3>1, ZenonT(40) DEF UserFrame, OpenedOn, Oplock
  <2> QED BY <2>3, <2>4, <2>5, <2>6, <2>7, <2>8, <2>9, ZenonT(40) DEF HandlesInv
<1> QED BY <1>3, <1>4, ZenonT(40) DEF CloseAnswered

-----------------------------------------------------------------------------
(* The opener.                                                             *)

\* The opener at one of the points of create, and what the invariant says of it.
LEMMA OpenerAt ==
  ASSUME HandlesInv, NEW u \in Futures, actor[u].at \in Creating
  PROVE  /\ u = Opener /\ actor[u] \in Frame /\ OpenerFrame(actor[u]) /\ Opener \notin calling
         /\ resource = NoResource
<1>1. u = Opener
  BY ZenonT(40) DEF HandlesInv, UserFrame, Futures
<1>2. Opener \notin calling
  BY <1>1, SMTT(30) DEF HandlesInv, Unpublished, Idle, Creating
<1> QED BY <1>1, <1>2, Distinct, ZenonT(40) DEF HandlesInv, HandlesType, Unpublished

\* The opener gives up.
LEMMA OpenerEnds ==
  ASSUME HandlesInv, actor[Opener].at \in Creating, Ends(Opener), UNCHANGED still
  PROVE  HandlesInv'
<1>1. Opener \notin calling
  BY OpenerAt, ZenonT(40) DEF Futures
<1> QED BY <1>1, IdleFrame, OpenerMoves DEF Ends

\* The first CREATE goes out.
LEMMA CreateSubmitKeeps ==
  ASSUME HandlesInv, NEW u \in Futures, CreateSubmit(u)
  PROVE  HandlesInv'
<1>1. actor[u].at = "create" /\ UNCHANGED still
  BY DEF CreateSubmit, Is, quietly, serverVars, cellVars, still
<1>2. u = Opener /\ actor[u] \in Frame /\ Opener \notin calling
  BY <1>1, OpenerAt DEF Creating
<1>3. CASE Ends(u)
  BY <1>1, <1>2, <1>3, OpenerEnds DEF Creating
<1>4. ASSUME NEW share \in ShareOrError, Now(u, [actor[u] EXCEPT !.at = "creating", !.share = share])
      PROVE  HandlesInv'
  <2> DEFINE f == [actor[u] EXCEPT !.at = "creating", !.share = share]
  <2>1. share \in Nat
    BY <1>4, SMTT(30) DEF ShareOrError, HandlesInv, HandlesType
  <2>2. f \in Frame /\ f.at = "creating"
    BY <1>2, <2>1, ZenonT(40) DEF Frame, Points
  <2>3. Now(u, f)
    BY <1>4
  <2> HIDE DEF f
  <2>4. OpenerFrame(f)
    BY <2>2, ZenonT(40) DEF OpenerFrame, Creating
  <2> QED BY <1>1, <1>2, <2>2, <2>3, <2>4, OpenerMoves DEF Creating
<1> QED BY <1>3, <1>4, ZenonT(40) DEF CreateSubmit

\* The server opened the handle, or did not.
LEMMA CreateAnsweredKeeps ==
  ASSUME HandlesInv, NEW u \in Futures, CreateAnswered(u)
  PROVE  HandlesInv'
<1>1. actor[u].at = "creating" /\ UNCHANGED <<quietly, broken>>
  BY DEF CreateAnswered, Is
<1>2. /\ u = Opener /\ actor[u] \in Frame /\ Opener \notin calling /\ resource = NoResource
      /\ opened \in Seq(Nat) /\ handles = {}
  BY <1>1, OpenerAt, ZenonT(40) DEF Creating, HandlesInv, HandlesType, Unpublished
<1>3. CASE Ends(u) /\ UNCHANGED <<opened, handles>>
  BY <1>1, <1>2, <1>3, OpenerEnds, ZenonT(40) DEF Creating, quietly, cellVars, still
<1>4. CASE /\ opened' = Append(opened, actor[u].share)
           /\ handles' = handles \cup {Len(opened')}
           /\ Now(u, [actor[u] EXCEPT !.at = "validate", !.fid = Len(opened')])
  <2> DEFINE n == Len(opened) + 1
             f == [actor[u] EXCEPT !.at = "validate", !.fid = n]
  <2>1. /\ opened' \in Seq(Nat) /\ Len(opened') = n /\ n \in Nat \ {0}
        /\ n \in DOMAIN opened' /\ opened'[n] = actor[u].share
        /\ \A g \in DOMAIN opened : g \in DOMAIN opened' /\ opened'[g] = opened[g]
    <3>1. actor[u].share \in Nat
      BY <1>2 DEF Frame
    <3> QED BY <1>2, <1>4, <3>1, OpensOneMore
  <2>2. handles' = {n} /\ handles' \subseteq 1..Len(opened')
    BY <1>2, <1>4, <2>1
  <2>3. Now(u, f)
    BY <1>4, <2>1
  <2> HIDE DEF n
  <2>4. f \in Frame /\ f.at = "validate" /\ f.fid = n /\ f.share = actor[u].share
    BY <1>2, <2>1, ZenonT(40) DEF Frame, Points
  <2>5. UNCHANGED <<asked, resource, slot, registered, broken, calling, closes, closedOk,
                    object, alive, newest, closed>>
    BY <1>1 DEF quietly, cellVars
  <2> HIDE DEF f
  <2>6. /\ actor' \in [Actors -> Frame] /\ actor'[u] = f
        /\ \A v \in Actors \ {u} : actor'[v] = actor[v]
    BY <1>2, <2>3, <2>4, Moved, Distinct, ZenonT(40) DEF HandlesInv, HandlesType
  <2>7. HandlesType'
    BY <1>2, <2>1, <2>2, <2>5, <2>6, Distinct, ZenonT(40) DEF HandlesInv, HandlesType
  <2>8. Unpublished'
    BY <1>2, <2>4, <2>5, <2>6, Distinct, ZenonT(40) DEF HandlesInv, Unpublished
  <2>9. Published'
    BY <1>2, <2>5, ZenonT(40) DEF Published
  <2>10. OneClose'
    BY <1>2, <2>2, <2>5, <2>6, Distinct, ZenonT(40) DEF HandlesInv, OneClose, Unpublished, Closing
  <2>11. OpenerFrame(actor[Opener])'
    BY <1>2, <2>1, <2>4, <2>6, ZenonT(40) DEF OpenerFrame, OpenedOn, Creating
  <2>12. ASSUME NEW v \in Users PROVE UserFrame(actor[v])'
    <3>1. UserFrame(actor[v]) /\ actor'[v] = actor[v]
      BY <1>2, <2>6, Distinct, ZenonT(40) DEF HandlesInv
    <3> QED BY <2>1, <2>5, <3>1, ZenonT(40) DEF UserFrame, OpenedOn, Oplock
  <2> QED BY <2>7, <2>8, <2>9, <2>10, <2>11, <2>12, ZenonT(40) DEF HandlesInv
<1> QED BY <1>3, <1>4 DEF CreateAnswered

\* The answer has the wrong kind, or is what was asked for.
LEMMA CreateValidateKeeps ==
  ASSUME HandlesInv, NEW u \in Futures, CreateValidate(u)
  PROVE  HandlesInv'
<1>1. actor[u].at = "validate" /\ UNCHANGED still
  BY DEF CreateValidate, Is, quietly, serverVars, cellVars, still
<1>2. u = Opener /\ actor[u] \in Frame /\ OpenerFrame(actor[u]) /\ Opener \notin calling
  BY <1>1, OpenerAt DEF Creating
<1>3. CASE Ends(u)
  BY <1>1, <1>2, <1>3, OpenerEnds DEF Creating
<1>4. CASE Moves(u, "child")
  <2> DEFINE f == [actor[u] EXCEPT !.at = "child"]
  <2>1. f \in Frame /\ f.at = "child" /\ f.fid = actor[u].fid /\ f.share = actor[u].share
    BY <1>2, ZenonT(40) DEF Frame, Points
  <2>2. Now(u, f)
    BY <1>4 DEF Moves
  <2> HIDE DEF f
  <2>3. OpenerFrame(f)
    BY <1>1, <1>2, <2>1, ZenonT(40) DEF OpenerFrame, Creating
  <2> QED BY <1>1, <1>2, <2>1, <2>2, <2>3, OpenerMoves DEF Creating
<1> QED BY <1>3, <1>4, ZenonT(40) DEF CreateValidate

\* The child is created below the share the handle was opened on.
LEMMA CreateChildKeeps ==
  ASSUME HandlesInv, NEW u \in Futures, CreateChild(u)
  PROVE  HandlesInv'
<1>1. /\ actor[u].at = "child"
      /\ UNCHANGED <<asked, resource, registered, calling, closes, closedOk, object, alive, newest,
                     closed, opened, handles, broken>>
  BY ZenonT(40) DEF CreateChild, Is, serverVars, cellVars
<1>2. /\ u = Opener /\ actor[u] \in Frame /\ OpenerFrame(actor[u]) /\ Opener \notin calling
      /\ resource = NoResource
  BY <1>1, OpenerAt DEF Creating
<1>3. CASE Ends(u) /\ UNCHANGED slot
  BY <1>1, <1>2, <1>3, OpenerEnds DEF Creating, still
<1>4. CASE /\ slot' = IF Oplock THEN [fid |-> actor[u].fid, share |-> actor[u].share, level |-> 2]
                      ELSE slot
           /\ Moves(u, "register")
  <2> DEFINE f == [actor[u] EXCEPT !.at = "register"]
  <2>1. f \in Frame /\ f.at = "register" /\ f.fid = actor[u].fid /\ f.share = actor[u].share
    BY <1>2, ZenonT(40) DEF Frame, Points
  <2>2. Now(u, f)
    BY <1>4 DEF Moves
  <2> HIDE DEF f
  <2>3. /\ actor' \in [Actors -> Frame] /\ actor'[u] = f
        /\ \A v \in Actors \ {u} : actor'[v] = actor[v]
    BY <1>2, <2>1, <2>2, Moved, Distinct, ZenonT(40) DEF HandlesInv, HandlesType
  <2>4. slot' \in [fid : Nat, share : Nat, level : Nat] /\ (Oplock => slot'.fid = actor[u].fid)
    <3>1. actor[u].fid \in Nat /\ actor[u].share \in Nat
      BY <1>2 DEF Frame
    <3> QED BY <1>4, <3>1, ZenonT(40) DEF HandlesInv, HandlesType
  <2>5. HandlesType'
    BY <1>1, <1>2, <2>3, <2>4, Distinct, ZenonT(40) DEF HandlesInv, HandlesType
  <2>6. Unpublished'
    BY <1>1, <1>2, <2>1, <2>3, Distinct, ZenonT(40) DEF HandlesInv, Unpublished
  <2>7. Published'
    BY <1>1, <1>2, ZenonT(40) DEF Published
  <2>8. OneClose'
    BY <1>1, <1>2, <2>3, Distinct, ZenonT(40) DEF HandlesInv, OneClose
  <2>9. OpenerFrame(actor[Opener])'
    BY <1>1, <1>2, <2>1, <2>3, <2>4, ZenonT(40) DEF OpenerFrame, OpenedOn, Creating, Oplock
  <2>10. ASSUME NEW v \in Users PROVE UserFrame(actor[v])'
    <3>1. UserFrame(actor[v]) /\ actor'[v] = actor[v]
      BY <1>2, <2>3, Distinct, ZenonT(40) DEF HandlesInv
    <3> QED BY <1>1, <3>1, ZenonT(40) DEF UserFrame, OpenedOn, Oplock
  <2> QED BY <2>5, <2>6, <2>7, <2>8, <2>9, <2>10, ZenonT(40) DEF HandlesInv
<1> QED BY <1>3, <1>4 DEF CreateChild

\* The resource is registered and handed out.
LEMMA CreatePublishKeeps ==
  ASSUME HandlesInv, NEW u \in Futures, CreatePublish(u)
  PROVE  HandlesInv'
<1>1. /\ actor[u].at = "register" /\ Ends(u)
      /\ registered' = IF Oplock THEN registered \cup {slot.fid} ELSE registered
      /\ resource' = [open |-> TRUE, fid |-> actor[u].fid, share |-> actor[u].share]
      /\ UNCHANGED <<asked, slot, calling, closes, closedOk, object, alive, newest, closed, opened,
                     handles, broken>>
  BY ZenonT(40) DEF CreatePublish, Is, serverVars, cellVars
<1>2. /\ u = Opener /\ actor[u] \in Frame /\ OpenerFrame(actor[u]) /\ Opener \notin calling
      /\ resource = NoResource
  BY <1>1, OpenerAt, ZenonT(40) DEF Creating
<1>3. /\ actor' \in [Actors -> Frame] /\ actor'[u] = Idle
      /\ \A v \in Actors \ {u} : actor'[v] = actor[v]
  BY <1>1, <1>2, IdleFrame, Moved, Distinct, ZenonT(40) DEF HandlesInv, HandlesType, Ends
<1>4. /\ OpenedOn(actor[u].fid, actor[u].share) /\ actor[u].fid # 0
      /\ actor[u].fid \in Nat /\ actor[u].share \in Nat
      /\ Oplock => slot.fid = actor[u].fid
  <2>1. opened \in Seq(Nat)
    BY ZenonT(40) DEF HandlesInv, HandlesType
  <2>2. OpenedOn(actor[u].fid, actor[u].share) /\ (Oplock => slot.fid = actor[u].fid)
    BY <1>1, <1>2, ZenonT(40) DEF OpenerFrame
  <2>3. actor[u].fid \in Nat /\ actor[u].share \in Nat
    BY <1>2 DEF Frame
  <2> QED BY <2>1, <2>2, <2>3 DEF OpenedOn
<1>5. /\ resource' \in Generation /\ resource'.fid = actor[u].fid
      /\ resource'.share = actor[u].share /\ resource' # NoResource
  BY <1>1, <1>4 DEF Generation, NoResource
<1>6. registered \subseteq registered' /\ registered' \subseteq Nat
  BY <1>1, ZenonT(40) DEF HandlesInv, HandlesType
<1>7. HandlesType'
  BY <1>1, <1>2, <1>3, <1>5, <1>6, Distinct, ZenonT(40) DEF HandlesInv, HandlesType
<1>8. Unpublished'
  BY <1>1, <1>2, <1>3, <1>4, <1>5, IdleFrame, Distinct, ZenonT(40) DEF Unpublished, Creating
<1>9. Published'
  BY <1>1, <1>4, <1>5, ZenonT(40) DEF Published, OpenedOn, Oplock
<1>10. OneClose'
  BY <1>1, <1>2, <1>3, Distinct, ZenonT(40) DEF HandlesInv, OneClose, Unpublished, Closing
<1>11. OpenerFrame(actor[Opener])'
  BY <1>2, <1>3, IdleFrame, ZenonT(40) DEF OpenerFrame, Creating
<1>12. ASSUME NEW v \in Users PROVE UserFrame(actor[v])'
  <2>1. UserFrame(actor[v]) /\ actor'[v] = actor[v]
    BY <1>2, <1>3, Distinct, ZenonT(40) DEF HandlesInv
  <2> QED BY <1>1, <1>6, <2>1, ZenonT(40) DEF UserFrame, OpenedOn, Oplock
<1> QED BY <1>7, <1>8, <1>9, <1>10, <1>11, <1>12, ZenonT(40) DEF HandlesInv

-----------------------------------------------------------------------------
(* Calls begin.                                                            *)

\* A caller begins to create, to use or to close the resource.
LEMMA BeginCallKeeps ==
  ASSUME HandlesInv, NEW u \in Futures, BeginCall(u)
  PROVE  HandlesInv'
<1>1. /\ u \in calling /\ calling' = calling \ {u}
      /\ UNCHANGED <<asked, resource, slot, registered, closes, closedOk, object, alive, newest,
                     closed, opened, handles, broken>>
  BY ZenonT(40) DEF BeginCall, serverVars, cellVars
<1>2. CASE u = Opener
  <2>1. PICK f \in Frame : Now(u, f) /\ f.at \in {"idle", "create"} /\ OpenerFrame(f)
    <3> DEFINE g == [Idle EXCEPT !.call = "create", !.at = "create"]
    <3>1. g \in Frame /\ g.at = "create"
      BY IdleFrame, ZenonT(40) DEF Frame, Points, Kinds
    <3>2. Now(u, g) \/ Now(u, Idle)
      BY <1>2 DEF BeginCall
    <3> HIDE DEF g
    <3> QED BY <3>1, <3>2, IdleFrame, ZenonT(40) DEF OpenerFrame, Creating
  <2>2. /\ actor' \in [Actors -> Frame] /\ actor'[u] = f
        /\ \A v \in Actors \ {u} : actor'[v] = actor[v]
    BY <1>2, <2>1, Moved, Distinct, ZenonT(40) DEF HandlesInv, HandlesType
  <2>3. HandlesType'
    BY <1>1, <1>2, <2>2, Distinct, ZenonT(40) DEF HandlesInv, HandlesType
  <2>4. Unpublished'
    BY <1>1, <1>2, <2>2, Distinct, ZenonT(40) DEF HandlesInv, Unpublished
  <2>5. Published'
    BY <1>1, ZenonT(40) DEF HandlesInv, Published, OpenedOn, Oplock
  <2>6. OneClose'
    BY <1>1, <1>2, <2>2, Distinct, ZenonT(40) DEF HandlesInv, OneClose
  <2>7. OpenerFrame(actor[Opener])'
    BY <1>1, <1>2, <2>1, <2>2, ZenonT(40) DEF OpenerFrame, OpenedOn, Oplock
  <2>8. ASSUME NEW v \in Users PROVE UserFrame(actor[v])'
    <3>1. UserFrame(actor[v]) /\ actor'[v] = actor[v]
      BY <1>2, <2>2, Distinct, ZenonT(40) DEF HandlesInv
    <3> QED BY <1>1, <3>1, ZenonT(40) DEF UserFrame, OpenedOn, Oplock
  <2> QED BY <2>3, <2>4, <2>5, <2>6, <2>7, <2>8, ZenonT(40) DEF HandlesInv
<1>3. CASE u # Opener
  <2>1. u \in Users /\ resource # NoResource
    BY <1>3 DEF Futures, BeginCall
  <2>2. PICK f \in Frame : Now(u, f) /\ UserFrame(f) /\ f.at \notin Closing
    <3> DEFINE g == [Idle EXCEPT !.call = "operate", !.at = "ensure", !.next = "file id"]
               h == [Idle EXCEPT !.call = "close", !.at = "ensure", !.next = "close"]
    <3>1. g \in Frame /\ g.at = "ensure" /\ g.next = "file id"
      BY IdleFrame, ZenonT(40) DEF Frame, Points, Kinds, Nexts
    <3>2. h \in Frame /\ h.at = "ensure" /\ h.next = "close"
      BY IdleFrame, ZenonT(40) DEF Frame, Points, Kinds, Nexts
    <3>3. Now(u, g) \/ Now(u, h) \/ Now(u, Idle)
      BY <1>3 DEF BeginCall
    <3> HIDE DEF g, h
    <3>4. UserFrame(g) /\ UserFrame(h) /\ UserFrame(Idle)
      BY <3>1, <3>2, IdleFrame, ZenonT(40) DEF UserFrame, Creating, Nexts
    <3> QED BY <3>1, <3>2, <3>3, <3>4, IdleFrame, ZenonT(40) DEF Closing
  <2>3. /\ actor' \in [Actors -> Frame] /\ actor'[u] = f
        /\ \A v \in Actors \ {u} : actor'[v] = actor[v]
    BY <2>1, <2>2, Moved, Distinct, ZenonT(40) DEF HandlesInv, HandlesType
  <2>4. HandlesType'
    BY <1>1, <2>1, <2>3, Distinct, ZenonT(40) DEF HandlesInv, HandlesType
  <2>5. Unpublished'
    BY <1>1, <1>3, <2>1, <2>3, Distinct, ZenonT(40) DEF HandlesInv, Unpublished
  <2>6. Published'
    BY <1>1, ZenonT(40) DEF HandlesInv, Published, OpenedOn, Oplock
  <2>7. OneClose'
    BY <1>1, <2>1, <2>2, <2>3, Distinct, ZenonT(40) DEF HandlesInv, OneClose, Closing
  <2>8. OpenerFrame(actor[Opener])'
    BY <1>1, <2>1, <2>3, Distinct, ZenonT(40) DEF HandlesInv, OpenerFrame, OpenedOn, Oplock
  <2>9. \A v \in Users : UserFrame(actor[v])'
    BY <1>1, <2>1, <2>2, <2>3, Distinct, ZenonT(40) DEF HandlesInv, UserFrame, OpenedOn, Oplock
  <2> QED BY <2>4, <2>5, <2>6, <2>7, <2>8, <2>9, ZenonT(40) DEF HandlesInv
<1> QED BY <1>2, <1>3

\* One step per action of a future.
LEMMA UserStepsKeep ==
  ASSUME HandlesInv, NEW u \in Futures, UserSteps(u)
  PROVE  HandlesInv'
<1>1. CASE Create(u)
  BY <1>1, CreateSubmitKeeps, CreateAnsweredKeeps, CreateValidateKeeps, CreateChildKeeps,
     CreatePublishKeeps DEF Create
<1>2. CASE Ensure(u)
  BY <1>2, EnsureCurrentKeeps, EnsureLockKeeps, AttemptBeginsKeeps, ReopenSubmitKeeps,
     ReopenAnsweredKeeps, ReopenCheckKeeps, ReopenObjectKeeps, ReopenTimesOutKeeps,
     ReopenReplaceKeeps, ReopenStoreKeeps DEF Ensure
<1>3. CASE Use(u)
  BY <1>3, ReadFileIdKeeps, SubmitKeeps, AnsweredKeeps, CloseResourceKeeps, CloseSubmitKeeps,
     CloseAnsweredKeeps DEF Use
<1> QED BY <1>1, <1>2, <1>3 DEF UserSteps

-----------------------------------------------------------------------------
(* The break handler, the server and the share.                            *)

\* Steps of the break handler and the server move no caller, and take
\* nothing away that the invariant is about.
LEMMA OthersKeep ==
  ASSUME HandlesInv, HandlesType', \A u \in Futures : actor'[u] = actor[u],
         handles' \subseteq handles, slot'.fid = slot.fid,
         UNCHANGED <<asked, resource, registered, opened, calling, closes, closedOk, object>>
  PROVE  HandlesInv'
<1>1. Unpublished'
  BY ZenonT(40) DEF HandlesInv, Unpublished, Futures
<1>2. Published'
  BY ZenonT(40) DEF HandlesInv, Published, OpenedOn, Oplock
<1>3. OneClose'
  BY ZenonT(40) DEF HandlesInv, OneClose, Futures
<1>4. OpenerFrame(actor[Opener])'
  BY ZenonT(40) DEF HandlesInv, OpenerFrame, OpenedOn, Oplock, Futures
<1>5. ASSUME NEW v \in Users PROVE UserFrame(actor[v])'
  <2>1. UserFrame(actor[v]) /\ actor'[v] = actor[v]
    BY ZenonT(40) DEF HandlesInv, Futures
  <2> QED BY <2>1, ZenonT(40) DEF UserFrame, OpenedOn, Oplock
<1> QED BY <1>1, <1>2, <1>3, <1>4, <1>5, ZenonT(40) DEF HandlesInv

\* An oplock break finds the slot of its file id, or is dropped.
LEMMA BreakReceivedKeeps == HandlesInv /\ BreakReceived => HandlesInv'
<1> SUFFICES ASSUME HandlesInv, BreakReceived PROVE HandlesInv'
  OBVIOUS
<1>1. UNCHANGED <<asked, resource, registered, opened, handles, calling, closes, closedOk,
                  object, alive, newest, closed>>
  BY DEF BreakReceived, cellVars
<1>2. /\ slot \in [fid : Nat, share : Nat, level : Nat]
      /\ slot' \in [fid : Nat, share : Nat, level : Nat] /\ slot'.fid = slot.fid
      /\ broken' \subseteq Nat
  <2>1. slot \in [fid : Nat, share : Nat, level : Nat] /\ broken \subseteq Nat
    BY ZenonT(40) DEF HandlesInv, HandlesType
  <2>2. slot' \in {slot, [slot EXCEPT !.level = 1]} /\ broken' \subseteq broken
    BY DEF BreakReceived
  <2> QED BY <2>1, <2>2
<1>3. CASE UNCHANGED actor
  <2>1. HandlesType'
    BY <1>1, <1>2, <1>3, ZenonT(40) DEF HandlesInv, HandlesType
  <2> QED BY <1>1, <1>2, <1>3, <2>1, OthersKeep
<1>4. CASE actor' # actor
  <2>1. PICK f \in Frame : Now(Breaks, f) /\ f.at \in {"idle", "ack"}
    <3> DEFINE g == [Idle EXCEPT !.call = "break", !.at = "ack", !.fid = slot.fid]
    <3>1. g \in Frame /\ g.at = "ack"
      BY <1>2, IdleFrame, ZenonT(40) DEF Frame, Points, Kinds
    <3>2. Now(Breaks, g) \/ Now(Breaks, Idle)
      BY <1>4 DEF BreakReceived
    <3> HIDE DEF g
    <3> QED BY <3>1, <3>2, IdleFrame
  <2>2. /\ actor' \in [Actors -> Frame] /\ actor'[Breaks] = f
        /\ \A v \in Actors \ {Breaks} : actor'[v] = actor[v]
    BY <2>1, Moved, Distinct, ZenonT(40) DEF HandlesInv, HandlesType
  <2>3. HandlesType'
    BY <1>1, <1>2, <2>1, <2>2, ZenonT(40) DEF HandlesInv, HandlesType
  <2> QED BY <1>1, <1>2, <2>2, <2>3, OthersKeep, Distinct DEF Futures
<1> QED BY <1>3, <1>4

\* The acknowledgement is sent or given up, or is answered.
LEMMA BreakAckKeeps == HandlesInv /\ (BreakAck \/ BreakAnswered) => HandlesInv'
<1> SUFFICES ASSUME HandlesInv, BreakAck \/ BreakAnswered PROVE HandlesInv'
  OBVIOUS
<1>1. UNCHANGED still
  BY DEF BreakAck, BreakAnswered, quietly, serverVars, cellVars, still
<1>2. PICK f \in Frame : Now(Breaks, f) /\ f.at \in {"idle", "acked"}
  <2> DEFINE g == [actor[Breaks] EXCEPT !.share = slot.share, !.at = "acked"]
  <2>1. g \in Frame /\ g.at = "acked"
    <3>1. actor[Breaks] \in Frame /\ slot.share \in Nat
      BY Distinct, ZenonT(40) DEF HandlesInv, HandlesType
    <3> QED BY <3>1, ZenonT(40) DEF Frame, Points
  <2>2. Now(Breaks, g) \/ Now(Breaks, Idle)
    BY ZenonT(40) DEF BreakAck, BreakAnswered, Ends
  <2> HIDE DEF g
  <2> QED BY <2>1, <2>2, IdleFrame
<1>3. /\ actor' \in [Actors -> Frame] /\ actor'[Breaks] = f
      /\ \A v \in Actors \ {Breaks} : actor'[v] = actor[v]
  BY <1>2, Moved, Distinct, ZenonT(40) DEF HandlesInv, HandlesType
<1>4. HandlesType'
  BY <1>1, <1>2, <1>3, ZenonT(40) DEF HandlesInv, HandlesType, still
<1> QED BY <1>1, <1>3, <1>4, OthersKeep, Distinct DEF Futures, still

\* The server breaks an oplock, or closes the handles of a session that is gone.
LEMMA ServerKeeps == HandlesInv /\ (ServerBreaks \/ ServerForgets) => HandlesInv'
<1> SUFFICES ASSUME HandlesInv, ServerBreaks \/ ServerForgets PROVE HandlesInv'
  OBVIOUS
<1>1. /\ UNCHANGED <<asked, resource, slot, registered, calling, closes, closedOk, object, alive,
                     newest, closed, actor, opened>>
      /\ handles' \subseteq handles
  BY DEF ServerBreaks, ServerForgets, quietly, cellVars
<1>2. opened \in Seq(Nat) /\ handles \subseteq 1..Len(opened)
  BY ZenonT(40) DEF HandlesInv, HandlesType
<1>3. broken' \subseteq Nat
  <2>1. handles \subseteq Nat /\ broken \subseteq Nat
    BY <1>2, SMTT(30) DEF HandlesInv, HandlesType
  <2>2. broken' = broken \/ \E f \in handles : broken' = {f}
    BY DEF ServerBreaks, ServerForgets
  <2> QED BY <2>1, <2>2, ZenonT(40)
<1>4. HandlesType'
  BY <1>1, <1>3, ZenonT(40) DEF HandlesInv, HandlesType
<1> QED BY <1>1, <1>4, OthersKeep

\* The share only moves forward.
LEMMA ShareKeeps == HandlesInv /\ ShareMoves => HandlesInv'
<1> SUFFICES ASSUME HandlesInv, ShareMoves PROVE HandlesInv'
  OBVIOUS
<1>1. /\ UNCHANGED <<asked, resource, slot, registered, opened, handles, broken, actor, calling,
                     closes, closedOk>>
      /\ object \in Nat /\ newest \in Nat /\ object <= newest /\ alive \subseteq 1..newest
      /\ closed \in BOOLEAN
  BY ZenonT(40) DEF ShareMoves, handleVars, HandlesInv, HandlesType
<1>2. /\ object' \in Nat /\ newest' \in Nat /\ object <= object' /\ object' <= newest'
      /\ alive' \subseteq 1..newest'
  <2>1. CASE Revoke
    BY <1>1, <2>1 DEF Revoke
  <2>2. CASE Establish
    BY <1>1, <2>2 DEF Establish
  <2>3. CASE Publish
    BY <1>1, <2>3 DEF Publish
  <2>4. CASE CloseCell
    BY <1>1, <2>4 DEF CloseCell
  <2> QED BY <2>1, <2>2, <2>3, <2>4 DEF ShareMoves, CellNext
<1>3. closed' \in BOOLEAN
  BY <1>1, ZenonT(40) DEF ShareMoves, CellNext, Revoke, Establish, Publish, CloseCell
<1>4. HandlesType'
  BY <1>1, <1>2, <1>3, ZenonT(40) DEF HandlesInv, HandlesType
<1>5. Unpublished' /\ Published' /\ OneClose' /\ OpenerFrame(actor[Opener])'
  <2>1. Unpublished'
    BY <1>1, ZenonT(40) DEF HandlesInv, Unpublished
  <2>2. Published'
    BY <1>1, ZenonT(40) DEF HandlesInv, Published, OpenedOn, Oplock
  <2>3. OneClose'
    BY <1>1, ZenonT(40) DEF HandlesInv, OneClose
  <2>4. OpenerFrame(actor[Opener])'
    BY <1>1, ZenonT(40) DEF HandlesInv, OpenerFrame, OpenedOn, Oplock
  <2> QED BY <2>1, <2>2, <2>3, <2>4
<1>6. ASSUME NEW v \in Users PROVE UserFrame(actor[v])'
  <2>1. UserFrame(actor[v]) /\ actor[v] \in Frame /\ opened \in Seq(Nat)
    BY Distinct, ZenonT(40) DEF HandlesInv, HandlesType
  <2>2. /\ actor[v].share \in Nat /\ actor[v].fid \in Nat
        /\ \A f \in DOMAIN opened : opened[f] \in Nat
    BY <2>1 DEF Frame
  <2>3. \A n \in Nat : n <= object => n <= object'
    BY <1>1, <1>2
  <2>4. /\ actor'[v] = actor[v] /\ opened' = opened /\ registered' = registered /\ asked' = asked
    BY <1>1
  <2>5. /\ actor[v].share <= object => actor[v].share <= object'
        /\ actor[v].fid <= object => actor[v].fid <= object'
        /\ actor[v].fid \in DOMAIN opened /\ opened[actor[v].fid] <= object
             => opened[actor[v].fid] <= object'
    BY <2>2, <2>3, ZenonT(40)
  <2>6. /\ actor[v].at = "reopen" => actor[v].share # 0 /\ actor[v].share <= object'
        /\ actor[v].at = "reopening" =>
             actor[v].share # 0 /\ actor[v].share <= actor[v].fid /\ actor[v].fid <= object'
    BY <2>1, <2>5, ZenonT(40) DEF UserFrame
  <2>7. actor[v].at = "check" =>
          /\ actor[v].fid \in DOMAIN opened
          /\ actor[v].share # 0 /\ actor[v].share <= opened[actor[v].fid]
          /\ opened[actor[v].fid] <= object'
    BY <2>1, <2>5, ZenonT(40) DEF UserFrame
  <2>8. /\ actor[v].at \notin Creating \cup {"ack", "acked"}
        /\ actor[v].at \in Reopening \cup {"ensure", "lock"} => actor[v].next \in Nexts
        /\ actor[v].at \in {"object", "replace", "store"} => OpenedOn(actor[v].fid, actor[v].share)'
        /\ actor[v].at = "store" /\ Oplock' => actor[v].fid \in registered'
    BY <2>1, <2>4, ZenonT(40) DEF UserFrame, OpenedOn, Oplock
  <2> QED BY <2>4, <2>6, <2>7, <2>8, ZenonT(40) DEF UserFrame
<1> QED BY <1>4, <1>5, <1>6, ZenonT(40) DEF HandlesInv

-----------------------------------------------------------------------------
\* Before anything is opened the invariant holds.
LEMMA HandlesInitially == HandlesInit => HandlesInv
<1> SUFFICES ASSUME HandlesInit PROVE HandlesInv
  OBVIOUS
<1>1. /\ object = 1 /\ newest = 1 /\ alive = 1..newest /\ closed = FALSE
  BY DEF HandlesInit, CellInit
<1>2. \A u \in Actors : actor[u] = Idle /\ actor[u].at = "idle"
  BY IdleFrame, ZenonT(40) DEF HandlesInit
<1>3. HandlesType
  <2>1. actor \in [Actors -> Frame]
    BY IdleFrame DEF HandlesInit
  <2>2. calling \subseteq Futures
    BY DEF HandlesInit, Futures
  <2>3. NoResource \in Generation /\ slot \in [fid : Nat, share : Nat, level : Nat]
    BY DEF HandlesInit, NoResource, Generation
  <2>4. opened \in Seq(Nat) /\ handles \subseteq 1..Len(opened)
    BY DEF HandlesInit
  <2>5. object \in Nat /\ newest \in Nat /\ object <= newest /\ alive \subseteq 1..newest
    BY <1>1
  <2>6. actor[Breaks].at \in {"idle", "ack", "acked"}
    BY <1>2, Distinct
  <2> QED BY <1>1, <2>1, <2>2, <2>3, <2>4, <2>5, <2>6, ZenonT(40) DEF HandlesInit, HandlesType
<1>4. Unpublished /\ Published
  BY <1>2, Distinct DEF HandlesInit, Unpublished, Published, Creating
<1>5. OneClose
  <2>1. handles = {} /\ ~resource.open /\ closes = 0 /\ closes <= 1
    BY DEF HandlesInit, NoResource
  <2>2. \A u \in Users : actor[u].at = "idle"
    BY <1>2, Distinct
  <2>3. \A u \in Users : actor[u].at \notin Closing /\ actor[u].at # "closing"
    BY <2>2, ZenonT(40) DEF Closing
  <2> QED BY <2>1, <2>3 DEF OneClose
<1>6. OpenerFrame(actor[Opener]) /\ \A u \in Users : UserFrame(actor[u])
  BY <1>2, IdleFrame, Distinct
<1> QED BY <1>3, <1>4, <1>5, <1>6, ZenonT(40) DEF HandlesInv

\* Every step keeps the invariant.
LEMMA HandlesInductive == HandlesInv /\ [HandlesNext]_allHandleVars => HandlesInv'
<1> SUFFICES ASSUME HandlesInv, [HandlesNext]_allHandleVars PROVE HandlesInv'
  OBVIOUS
<1>1. CASE HandlesNext
  BY <1>1, BeginCallKeeps, UserStepsKeep, BreakReceivedKeeps, BreakAckKeeps, ServerKeeps, ShareKeeps
     DEF HandlesNext
<1>2. CASE UNCHANGED allHandleVars
  <2>1. HandlesType'
    BY <1>2, ZenonT(40) DEF allHandleVars, handleVars, cellVars, HandlesInv, HandlesType
  <2> QED BY <1>2, <2>1, OthersKeep, ZenonT(40) DEF allHandleVars, handleVars, cellVars
<1> QED BY <1>1, <1>2

\* What callers can see of a resource was opened on the share it is filed
\* under, and a break of it can find its slot, however opens, reopens, closes
\* and replacements of the share overlap.
THEOREM HandlePublished == HandlesSpec => []PublishedHandle
<1>1. HandlesInv => PublishedHandle
  BY ZenonT(40) DEF HandlesInv, Published, OpenedOn, PublishedHandle, PublishedOnOwnShare, PublishedIsRegistered
<1> QED BY <1>1, HandlesInitially, HandlesInductive, PTL DEF HandlesSpec

\* One Close reaches the wire, and once it has succeeded the server holds no
\* handle of the resource.
THEOREM HandleClosedForGood == HandlesSpec => []ClosedForGood
<1>1. HandlesInv => ClosedForGood
  BY ZenonT(40) DEF HandlesInv, OneClose, ClosedForGood
<1> QED BY <1>1, HandlesInitially, HandlesInductive, PTL DEF HandlesSpec
=============================================================================
