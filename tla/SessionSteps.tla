---------------------------- MODULE SessionSteps ----------------------------
(***************************************************************************)
(* The inductive invariant of SessionRecovery, and that it survives every  *)
(* step that leaves the shared state alone.                                *)
(*                                                                         *)
(* The invariant has two layers.  The stacks are well formed and each      *)
(* mutex has one holder; this is about the shape of the stacks only.  And  *)
(* every frame agrees with the shared state: what it read of the session   *)
(* is current, or belongs to an object that the runtime refuses for good.  *)
(***************************************************************************)
EXTENDS SessionRecovery, TLAPS

-----------------------------------------------------------------------------
(* Types of frames and of the shared state.                                *)

ReauthPoints == {"lock", "begin", "setup", "fail", "publish", "store", "invalidate", "replay",
                 "replaying", "done"}
RecoverPoints == {"find", "registering", "register", "end"}
ReconnectPoints == {"lock", "send", "sent", "recovering", "object", "retry", "check", "store"}
CallPoints == {"gate", "gated", "send", "sent", "recovering", "object gate", "object gated",
               "object", "session", "load", "prepare", "channel", "submit", "invalidate", "over"}

ReauthFrame ==
  [call : {"reauthenticate"}, at : ReauthPoints, spawned : BOOLEAN, expected : Nat,
   generation : Nat, same : BOOLEAN, attempt : Nat, id : Nat, object : Nat]
RecoverFrame ==
  [call : {"recover"}, at : RecoverPoints, spawned : BOOLEAN, previous : Nat, id : Nat]
ReconnectFrame ==
  [call : {"reconnect"}, at : ReconnectPoints, spawned : BOOLEAN, session : Nat, attempt : Nat,
   id : Nat, tree : Nat, object : Nat]
CallFrame ==
  [call : CallKinds, at : CallPoints, spawned : BOOLEAN, id : Nat, tree : Nat, object : Nat]
Frame == ReauthFrame \cup RecoverFrame \cup ReconnectFrame \cup CallFrame

Object == [generation : Nat, phase : {"active", "recovering", "failed", "stale"}, id : Nat]

SharedType ==
  /\ conn \in [generation : Nat, up : BOOLEAN, losses : Nat]
  /\ session \in [id : Nat, object : Nat]
  /\ objects \in Seq(Object)
  /\ session.object \in 1..Len(objects)
  /\ share \in [tree : Nat, session : Nat, object : Nat, closed : BOOLEAN, replayed : BOOLEAN]
  /\ issued \in Nat

-----------------------------------------------------------------------------
(* The shape of the stacks.                                                *)

\* A call that awaits another one.
Waiting == {"gated", "object gated", "registering", "recovering", "replaying"}

\* The two mutexes, and the connect that nothing else may overtake.
Locks == {"session", "share", "connect"}
Holds(lock, fr) ==
  \/ lock = "session" /\ fr.call = "reauthenticate" /\ fr.at # "lock"
  \/ lock = "share" /\ fr.call = "reconnect" /\ fr.at # "lock"
  \/ lock = "connect" /\ fr.call = "connect"

Nested == \A p \in Procs : \A i \in DOMAIN stack[p] : i < Len(stack[p]) => stack[p][i].at \in Waiting
Alone ==
  \A lock \in Locks : \A p, q \in Procs : \A i \in DOMAIN stack[p] : \A j \in DOMAIN stack[q] :
    Holds(lock, stack[p][i]) /\ Holds(lock, stack[q][j]) => p = q /\ i = j

StackInv == stack \in [Procs -> Seq(Frame)] /\ Nested /\ Alone

-----------------------------------------------------------------------------
(* Frames and the shared state.                                            *)

\* An object that was the session's: it still is, or is refused for good.
Known(o) == o <= session.object /\ (o = session.object \/ ~Active(o))

SharedInv ==
  /\ \A o \in DOMAIN objects :
       /\ objects[o].generation <= conn.generation
       /\ Active(o) => conn.up /\ objects[o].generation = conn.generation
  /\ objects[session.object].id = session.id
  /\ Known(share.object)
  /\ share.session <= session.object
  /\ RecoveredShareBelongs

ReauthInv(fr) ==
  /\ fr.at \in {"begin", "setup", "publish"} /\ ~fr.same => ~Active(session.object)
  /\ fr.at = "store" =>
       /\ session.object < fr.object /\ fr.object <= Len(objects)
       /\ objects[fr.object].id = fr.id
       /\ ~Active(session.object)

ReconnectInv(fr) ==
  /\ share # NoShare
  /\ fr.session <= session.object
  /\ fr.at \in {"check", "store"} => share.object <= fr.object /\ Known(fr.object)
  /\ fr.session = session.object =>
       /\ fr.at = "sent" => fr.id = session.id
       /\ fr.at \in {"object", "check", "store"} => fr.tree = session.id
       /\ fr.at \in {"check", "store"} => fr.object = session.object

ShareCallInv(fr) ==
  /\ share # NoShare
  /\ fr.at \in {"prepare", "channel", "submit", "sent"} => Known(fr.object)
  /\ fr.at = "submit" /\ Active(fr.object) => fr.id = objects[fr.object].id
  /\ fr.at = "sent" => fr.object # 0 /\ fr.id = objects[fr.object].id

ConnectInv(fr) ==
  /\ share = NoShare
  /\ fr.at = "session" => Known(fr.object)

FrameInv(fr) ==
  /\ fr.call = "reauthenticate" => ReauthInv(fr)
  /\ fr.call = "reconnect" => ReconnectInv(fr)
  /\ fr.call \in {"execute", "disconnect"} => ShareCallInv(fr)
  /\ fr.call = "connect" => ConnectInv(fr)

FramesInv == \A p \in Procs : \A i \in DOMAIN stack[p] : FrameInv(stack[p][i])

SessionInv == SharedType /\ StackInv /\ SharedInv /\ FramesInv

-----------------------------------------------------------------------------
(* What the stacks can become.                                             *)

Free(lock) == \A q \in Procs : \A i \in DOMAIN stack[q] : ~Holds(lock, stack[q][i])

\* A frame other than the innermost one of p.
Beside(p, fr) ==
  \E q \in Procs : \E i \in DOMAIN stack[q] : (q # p \/ i # Len(stack[p])) /\ fr = stack[q][i]

\* One stack is replaced.  Nobody gets a mutex that is held, and the frames
\* below the innermost one wait.
LEMMA StackMoves ==
  ASSUME StackInv, NEW p \in Procs, NEW s \in Seq(Frame), NEW k \in Nat,
         stack' = [stack EXCEPT ![p] = s],
         \A j \in DOMAIN s : j < Len(s) => s[j].at \in Waiting,
         \A lock \in Locks : \A j \in DOMAIN s : Holds(lock, s[j]) =>
           \/ j + k \in DOMAIN stack[p] /\ Holds(lock, stack[p][j + k])
           \/ j = Len(s) /\ Free(lock)
  PROVE  /\ StackInv'
         /\ stack'[p] = s
         /\ \A q \in Procs \ {p} : stack'[q] = stack[q]
<1>1. /\ stack' \in [Procs -> Seq(Frame)]
      /\ stack'[p] = s
      /\ \A q \in Procs \ {p} : stack'[q] = stack[q]
  BY DEF StackInv
<1>2. Nested'
  BY <1>1 DEF StackInv, Nested
<1>3. Alone'
  <2> SUFFICES ASSUME NEW lock \in Locks, NEW q \in Procs, NEW r \in Procs,
                      NEW i \in DOMAIN stack'[q], NEW j \in DOMAIN stack'[r],
                      Holds(lock, stack'[q][i]), Holds(lock, stack'[r][j])
               PROVE  q = r /\ i = j
    BY DEF Alone, Holds
  <2>1. \A x \in DOMAIN s : x \in Nat
    OBVIOUS
  <2>2. CASE q = p /\ r = p
    <3>1. i \in Nat /\ j \in Nat /\ i \in DOMAIN s /\ j \in DOMAIN s
      BY <1>1, <2>1, <2>2
    <3>2. CASE Free(lock)
      BY <1>1, <2>2, <3>1, <3>2 DEF Free
    <3>3. CASE ~Free(lock)
      <4>1. i + k \in DOMAIN stack[p] /\ Holds(lock, stack[p][i + k])
        BY <1>1, <2>2, <3>3
      <4>2. j + k \in DOMAIN stack[p] /\ Holds(lock, stack[p][j + k])
        BY <1>1, <2>2, <3>3
      <4>3. i + k = j + k
        BY <4>1, <4>2 DEF StackInv, Alone
      <4> QED BY <2>2, <3>1, <4>3
    <3> QED BY <3>2, <3>3
  <2>3. CASE q = p /\ r # p
    <3>1. j \in DOMAIN stack[r] /\ Holds(lock, stack[r][j])
      BY <1>1, <2>3, ZenonT(40)
    <3>2. ~Free(lock)
      BY <3>1 DEF Free
    <3>3. i + k \in DOMAIN stack[p] /\ Holds(lock, stack[p][i + k])
      BY <1>1, <2>3, <3>2, ZenonT(40)
    <3> QED BY <2>3, <3>1, <3>3 DEF StackInv, Alone
  <2>4. CASE q # p /\ r = p
    <3>1. i \in DOMAIN stack[q] /\ Holds(lock, stack[q][i])
      BY <1>1, <2>4
    <3>2. ~Free(lock)
      BY <3>1 DEF Free
    <3>3. j + k \in DOMAIN stack[p] /\ Holds(lock, stack[p][j + k])
      BY <1>1, <2>4, <3>2
    <3> QED BY <2>4, <3>1, <3>3 DEF StackInv, Alone
  <2>5. CASE q # p /\ r # p
    BY <1>1, <2>5 DEF StackInv, Alone
  <2> QED BY <2>2, <2>3, <2>4, <2>5, ZenonT(40)
<1> QED BY <1>1, <1>2, <1>3 DEF StackInv

\* A step that touches no call leaves the stacks as they are.
LEMMA StackSame == ASSUME StackInv, stack' = stack PROVE StackInv'
<1>1. Nested'
  BY ZenonT(40) DEF StackInv, Nested
<1>2. Alone'
  BY DEF StackInv, Alone, Holds
<1> QED BY <1>1, <1>2 DEF StackInv

\* The stack of p below its innermost call.
LEMMA Below ==
  ASSUME StackInv, NEW p \in Procs, stack[p] # <<>>
  PROVE  /\ stack[p] \in Seq(Frame) /\ Depth(p) \in Nat \ {0} /\ Depth(p) = Len(stack[p])
         /\ Top(p) \in Frame /\ Depth(p) \in DOMAIN stack[p]
         /\ Under(p) \in Seq(Frame) /\ Len(Under(p)) = Depth(p) - 1
         /\ \A i \in 1..(Depth(p) - 1) :
              Under(p)[i] = stack[p][i] /\ Under(p)[i].at \in Waiting /\ Under(p)[i] \in Frame
<1>1. stack[p] \in Seq(Frame) /\ Depth(p) \in Nat \ {0} /\ Depth(p) = Len(stack[p])
  BY DEF StackInv, Depth
<1>2. Top(p) \in Frame /\ Depth(p) \in DOMAIN stack[p]
  BY <1>1 DEF Top
<1>3. /\ Under(p) \in Seq(Frame) /\ Len(Under(p)) = Depth(p) - 1
      /\ \A i \in 1..(Depth(p) - 1) : Under(p)[i] = stack[p][i] /\ Under(p)[i] \in Frame
  BY <1>1 DEF Under
<1>4. \A i \in 1..(Depth(p) - 1) : stack[p][i].at \in Waiting
  BY <1>1 DEF StackInv, Nested
<1> QED BY <1>1, <1>2, <1>3, <1>4

\* The innermost call of p goes on with another frame.
LEMMA BecomeShape ==
  ASSUME StackInv, NEW p \in Procs, stack[p] # <<>>, NEW f \in Frame, Become(p, f),
         \A lock \in Locks : Holds(lock, f) => Holds(lock, Top(p)) \/ Free(lock)
  PROVE  /\ StackInv'
         /\ \A q \in Procs : \A i \in DOMAIN stack'[q] :
              stack'[q][i] = f \/ Beside(p, stack'[q][i])
<1> DEFINE s == Append(Under(p), f)
           n == Depth(p)
<1>1. /\ s \in Seq(Frame) /\ Len(s) = n /\ n \in Nat \ {0} /\ s[n] = f /\ DOMAIN s = 1..n
      /\ \A i \in 1..(n - 1) : s[i] = stack[p][i] /\ s[i].at \in Waiting
      /\ n = Len(stack[p]) /\ DOMAIN stack[p] = 1..n /\ Top(p) = stack[p][n]
  BY Below, SMTT(30) DEF Top, Depth
<1>2. stack' = [stack EXCEPT ![p] = s]
  BY DEF Become
<1> HIDE DEF s, n
<1>3. \A j \in DOMAIN s : j < Len(s) => s[j].at \in Waiting
  BY <1>1
<1>4. \A lock \in Locks : \A j \in DOMAIN s : Holds(lock, s[j]) =>
           \/ j + 0 \in DOMAIN stack[p] /\ Holds(lock, stack[p][j + 0])
           \/ j = Len(s) /\ Free(lock)
  <2> SUFFICES ASSUME NEW lock \in Locks, NEW j \in DOMAIN s, Holds(lock, s[j])
               PROVE  \/ j \in DOMAIN stack[p] /\ Holds(lock, stack[p][j])
                      \/ j = Len(s) /\ Free(lock)
    BY <1>1
  <2>1. CASE j = n
    BY <1>1, <2>1, ZenonT(40)
  <2>2. CASE j # n
    <3>1. j \in 1..(n - 1)
      BY <1>1, <2>2
    <3> QED BY <1>1, <3>1, ZenonT(40)
  <2> QED BY <2>1, <2>2, ZenonT(40)
<1>5. StackInv' /\ stack'[p] = s /\ \A q \in Procs \ {p} : stack'[q] = stack[q]
  <2>1. 0 \in Nat
    OBVIOUS
  <2>2. s \in Seq(Frame)
    BY <1>1
  <2> QED BY <1>2, <1>3, <1>4, <2>1, <2>2, StackMoves, ZenonT(60)
<1>6. ASSUME NEW q \in Procs, NEW i \in DOMAIN stack'[q], stack'[q][i] # f
      PROVE  Beside(p, stack'[q][i])
  <2>1. CASE q = p
    <3>1. i \in 1..(n - 1)
      BY <1>1, <1>5, <1>6, <2>1
    <3> QED BY <1>1, <1>5, <2>1, <3>1, SMTT(30) DEF Beside
  <2>2. CASE q # p
    BY <1>5, <2>2 DEF Beside
  <2> QED BY <2>1, <2>2
<1> QED BY <1>5, <1>6, ZenonT(40)

\* A stack with calls on top of it (Enter pushes the frame that waits and the new one).
LEMMA Pushed ==
  ASSUME NEW S, NEW u \in Seq(S), NEW e \in Seq(S)
  PROVE  /\ u \o e \in Seq(S) /\ Len(u \o e) = Len(u) + Len(e)
         /\ \A i \in 1..(Len(u) + Len(e)) :
              (u \o e)[i] = IF i <= Len(u) THEN u[i] ELSE e[i - Len(u)]
OBVIOUS

\* The innermost call of p awaits a new one.
LEMMA EnterShape ==
  ASSUME StackInv, NEW p \in Procs, stack[p] # <<>>, NEW f \in Frame, NEW g \in Frame,
         stack' = [stack EXCEPT ![p] = Under(p) \o <<f, g>>],
         f.at \in Waiting,
         \A lock \in Locks : ~Holds(lock, g) /\ (Holds(lock, f) => Holds(lock, Top(p)))
  PROVE  /\ StackInv'
         /\ \A q \in Procs : \A i \in DOMAIN stack'[q] :
              stack'[q][i] \in {f, g} \/ Beside(p, stack'[q][i])
<1> DEFINE s == Under(p) \o <<f, g>>
           n == Depth(p)
<1>1. /\ s \in Seq(Frame) /\ Len(s) = n + 1 /\ n \in Nat \ {0} /\ s[n] = f /\ s[n + 1] = g
      /\ DOMAIN s = 1..(n + 1)
      /\ \A i \in 1..(n - 1) : s[i] = stack[p][i] /\ s[i].at \in Waiting
      /\ n = Len(stack[p]) /\ DOMAIN stack[p] = 1..n /\ Top(p) = stack[p][n]
  <2> DEFINE u == Under(p)
             e == <<f, g>>
  <2>1. /\ n \in Nat \ {0} /\ u \in Seq(Frame) /\ Len(u) = n - 1 /\ n = Len(stack[p])
        /\ DOMAIN stack[p] = 1..n /\ Top(p) = stack[p][n]
        /\ \A i \in 1..(n - 1) : u[i] = stack[p][i] /\ u[i].at \in Waiting
    BY Below, SMTT(30) DEF Top, Depth
  <2>2. e \in Seq(Frame) /\ Len(e) = 2 /\ e[1] = f /\ e[2] = g
    OBVIOUS
  <2> HIDE DEF u, e, n
  <2> DEFINE t == u \o e
  <2>3. /\ t \in Seq(Frame) /\ Len(t) = Len(u) + Len(e)
        /\ \A i \in 1..(Len(u) + Len(e)) : t[i] = IF i <= Len(u) THEN u[i] ELSE e[i - Len(u)]
    BY <2>1, <2>2, Pushed, ZenonT(30)
  <2> HIDE DEF t
  <2>4. Len(u) + Len(e) = n + 1 /\ Len(u) = n - 1
    BY <2>1, <2>2
  <2>5. /\ Len(t) = n + 1
        /\ \A i \in 1..(n + 1) : t[i] = IF i <= n - 1 THEN u[i] ELSE e[i - (n - 1)]
    BY <2>3, <2>4
  <2>6. ASSUME NEW i \in 1..(n - 1) PROVE t[i] = u[i]
    <3>1. n \in Nat
      BY <2>1
    <3>2. i \in 1..(n + 1) /\ i <= n - 1
      BY <3>1
    <3> QED BY <2>5, <3>2, ZenonT(40)
  <2>7. t[n] = e[1] /\ t[n + 1] = e[2]
    <3>1. n \in 1..(n + 1) /\ ~(n <= n - 1) /\ n - (n - 1) = 1
      BY <2>1
    <3>2. n + 1 \in 1..(n + 1) /\ ~(n + 1 <= n - 1) /\ n + 1 - (n - 1) = 2
      BY <2>1, SMTT(30)
    <3> QED BY <2>5, <3>1, <3>2, SMTT(30)
  <2>8. DOMAIN t = 1..(n + 1)
    BY <2>3, <2>5
  <2> QED BY <2>1, <2>2, <2>3, <2>5, <2>6, <2>7, <2>8, ZenonT(40) DEF u, e, t
<1> HIDE DEF s, n
<1>2. \A j \in DOMAIN s : j \in 1..(n - 1) \/ j = n \/ j = n + 1
  BY <1>1
<1>3. \A j \in DOMAIN s : j < Len(s) => s[j].at \in Waiting
  BY <1>1, <1>2, SMTT(30)
<1>4. \A lock \in Locks : \A j \in DOMAIN s : Holds(lock, s[j]) =>
           \/ j + 0 \in DOMAIN stack[p] /\ Holds(lock, stack[p][j + 0])
           \/ j = Len(s) /\ Free(lock)
  <2> SUFFICES ASSUME NEW lock \in Locks, NEW j \in DOMAIN s, Holds(lock, s[j])
               PROVE  j \in DOMAIN stack[p] /\ Holds(lock, stack[p][j])
    BY <1>1, SMTT(30)
  <2>1. j # n + 1
    BY <1>1, ZenonT(40)
  <2>2. CASE j = n
    BY <1>1, <2>2, SMTT(30)
  <2>3. CASE j \in 1..(n - 1)
    <3>1. s[j] = stack[p][j]
      BY <1>1, <2>3, ZenonT(40)
    <3>2. n \in Nat /\ DOMAIN stack[p] = 1..n
      BY <1>1
    <3>3. j \in 1..n
      BY <2>3, <3>2
    <3> QED BY <3>1, <3>2, <3>3
  <2> QED BY <1>2, <2>1, <2>2, <2>3, ZenonT(40)
<1>5. StackInv' /\ stack'[p] = s /\ \A q \in Procs \ {p} : stack'[q] = stack[q]
  <2>1. 0 \in Nat /\ s \in Seq(Frame) /\ stack' = [stack EXCEPT ![p] = s]
    BY <1>1 DEF s
  <2> QED BY <1>3, <1>4, <2>1, StackMoves, ZenonT(40)
<1>6. ASSUME NEW q \in Procs, NEW i \in DOMAIN stack'[q], stack'[q][i] \notin {f, g}
      PROVE  Beside(p, stack'[q][i])
  <2>1. CASE q = p
    <3>1. i \in 1..(n - 1)
      BY <1>1, <1>2, <1>5, <1>6, <2>1, ZenonT(40)
    <3> QED BY <1>1, <1>5, <2>1, <3>1, SMTT(30) DEF Beside
  <2>2. CASE q # p
    BY <1>5, <2>2 DEF Beside
  <2> QED BY <2>1, <2>2, ZenonT(40)
<1> QED BY <1>5, <1>6

\* A stack is emptied.
LEMMA EmptyShape ==
  ASSUME StackInv, NEW p \in Procs, stack' = [stack EXCEPT ![p] = <<>>]
  PROVE  /\ StackInv'
         /\ \A q \in Procs : \A i \in DOMAIN stack'[q] : Beside(p, stack'[q][i])
<1> DEFINE s == <<>>
<1>1. s \in Seq(Frame) /\ DOMAIN s = {} /\ 0 \in Nat /\ stack' = [stack EXCEPT ![p] = s]
  OBVIOUS
<1> HIDE DEF s
<1>2. StackInv' /\ stack'[p] = s /\ \A q \in Procs \ {p} : stack'[q] = stack[q]
  BY <1>1, StackMoves, ZenonT(40)
<1> QED BY <1>1, <1>2 DEF Beside

\* A stack of one new call, which holds nothing that another one holds.
LEMMA BeginShape ==
  ASSUME StackInv, NEW p \in Procs, NEW f \in Frame, stack' = [stack EXCEPT ![p] = <<f>>],
         \A lock \in Locks : Holds(lock, f) => Free(lock)
  PROVE  /\ StackInv'
         /\ \A q \in Procs : \A i \in DOMAIN stack'[q] : stack'[q][i] = f \/ Beside(p, stack'[q][i])
<1> DEFINE s == <<f>>
<1>1. s \in Seq(Frame) /\ DOMAIN s = {1} /\ Len(s) = 1 /\ s[1] = f
  OBVIOUS
<1>2. 0 \in Nat /\ stack' = [stack EXCEPT ![p] = s]
  OBVIOUS
<1> HIDE DEF s
<1>3. StackInv' /\ stack'[p] = s /\ \A q \in Procs \ {p} : stack'[q] = stack[q]
  <2>1. s \in Seq(Frame) /\ \A j \in DOMAIN s : j < Len(s) => s[j].at \in Waiting
    BY <1>1
  <2>2. \A lock \in Locks : \A j \in DOMAIN s : Holds(lock, s[j]) =>
           \/ j + 0 \in DOMAIN stack[p] /\ Holds(lock, stack[p][j + 0])
           \/ j = Len(s) /\ Free(lock)
    BY <1>1, ZenonT(40)
  <2> QED BY <1>2, <2>1, <2>2, StackMoves, ZenonT(40)
<1> QED BY <1>1, <1>3 DEF Beside

\* A bounded attempt at depth i is dropped with every call it is in.
LEMMA DropShape ==
  ASSUME StackInv, NEW p \in Procs, NEW i \in 1..Depth(p), NEW f \in Frame,
         stack' = [stack EXCEPT ![p] = Append(SubSeq(@, 1, i - 1), f)],
         \A lock \in Locks : Holds(lock, f) => Holds(lock, stack[p][i])
  PROVE  /\ StackInv'
         /\ \A q \in Procs : \A j \in DOMAIN stack'[q] :
              stack'[q][j] = f \/ \E k \in DOMAIN stack[q] : stack'[q][j] = stack[q][k]
<1> DEFINE s == Append(SubSeq(stack[p], 1, i - 1), f)
<1>1. stack[p] \in Seq(Frame) /\ Len(stack[p]) \in Nat /\ i \in 1..Len(stack[p])
  BY SMTT(30) DEF StackInv, Depth
<1>2. /\ s \in Seq(Frame) /\ Len(s) = i /\ s[i] = f /\ DOMAIN s = 1..i
      /\ \A j \in 1..(i - 1) : s[j] = stack[p][j]
  BY <1>1
<1>3. stack' = [stack EXCEPT ![p] = s]
  BY ZenonT(40) DEF StackInv
<1> HIDE DEF s
<1>4. \A j \in DOMAIN s : j = i \/ (j \in 1..(i - 1) /\ j \in DOMAIN stack[p] /\ j < Len(stack[p]))
  BY <1>1, <1>2, SMTT(30)
<1>5. \A j \in DOMAIN s : j < Len(s) => s[j].at \in Waiting
  BY <1>2, <1>4, SMTT(30) DEF StackInv, Nested
<1>6. \A lock \in Locks : \A j \in DOMAIN s : Holds(lock, s[j]) =>
           \/ j + 0 \in DOMAIN stack[p] /\ Holds(lock, stack[p][j + 0])
           \/ j = Len(s) /\ Free(lock)
  BY <1>1, <1>2, <1>4
<1>7. StackInv' /\ stack'[p] = s /\ \A q \in Procs \ {p} : stack'[q] = stack[q]
  <2>1. 0 \in Nat
    OBVIOUS
  <2>2. s \in Seq(Frame)
    BY <1>2, ZenonT(40)
  <2> QED BY <1>3, <1>5, <1>6, <2>1, <2>2, StackMoves, ZenonT(60)
<1> QED BY <1>2, <1>4, <1>7, SMTT(30)

\* A task goes on without the caller that waited for it.
LEMMA DetachShape ==
  ASSUME StackInv, NEW p \in Procs, NEW i \in 1..Depth(p),
         stack' = [stack EXCEPT ![p] = SubSeq(@, i, Len(@))]
  PROVE  /\ StackInv'
         /\ \A q \in Procs : \A j \in DOMAIN stack'[q] :
              \E k \in DOMAIN stack[q] : stack'[q][j] = stack[q][k]
<1> DEFINE n == Len(stack[p])
           s == SubSeq(stack[p], i, n)
<1>1. stack[p] \in Seq(Frame) /\ n \in Nat /\ i \in 1..n
  BY DEF StackInv, Depth
<1>2. /\ s \in Seq(Frame) /\ Len(s) = n - i + 1 /\ DOMAIN s = 1..(n - i + 1)
      /\ \A j \in 1..(n - i + 1) : s[j] = stack[p][j + (i - 1)] /\ j + (i - 1) \in 1..n
  BY <1>1, SMTT(30)
<1>3. stack' = [stack EXCEPT ![p] = s] /\ DOMAIN stack[p] = 1..n /\ i - 1 \in Nat
  BY <1>1 DEF StackInv
<1>4. \A j \in DOMAIN s : j < Len(s) => j + (i - 1) < n
  BY <1>1, <1>2, SMTT(30)
<1>5. \A j \in DOMAIN s : j < Len(s) => s[j].at \in Waiting
  BY <1>2, <1>3, <1>4, ZenonT(40) DEF StackInv, Nested
<1> HIDE DEF s, n
<1>6. \A lock \in Locks : \A j \in DOMAIN s : Holds(lock, s[j]) =>
           \/ j + (i - 1) \in DOMAIN stack[p] /\ Holds(lock, stack[p][j + (i - 1)])
           \/ j = Len(s) /\ Free(lock)
  BY <1>2, <1>3
<1>7. StackInv' /\ stack'[p] = s /\ \A q \in Procs \ {p} : stack'[q] = stack[q]
  <2>1. s \in Seq(Frame) /\ i - 1 \in Nat
    BY <1>2, <1>3, ZenonT(40)
  <2> QED BY <1>3, <1>5, <1>6, <2>1, StackMoves, ZenonT(60)
<1>8. \A j \in DOMAIN s : j + (i - 1) \in DOMAIN stack[p] /\ s[j] = stack[p][j + (i - 1)]
  BY <1>2, <1>3, ZenonT(40)
<1>9. ASSUME NEW q \in Procs, NEW j \in DOMAIN stack'[q]
      PROVE  \E k \in DOMAIN stack[q] : stack'[q][j] = stack[q][k]
  <2>1. CASE q = p
    BY <1>7, <1>8, <2>1, ZenonT(30)
  <2>2. CASE q # p
    BY <1>7, <2>2, ZenonT(30)
  <2> QED BY <2>1, <2>2
<1> QED BY <1>7, <1>9

\* The kind of a frame tells which fields it has.
LEMMA Kinds ==
  ASSUME NEW fr \in Frame
  PROVE  /\ fr.call = "reauthenticate" => fr \in ReauthFrame
         /\ fr.call = "recover" => fr \in RecoverFrame
         /\ fr.call = "reconnect" => fr \in ReconnectFrame
         /\ fr.call \in CallKinds => fr \in CallFrame
         /\ fr.call \in {"reauthenticate", "recover", "reconnect"} \cup CallKinds
BY DEF Frame, ReauthFrame, RecoverFrame, ReconnectFrame, CallFrame, CallKinds

\* A call that goes on is the same call, holds what it held, and is at none
\* of the points at which something is asked of it.
LEMMA ResumedFrame ==
  ASSUME NEW g \in Frame, g.at \in Waiting, NEW ok \in BOOLEAN, session.id \in Nat, FrameInv(g)
  PROVE  /\ Resumed(g, ok) \in Frame
         /\ \A lock \in Locks : Holds(lock, Resumed(g, ok)) => Holds(lock, g)
         /\ FrameInv(Resumed(g, ok))
<1> DEFINE f == Resumed(g, ok)
<1>1. CASE g.call = "reauthenticate"
  <2>1. g \in ReauthFrame /\ g.at = "replaying"
    BY <1>1, Kinds, ZenonT(40) DEF ReauthFrame, ReauthPoints, Waiting
  <2>2. f = [g EXCEPT !.id = g.id, !.at = "done"]
    BY <2>1 DEF Resumed, ReauthFrame
  <2>3. f \in ReauthFrame /\ f.call = g.call /\ f.at = "done"
    BY <2>1, <2>2, ZenonT(40) DEF ReauthFrame, ReauthPoints
  <2> HIDE DEF f
  <2>4. FrameInv(f)
    BY <1>1, <2>3, ZenonT(40) DEF FrameInv, ReauthInv
  <2> QED BY <1>1, <2>1, <2>3, <2>4 DEF Holds, Frame, f
<1>2. CASE g.call = "recover"
  <2>1. g \in RecoverFrame /\ g.at = "registering"
    BY <1>2, Kinds, ZenonT(40) DEF RecoverFrame, RecoverPoints, Waiting
  <2>2. f = [g EXCEPT !.id = session.id, !.at = IF ok THEN "register" ELSE "end"]
    BY <2>1 DEF Resumed
  <2>3. f \in RecoverFrame /\ f.call = g.call
    BY <2>1, <2>2, ZenonT(40) DEF RecoverFrame, RecoverPoints
  <2> HIDE DEF f
  <2>4. FrameInv(f)
    BY <1>2, <2>3, ZenonT(40) DEF FrameInv
  <2> QED BY <1>2, <2>3, <2>4 DEF Holds, Frame, f
<1>3. CASE g.call = "reconnect"
  <2>1. g \in ReconnectFrame /\ g.at = "recovering"
    BY <1>3, Kinds, ZenonT(40) DEF ReconnectFrame, ReconnectPoints, Waiting
  <2>2. f = [g EXCEPT !.id = g.id, !.at = "retry"]
    BY <1>3, <2>1 DEF Resumed
  <2>3. f \in ReconnectFrame /\ f.call = g.call /\ f.at = "retry" /\ f.session = g.session
    BY <2>1, <2>2, ZenonT(40) DEF ReconnectFrame, ReconnectPoints
  <2> HIDE DEF f
  <2>4. FrameInv(f)
    BY <1>3, <2>3, ZenonT(40) DEF FrameInv, ReconnectInv
  <2> QED BY <1>3, <2>1, <2>3, <2>4, ZenonT(40) DEF Holds, Frame, f
<1>4. CASE g.call \in CallKinds
  <2>1. g \in CallFrame /\ g.at \in {"gated", "object gated", "recovering"}
    BY <1>4, Kinds, ZenonT(40) DEF CallFrame, CallPoints, Waiting
  <2>2. \E at \in {"over", "load", "send", "object"} : f = [g EXCEPT !.id = g.id, !.at = at]
    <3>1. g.call # "reconnect"
      BY <1>4 DEF CallKinds
    <3>2. CASE g.at = "gated"
      BY <3>2, ZenonT(40) DEF Resumed
    <3>3. CASE g.at = "object gated"
      BY <3>3, ZenonT(40) DEF Resumed
    <3>4. CASE g.at = "recovering"
      BY <3>1, <3>4 DEF Resumed
    <3> QED BY <2>1, <3>2, <3>3, <3>4, ZenonT(40)
  <2>3. f \in CallFrame /\ f.call = g.call /\ f.at \in {"over", "load", "send", "object"}
    BY <2>1, <2>2, ZenonT(40) DEF CallFrame, CallPoints
  <2> HIDE DEF f
  <2>4. FrameInv(f)
    BY <1>4, <2>3, ZenonT(40) DEF FrameInv, ShareCallInv, ConnectInv, CallKinds
  <2> QED BY <1>4, <2>3, <2>4, ZenonT(40) DEF Holds, Frame, f, CallKinds
<1> QED BY <1>1, <1>2, <1>3, <1>4, Kinds

\* The innermost call of p returns, and the one that awaited it goes on.
LEMMA ReturnShape ==
  ASSUME StackInv, FramesInv, session.id \in Nat, NEW p \in Procs, stack[p] # <<>>,
         NEW ok \in BOOLEAN, Return(p, ok)
  PROVE  /\ StackInv'
         /\ \A q \in Procs : \A i \in DOMAIN stack'[q] :
              \/ Beside(p, stack'[q][i])
              \/ \E g \in Frame : g.at \in Waiting /\ Beside(p, g) /\ stack'[q][i] = Resumed(g, ok)
<1> DEFINE n == Depth(p)
           g == stack[p][n - 1]
           f == Resumed(g, ok)
           s == [Under(p) EXCEPT ![n - 1] = f]
<1>1. /\ n \in Nat \ {0} /\ n = Len(stack[p]) /\ DOMAIN stack[p] = 1..n
      /\ Under(p) \in Seq(Frame) /\ Len(Under(p)) = n - 1 /\ DOMAIN Under(p) = 1..(n - 1)
      /\ \A i \in 1..(n - 1) : Under(p)[i] = stack[p][i] /\ Under(p)[i].at \in Waiting
  BY Below
<1>2. stack' = [stack EXCEPT ![p] = <<>>] \/ (n # 1 /\ stack' = [stack EXCEPT ![p] = s])
  <2>1. n # 1 => n - 1 \in 1..(n - 1)
    <3>1. n \in Nat \ {0}
      BY <1>1, ZenonT(40)
    <3> HIDE DEF n
    <3> QED BY <3>1, SMTT(30)
  <2>2. n # 1 => Under(p)[n - 1] = g
    BY <1>1, <2>1
  <2> QED BY <1>1, <2>2, ZenonT(40) DEF Return, StackInv
<1>3. CASE stack' = [stack EXCEPT ![p] = <<>>]
  BY <1>3, EmptyShape, ZenonT(40)
<1>4. CASE n # 1 /\ stack' = [stack EXCEPT ![p] = s]
  <2>1. n - 1 \in 1..(n - 1) /\ n - 1 \in 1..n /\ n - 1 < n
    <3>1. n \in Nat \ {0} /\ n # 1
      BY <1>1, <1>4, ZenonT(40)
    <3> HIDE DEF n
    <3> QED BY <3>1, SMTT(30)
  <2>2. g \in Frame /\ g.at \in Waiting /\ FrameInv(g)
    BY <1>1, <2>1, SMTT(30) DEF StackInv, FramesInv
  <2>3. Beside(p, g)
    BY <1>1, <2>1, SMTT(30) DEF Beside
  <2>4. f \in Frame /\ \A lock \in Locks : Holds(lock, f) => Holds(lock, g)
    BY <2>2, ResumedFrame, ZenonT(40)
  <2> HIDE DEF f
  <2>5. /\ s \in Seq(Frame) /\ Len(s) = n - 1 /\ DOMAIN s = 1..(n - 1) /\ s[n - 1] = f
        /\ \A i \in 1..(n - 1) : i # n - 1 => s[i] = stack[p][i] /\ s[i].at \in Waiting
    BY <1>1, <2>1, <2>4, SMTT(30)
  <2> HIDE DEF s
  <2>6. \A j \in DOMAIN s : j < Len(s) => s[j].at \in Waiting
    BY <2>5, SMTT(30)
  <2>7. \A j \in 1..(n - 1) : j + 0 \in DOMAIN stack[p] /\ j + 0 = j
    BY <1>1, SMTT(30)
  <2>8. \A lock \in Locks : \A j \in DOMAIN s : Holds(lock, s[j]) =>
           \/ j + 0 \in DOMAIN stack[p] /\ Holds(lock, stack[p][j + 0])
           \/ j = Len(s) /\ Free(lock)
    <3> SUFFICES ASSUME NEW lock \in Locks, NEW j \in DOMAIN s, Holds(lock, s[j])
                 PROVE  j \in DOMAIN stack[p] /\ Holds(lock, stack[p][j])
      BY <2>5, <2>7, ZenonT(40)
    <3>1. CASE j = n - 1
      BY <2>4, <2>5, <2>7, <3>1, ZenonT(40)
    <3>2. CASE j # n - 1
      BY <2>5, <2>7, <3>2
    <3> QED BY <3>1, <3>2, ZenonT(40)
  <2>9. StackInv' /\ stack'[p] = s /\ \A q \in Procs \ {p} : stack'[q] = stack[q]
    <3>1. 0 \in Nat /\ s \in Seq(Frame) /\ stack' = [stack EXCEPT ![p] = s]
      BY <1>4, <2>5
    <3> QED BY <2>6, <2>8, <3>1, StackMoves, ZenonT(40)
  <2>10. ASSUME NEW q \in Procs, NEW i \in DOMAIN stack'[q]
         PROVE  Beside(p, stack'[q][i]) \/ stack'[q][i] = f
    <3>1. CASE q = p
      <4>1. i \in 1..(n - 1) /\ stack'[q][i] = s[i]
        BY <2>5, <2>9, <3>1, ZenonT(40)
      <4>2. i \in DOMAIN stack[p] /\ i # Len(stack[p])
        BY <1>1, <4>1, SMTT(30)
      <4> QED BY <2>5, <3>1, <4>1, <4>2, ZenonT(40) DEF Beside
    <3>2. CASE q # p
      BY <2>9, <3>2, ZenonT(40) DEF Beside
    <3> QED BY <3>1, <3>2
  <2> QED BY <2>2, <2>3, <2>9, <2>10, ZenonT(40) DEF f
<1> QED BY <1>2, <1>3, <1>4, ZenonT(40)

-----------------------------------------------------------------------------
(* Steps that leave the shared state alone.                                *)

\* A frame that is not the innermost one of p agrees with the shared state,
\* and holds nothing that the innermost one holds.
LEMMA BesideHolds ==
  ASSUME StackInv, FramesInv, NEW p \in Procs, NEW fr, Beside(p, fr)
  PROVE  /\ fr \in Frame /\ FrameInv(fr)
         /\ stack[p] # <<>> => \A lock \in Locks : Holds(lock, Top(p)) => ~Holds(lock, fr)
<1>1. PICK q \in Procs : \E i \in DOMAIN stack[q] : (q # p \/ i # Len(stack[p])) /\ fr = stack[q][i]
  BY DEF Beside
<1>2. PICK i \in DOMAIN stack[q] : (q # p \/ i # Len(stack[p])) /\ fr = stack[q][i]
  BY <1>1, ZenonT(40)
<1>3. fr \in Frame /\ FrameInv(fr)
  BY <1>2, SMTT(30) DEF StackInv, FramesInv
<1>4. ASSUME stack[p] # <<>>, NEW lock \in Locks, Holds(lock, Top(p)) PROVE ~Holds(lock, fr)
  <2>1. Depth(p) = Len(stack[p]) /\ Depth(p) \in DOMAIN stack[p] /\ Top(p) = stack[p][Depth(p)]
    BY <1>4, Below, ZenonT(40) DEF Top
  <2> QED BY <1>2, <1>4, <2>1, SMTT(30) DEF StackInv, Alone
<1> QED BY <1>3, <1>4

quiet == <<conn, session, objects, share>>

\* A step that leaves connection, session, objects and share alone needs only
\* its frames checked.
LEMMA Quiet ==
  ASSUME SessionInv, UNCHANGED quiet, issued' \in Nat, StackInv',
         \A q \in Procs : \A i \in DOMAIN stack'[q] : FrameInv(stack'[q][i])
  PROVE  SessionInv'
<1>1. SharedType' /\ SharedInv'
  BY SMTT(30) DEF SessionInv, SharedType, SharedInv, quiet, Known, Active, RecoveredShareBelongs
<1>2. ASSUME NEW q \in Procs, NEW i \in DOMAIN stack'[q] PROVE FrameInv(stack[q][i])'
  <2>1. FrameInv(stack'[q][i]) /\ UNCHANGED <<conn, session, objects, share>>
    BY DEF quiet
  <2> QED BY <2>1, ZenonT(40) DEF FrameInv, ReauthInv, ReconnectInv, ShareCallInv, ConnectInv, Known, Active
<1> QED BY <1>1, <1>2, ZenonT(40) DEF SessionInv, FramesInv

\* A call goes to its next point and nothing else changes.
LEMMA BecomeQuiet ==
  ASSUME SessionInv, UNCHANGED quiet, issued' \in Nat, NEW p \in Procs, stack[p] # <<>>,
         NEW f \in Frame, Become(p, f), FrameInv(f),
         \A lock \in Locks : Holds(lock, f) => Holds(lock, Top(p)) \/ Free(lock)
  PROVE  SessionInv'
<1>1. /\ StackInv'
      /\ \A q \in Procs : \A i \in DOMAIN stack'[q] : stack'[q][i] = f \/ Beside(p, stack'[q][i])
  BY BecomeShape DEF SessionInv
<1>2. \A q \in Procs : \A i \in DOMAIN stack'[q] : FrameInv(stack'[q][i])
  BY <1>1, BesideHolds, ZenonT(40) DEF SessionInv
<1> QED BY <1>1, <1>2, Quiet

\* A call awaits another one and nothing else changes.
LEMMA EnterQuiet ==
  ASSUME SessionInv, UNCHANGED quiet, issued' \in Nat, NEW p \in Procs, stack[p] # <<>>,
         NEW f \in Frame, NEW g \in Frame, FrameInv(f), FrameInv(g),
         stack' = [stack EXCEPT ![p] = Under(p) \o <<f, g>>],
         f.at \in Waiting,
         \A lock \in Locks : ~Holds(lock, g) /\ (Holds(lock, f) => Holds(lock, Top(p)))
  PROVE  SessionInv'
<1>1. /\ StackInv'
      /\ \A q \in Procs : \A i \in DOMAIN stack'[q] :
           stack'[q][i] \in {f, g} \/ Beside(p, stack'[q][i])
  BY EnterShape, ZenonT(40) DEF SessionInv
<1>2. \A q \in Procs : \A i \in DOMAIN stack'[q] : FrameInv(stack'[q][i])
  BY <1>1, BesideHolds, ZenonT(40) DEF SessionInv
<1> QED BY <1>1, <1>2, Quiet

\* A call returns to the one that awaits it and nothing else changes.
LEMMA ReturnQuiet ==
  ASSUME SessionInv, UNCHANGED quiet, issued' \in Nat, NEW p \in Procs, stack[p] # <<>>,
         NEW ok \in BOOLEAN, Return(p, ok)
  PROVE  SessionInv'
<1>0. session.id \in Nat
  BY ZenonT(40) DEF SessionInv, SharedType
<1>1. /\ StackInv'
      /\ \A q \in Procs : \A i \in DOMAIN stack'[q] :
              \/ Beside(p, stack'[q][i])
              \/ \E g \in Frame : g.at \in Waiting /\ Beside(p, g) /\ stack'[q][i] = Resumed(g, ok)
  BY <1>0, ReturnShape, ZenonT(40) DEF SessionInv
<1>2. ASSUME NEW q \in Procs, NEW i \in DOMAIN stack'[q] PROVE FrameInv(stack'[q][i])
  <2>1. CASE Beside(p, stack'[q][i])
    BY <2>1, BesideHolds, ZenonT(40) DEF SessionInv
  <2>2. ASSUME NEW g \in Frame, g.at \in Waiting, Beside(p, g), stack'[q][i] = Resumed(g, ok)
        PROVE  FrameInv(stack'[q][i])
    <3>1. FrameInv(g)
      BY <2>2, BesideHolds, ZenonT(40) DEF SessionInv
    <3> QED BY <1>0, <2>2, <3>1, ResumedFrame, ZenonT(40)
  <2> QED BY <1>1, <2>1, <2>2, ZenonT(40)
<1> QED BY <1>1, <1>2, Quiet, ZenonT(40)

\* A caller has its result and nothing else changes.
LEMMA FinishQuiet ==
  ASSUME SessionInv, UNCHANGED quiet, issued' \in Nat, NEW p \in Procs, Finish(p)
  PROVE  SessionInv'
<1>1. StackInv' /\ \A q \in Procs : \A i \in DOMAIN stack'[q] : Beside(p, stack'[q][i])
  BY EmptyShape, ZenonT(40) DEF SessionInv, Finish
<1>2. \A q \in Procs : \A i \in DOMAIN stack'[q] : FrameInv(stack'[q][i])
  BY <1>1, BesideHolds, ZenonT(40) DEF SessionInv
<1> QED BY <1>1, <1>2, Quiet

\* A call at one of its points, and what the invariant says of it.
LEMMA TopIs ==
  ASSUME SessionInv, NEW p \in Procs, stack[p] # <<>>
  PROVE  Top(p) \in Frame /\ FrameInv(Top(p))
<1>1. Depth(p) \in DOMAIN stack[p] /\ Top(p) \in Frame
  BY Below, ZenonT(40) DEF SessionInv
<1> QED BY <1>1, ZenonT(40) DEF SessionInv, FramesInv, Top

\* The innermost call of p goes on, and keeps what it holds.
LEMMA GoesOn ==
  ASSUME SessionInv, UNCHANGED quiet, issued' \in Nat, NEW p \in Procs, stack[p] # <<>>,
         NEW f \in Frame, Become(p, f), FrameInv(f), f.call = Top(p).call, Top(p).at # "lock"
  PROVE  SessionInv'
<1>1. \A lock \in Locks : Holds(lock, f) => Holds(lock, Top(p)) \/ Free(lock)
  BY DEF Holds
<1> QED BY <1>1, BecomeQuiet, ZenonT(40)

\* It awaits a call that begins.
LEMMA Awaits ==
  ASSUME SessionInv, UNCHANGED quiet, issued' \in Nat, NEW p \in Procs, stack[p] # <<>>,
         NEW f \in Frame, NEW g \in Frame, stack' = [stack EXCEPT ![p] = Under(p) \o <<f, g>>],
         FrameInv(f), f.call = Top(p).call, Top(p).at # "lock", f.at \in Waiting,
         FrameInv(g), \A lock \in Locks : ~Holds(lock, g)
  PROVE  SessionInv'
<1>1. \A lock \in Locks : ~Holds(lock, g) /\ (Holds(lock, f) => Holds(lock, Top(p)))
  BY ZenonT(40) DEF Holds
<1> QED BY <1>1, EnterQuiet, ZenonT(40)

\* A call that begins waits for its mutex and knows nothing of the session.
LEMMA Beginnings ==
  ASSUME SharedType, NEW id \in Nat, NEW spawned \in BOOLEAN
  PROVE  /\ ReauthenticateCall(id, spawned) \in Frame /\ FrameInv(ReauthenticateCall(id, spawned))
         /\ RecoverCall(id) \in Frame /\ FrameInv(RecoverCall(id))
         /\ ReconnectCall(spawned) \in Frame
         /\ share # NoShare => FrameInv(ReconnectCall(spawned))
         /\ \A lock \in Locks :
              /\ ~Holds(lock, ReauthenticateCall(id, spawned))
              /\ ~Holds(lock, RecoverCall(id))
              /\ ~Holds(lock, ReconnectCall(spawned))
<1>1. ReauthenticateCall(id, spawned) \in ReauthFrame
  BY ZenonT(40) DEF ReauthenticateCall, ReauthFrame, ReauthPoints
<1>2. RecoverCall(id) \in RecoverFrame
  BY ZenonT(40) DEF RecoverCall, RecoverFrame, RecoverPoints
<1>3. ReconnectCall(spawned) \in ReconnectFrame
  BY ZenonT(40) DEF ReconnectCall, ReconnectFrame, ReconnectPoints
<1>4. FrameInv(ReauthenticateCall(id, spawned)) /\ FrameInv(RecoverCall(id))
  BY ZenonT(40) DEF FrameInv, ReauthenticateCall, ReauthInv, RecoverCall
<1>5. ASSUME share # NoShare PROVE FrameInv(ReconnectCall(spawned))
  <2>1. session.object \in Nat /\ 0 <= session.object /\ session.object # 0
    BY SMTT(30) DEF SharedType
  <2> QED BY <1>5, <2>1, ZenonT(40) DEF FrameInv, ReconnectCall, ReconnectInv
<1>6. \A lock \in Locks :
        /\ ~Holds(lock, ReauthenticateCall(id, spawned))
        /\ ~Holds(lock, RecoverCall(id))
        /\ ~Holds(lock, ReconnectCall(spawned))
  BY DEF Holds, ReauthenticateCall, RecoverCall, ReconnectCall
<1> QED BY <1>1, <1>2, <1>3, <1>4, <1>5, <1>6, ZenonT(40) DEF Frame

\* What the shared state consists of.
LEMMA Shared ==
  ASSUME SessionInv
  PROVE  /\ SharedType /\ StackInv /\ SharedInv /\ FramesInv
         /\ session.id \in Nat /\ session.object \in Nat /\ session.object \in DOMAIN objects
         /\ conn.generation \in Nat /\ issued \in Nat
         /\ \A o \in DOMAIN objects : objects[o] \in Object
BY SMTT(30) DEF SessionInv, SharedType

-----------------------------------------------------------------------------
(* SessionContext::reauthenticate.                                         *)

\* A reauthentication at one of its points.
LEMMA ReauthAt ==
  ASSUME SessionInv, NEW p \in Procs, NEW at, Reauthentication(p, at)
  PROVE  /\ stack[p] # <<>> /\ Top(p) \in Frame /\ Top(p) \in ReauthFrame
         /\ Top(p).call = "reauthenticate" /\ Top(p).at = at /\ ReauthInv(Top(p))
<1>1. stack[p] # <<>> /\ Top(p).call = "reauthenticate" /\ Top(p).at = at
  BY ZenonT(40) DEF Reauthentication, At
<1> QED BY <1>1, TopIs, Kinds, ZenonT(40) DEF FrameInv

\* A reauthentication that goes on at a point at which nothing is asked of it.
LEMMA ReauthGoesOn ==
  ASSUME SessionInv, UNCHANGED quiet, issued' \in Nat, NEW p \in Procs, stack[p] # <<>>,
         NEW f \in ReauthFrame, Become(p, f), ReauthInv(f), Top(p).call = "reauthenticate",
         Top(p).at # "lock"
  PROVE  SessionInv'
<1>1. f \in Frame /\ f.call = "reauthenticate" /\ FrameInv(f)
  BY DEF Frame, ReauthFrame, FrameInv
<1> QED BY <1>1, GoesOn, ZenonT(40)

\* The mutex is taken; a generation other than the session's means that the
\* session's object is refused already.
LEMMA ReauthLockKeeps == ASSUME SessionInv, NEW p \in Procs, ReauthLock(p) PROVE SessionInv'
<1>1. UNCHANGED quiet /\ issued' \in Nat
  BY Shared DEF ReauthLock, quiet, local, remote
<1>2. /\ stack[p] # <<>> /\ Top(p) \in ReauthFrame /\ Top(p).call = "reauthenticate"
      /\ Top(p).at = "lock"
  BY ReauthAt DEF ReauthLock
<1>3. CASE Return(p, TRUE)
  BY <1>1, <1>2, <1>3, ReturnQuiet, ZenonT(40)
<1>4. CASE session.id = Top(p).expected
  <2> DEFINE same == objects[session.object].generation = conn.generation
             f == [Top(p) EXCEPT !.at = "begin", !.generation = conn.generation, !.same = same]
  <2>1. conn.generation \in Nat /\ same \in BOOLEAN
    BY Shared
  <2>2. Become(p, f)
    BY <1>4, ZenonT(40) DEF ReauthLock
  <2>3. ~same => ~Active(session.object)
    BY Shared DEF SharedInv
  <2> HIDE DEF same
  <2>4. f \in ReauthFrame /\ f.at = "begin" /\ f.same = same /\ f.call = "reauthenticate"
    BY <1>2, <2>1, ZenonT(40) DEF ReauthFrame, ReauthPoints
  <2> HIDE DEF f
  <2>5. f \in Frame /\ FrameInv(f)
    BY <2>3, <2>4, ZenonT(40) DEF Frame, FrameInv, ReauthInv
  <2>6. Free("session")
    <3>1. \A q \in Procs : stack[q] \in Seq(Frame) /\ DOMAIN stack[q] = 1..Depth(q)
      BY Shared DEF StackInv, Depth
    <3>2. ~InCall("reauthenticate", {"lock"})
      BY DEF ReauthLock, SessionLocked
    <3> QED BY <3>1, <3>2, ZenonT(40) DEF Free, Holds, InCall
  <2>7. \A lock \in Locks : Holds(lock, f) => Holds(lock, Top(p)) \/ Free(lock)
    BY <2>4, <2>6, ZenonT(40) DEF Holds
  <2> QED BY <1>1, <1>2, <2>2, <2>5, <2>7, BecomeQuiet, ZenonT(40)
<1> QED BY <1>3, <1>4, ZenonT(40) DEF ReauthLock

\* SessionSetup succeeded: the id is kept in the frame only.
LEMMA ReauthSetupKeeps == ASSUME SessionInv, NEW p \in Procs, ReauthSetup(p) PROVE SessionInv'
<1>1. UNCHANGED quiet /\ issued' \in Nat /\ issued' = issued + 1
  BY Shared DEF ReauthSetup, quiet, local
<1>2. /\ stack[p] # <<>> /\ Top(p) \in ReauthFrame /\ Top(p).call = "reauthenticate"
      /\ Top(p).at = "setup" /\ ReauthInv(Top(p))
  BY ReauthAt DEF ReauthSetup
<1> DEFINE f == [Top(p) EXCEPT !.at = "publish", !.id = issued']
<1>3. Become(p, f)
  BY DEF ReauthSetup
<1>4. f \in ReauthFrame /\ f.at = "publish" /\ f.same = Top(p).same
  BY <1>1, <1>2, ZenonT(40) DEF ReauthFrame, ReauthPoints
<1> HIDE DEF f
<1>5. ReauthInv(f)
  BY <1>2, <1>4, ZenonT(40) DEF ReauthInv
<1> QED BY <1>1, <1>2, <1>3, <1>4, <1>5, ReauthGoesOn, ZenonT(40)

\* SessionSetup failed: one more attempt, or the failure is recorded.
LEMMA ReauthSetupFailsKeeps ==
  ASSUME SessionInv, NEW p \in Procs, ReauthSetupFails(p) PROVE SessionInv'
<1>1. UNCHANGED quiet /\ issued' \in Nat
  BY Shared DEF ReauthSetupFails, quiet, local, remote
<1>2. /\ stack[p] # <<>> /\ Top(p) \in ReauthFrame /\ Top(p).call = "reauthenticate"
      /\ Top(p).at = "setup" /\ ReauthInv(Top(p))
  BY ReauthAt, ZenonT(40) DEF ReauthSetupFails
<1>3. CASE Top(p).attempt < MaxAttempts
  <2> DEFINE f == [Top(p) EXCEPT !.attempt = @ + 1]
  <2>1. Become(p, f)
    BY <1>3 DEF ReauthSetupFails
  <2>2. f \in ReauthFrame /\ f.at = "setup" /\ f.same = Top(p).same
    BY <1>2, SMTT(30) DEF ReauthFrame, ReauthPoints
  <2> HIDE DEF f
  <2>3. ReauthInv(f)
    BY <1>2, <2>2, ZenonT(40) DEF ReauthInv
  <2> QED BY <1>1, <1>2, <2>1, <2>2, <2>3, ReauthGoesOn, ZenonT(40)
<1>4. CASE ~(Top(p).attempt < MaxAttempts)
  <2> DEFINE f == [Top(p) EXCEPT !.at = "fail"]
  <2>1. Become(p, f)
    BY <1>4 DEF ReauthSetupFails
  <2>2. f \in ReauthFrame /\ f.at = "fail"
    BY <1>2, ZenonT(40) DEF ReauthFrame, ReauthPoints
  <2> HIDE DEF f
  <2>3. ReauthInv(f)
    BY <2>2, ZenonT(40) DEF ReauthInv
  <2> QED BY <1>1, <1>2, <2>1, <2>2, <2>3, ReauthGoesOn, ZenonT(40)
<1> QED BY <1>3, <1>4

\* The old SessionInfo is invalidated; no object changes.
LEMMA ReauthInvalidateKeeps ==
  ASSUME SessionInv, NEW p \in Procs, ReauthInvalidate(p) PROVE SessionInv'
<1>1. UNCHANGED quiet /\ issued' \in Nat
  BY Shared, ZenonT(40) DEF ReauthInvalidate, quiet, remote
<1>2. /\ stack[p] # <<>> /\ Top(p) \in ReauthFrame /\ Top(p).call = "reauthenticate"
      /\ Top(p).at = "invalidate"
  BY ReauthAt DEF ReauthInvalidate
<1> DEFINE f == [Top(p) EXCEPT !.at = "replay"]
<1>3. Become(p, f)
  BY DEF ReauthInvalidate, Goto
<1>4. f \in ReauthFrame /\ f.at = "replay"
  BY <1>2, ZenonT(40) DEF ReauthFrame, ReauthPoints
<1> HIDE DEF f
<1>5. ReauthInv(f)
  BY <1>4 DEF ReauthInv
<1> QED BY <1>1, <1>2, <1>3, <1>4, <1>5, ReauthGoesOn, ZenonT(40)

\* recover_shares is entered only when there is a share.
LEMMA ReauthReplayKeeps == ASSUME SessionInv, NEW p \in Procs, ReauthReplay(p) PROVE SessionInv'
<1>1. UNCHANGED quiet /\ issued' \in Nat
  BY Shared, ZenonT(40) DEF ReauthReplay, quiet, local, remote
<1>2. /\ stack[p] # <<>> /\ Top(p) \in ReauthFrame /\ Top(p).call = "reauthenticate"
      /\ Top(p).at = "replay"
  BY ReauthAt DEF ReauthReplay
<1>3. CASE share # NoShare
  <2> DEFINE f == [Top(p) EXCEPT !.at = "replaying"]
             g == ReconnectCall(FALSE)
  <2>1. stack' = [stack EXCEPT ![p] = Under(p) \o <<f, g>>]
    BY <1>3, ZenonT(40) DEF ReauthReplay, Enter
  <2>2. f \in ReauthFrame /\ f.at = "replaying" /\ f.call = "reauthenticate"
    BY <1>2 DEF ReauthFrame, ReauthPoints
  <2>3. g \in Frame /\ FrameInv(g) /\ \A lock \in Locks : ~Holds(lock, g)
    BY <1>3, Shared, Beginnings, ZenonT(40)
  <2> HIDE DEF f, g
  <2>4. f \in Frame /\ FrameInv(f) /\ f.at \in Waiting
    BY <2>2 DEF Frame, FrameInv, ReauthInv, Waiting
  <2> QED BY <1>1, <1>2, <2>1, <2>2, <2>3, <2>4, Awaits, ZenonT(40)
<1>4. CASE share = NoShare
  BY <1>1, <1>2, <1>4, ReturnQuiet, ZenonT(40) DEF ReauthReplay
<1> QED BY <1>3, <1>4, ZenonT(40)

\* The session's mutex is released.
LEMMA ReauthDoneKeeps == ASSUME SessionInv, NEW p \in Procs, ReauthDone(p) PROVE SessionInv'
<1>1. UNCHANGED quiet /\ issued' \in Nat
  BY Shared DEF ReauthDone, quiet, local, remote
<1> QED BY <1>1, ReauthAt, ReturnQuiet, ZenonT(40) DEF ReauthDone

-----------------------------------------------------------------------------
(* recover_session and recover_sessions.                                   *)

\* recover_session only finds the session and moves the registry's key.
LEMMA RecoverKeeps == ASSUME SessionInv, NEW p \in Procs, Recover(p) PROVE SessionInv'
<1>1. UNCHANGED quiet /\ issued' \in Nat
  BY Shared, ZenonT(40) DEF Recover, RecoverFind, RecoverRegister, RecoverEnds, quiet, local, remote
<1>2. stack[p] # <<>> /\ Top(p).call = "recover" /\ Top(p).at # "lock"
  BY ZenonT(40) DEF Recover, RecoverFind, RecoverRegister, RecoverEnds, At
<1>3. Top(p) \in RecoverFrame
  BY <1>2, TopIs, Kinds
<1>4. CASE Return(p, TRUE) \/ Return(p, FALSE)
  BY <1>1, <1>2, <1>4, ReturnQuiet, ZenonT(40)
<1>5. CASE RecoverFind(p) /\ ~Return(p, FALSE)
  <2> DEFINE f == [Top(p) EXCEPT !.at = "registering", !.previous = session.id]
             g == ReauthenticateCall(session.id, FALSE)
  <2>1. stack' = [stack EXCEPT ![p] = Under(p) \o <<f, g>>]
    BY <1>5, ZenonT(40) DEF RecoverFind
  <2>2. f \in RecoverFrame /\ f.at = "registering" /\ f.call = "recover"
    BY <1>3, Shared, ZenonT(40) DEF RecoverFrame, RecoverPoints
  <2>3. g \in Frame /\ FrameInv(g) /\ \A lock \in Locks : ~Holds(lock, g)
    BY Shared, Beginnings, ZenonT(40)
  <2> HIDE DEF f, g
  <2>4. f \in Frame /\ FrameInv(f) /\ f.at \in Waiting
    BY <2>2, ZenonT(40) DEF Frame, FrameInv, Waiting
  <2> QED BY <1>1, <1>2, <2>1, <2>2, <2>3, <2>4, Awaits, ZenonT(40)
<1> QED BY <1>4, <1>5, ZenonT(40) DEF Recover, RecoverRegister, RecoverEnds

-----------------------------------------------------------------------------
(* TreeContext::reconnect.                                                 *)

\* A reconnection at one of its points.
LEMMA ReconnectAt ==
  ASSUME SessionInv, NEW p \in Procs, NEW at, Reconnection(p, at)
  PROVE  /\ stack[p] # <<>> /\ Top(p) \in Frame /\ Top(p) \in ReconnectFrame
         /\ Top(p).call = "reconnect" /\ Top(p).at = at /\ ReconnectInv(Top(p))
<1>1. stack[p] # <<>> /\ Top(p).call = "reconnect" /\ Top(p).at = at
  BY ZenonT(40) DEF Reconnection, At
<1> QED BY <1>1, TopIs, Kinds, ZenonT(40) DEF FrameInv

\* A reconnect goes to its next point with what it must know there.
LEMMA ReconnectGoesOn ==
  ASSUME SessionInv, UNCHANGED quiet, issued' \in Nat, NEW p \in Procs, stack[p] # <<>>,
         NEW f \in ReconnectFrame, Become(p, f), ReconnectInv(f), Top(p).call = "reconnect",
         Top(p).at # "lock"
  PROVE  SessionInv'
<1>1. f \in Frame /\ f.call = "reconnect" /\ FrameInv(f)
  BY DEF Frame, ReconnectFrame, FrameInv
<1> QED BY <1>1, GoesOn, ZenonT(40)

\* The share's mutex is taken and the session is read.
LEMMA ReconnectLockKeeps == ASSUME SessionInv, NEW p \in Procs, ReconnectLock(p) PROVE SessionInv'
<1>1. UNCHANGED quiet /\ issued' \in Nat
  BY Shared DEF ReconnectLock, quiet, local, remote
<1>2. /\ stack[p] # <<>> /\ Top(p) \in ReconnectFrame /\ Top(p).call = "reconnect"
      /\ Top(p).at = "lock" /\ ReconnectInv(Top(p))
  BY ReconnectAt DEF ReconnectLock
<1>3. CASE Return(p, TRUE) \/ Return(p, FALSE)
  BY <1>1, <1>2, <1>3, ReturnQuiet, ZenonT(40)
<1>4. CASE ~(Return(p, TRUE) \/ Return(p, FALSE))
  <2> DEFINE f == [Top(p) EXCEPT !.at = "send", !.session = session.object]
  <2>1. Become(p, f)
    BY <1>4, ZenonT(40) DEF ReconnectLock
  <2>2. f \in ReconnectFrame /\ f.at = "send" /\ f.session = session.object /\ f.call = "reconnect"
    BY <1>2, Shared, ZenonT(40) DEF ReconnectFrame, ReconnectPoints
  <2> HIDE DEF f
  <2>3. session.object <= session.object /\ share # NoShare
    BY <1>2, Shared, SMTT(30) DEF ReconnectInv
  <2>4. f \in Frame /\ FrameInv(f)
    BY <2>2, <2>3 DEF Frame, FrameInv, ReconnectInv
  <2>5. Free("share")
    <3>1. \A q \in Procs : stack[q] \in Seq(Frame) /\ DOMAIN stack[q] = 1..Depth(q)
      BY Shared DEF StackInv, Depth
    <3>2. ~InCall("reconnect", {"lock"})
      BY ZenonT(40) DEF ReconnectLock, ShareLocked
    <3> QED BY <3>1, <3>2, ZenonT(40) DEF Free, Holds, InCall
  <2>6. \A lock \in Locks : Holds(lock, f) => Holds(lock, Top(p)) \/ Free(lock)
    BY <2>2, <2>5, ZenonT(40) DEF Holds
  <2> QED BY <1>1, <1>2, <2>1, <2>4, <2>6, BecomeQuiet, ZenonT(40)
<1> QED BY <1>3, <1>4, ZenonT(40)

\* A reconnection whose attempt failed.
LEMMA RetryKeeps ==
  ASSUME SessionInv, UNCHANGED quiet, issued' \in Nat, NEW p \in Procs, NEW at,
         Reconnection(p, at), at # "lock", Become(p, [Top(p) EXCEPT !.at = "retry"])
  PROVE  SessionInv'
<1>1. /\ stack[p] # <<>> /\ Top(p) \in ReconnectFrame /\ Top(p).call = "reconnect"
      /\ Top(p).at # "lock" /\ ReconnectInv(Top(p))
  BY ReconnectAt
<1> DEFINE f == [Top(p) EXCEPT !.at = "retry"]
<1>2. f \in ReconnectFrame /\ f.at = "retry" /\ f.session = Top(p).session
  BY <1>1 DEF ReconnectFrame, ReconnectPoints
<1>3. Become(p, f)
  OBVIOUS
<1> HIDE DEF f
<1>4. ReconnectInv(f)
  BY <1>1, <1>2, ZenonT(40) DEF ReconnectInv
<1> QED BY <1>1, <1>2, <1>3, <1>4, ReconnectGoesOn, ZenonT(40)

\* The id stamped on TREE_CONNECT is the current session's.
LEMMA ReconnectSendKeeps == ASSUME SessionInv, NEW p \in Procs, ReconnectSend(p) PROVE SessionInv'
<1>1. UNCHANGED quiet /\ issued' \in Nat
  BY Shared, ZenonT(40) DEF ReconnectSend, quiet, local, remote
<1>2. /\ stack[p] # <<>> /\ Top(p) \in ReconnectFrame /\ Top(p).call = "reconnect"
      /\ Top(p).at = "send" /\ ReconnectInv(Top(p))
  BY ReconnectAt, ZenonT(40) DEF ReconnectSend
<1>3. CASE SessionAdmits
  <2> DEFINE f == [Top(p) EXCEPT !.at = "sent", !.id = session.id]
  <2>1. Become(p, f)
    BY <1>3 DEF ReconnectSend, SentOnSession
  <2>2. /\ f \in ReconnectFrame /\ f.at = "sent" /\ f.session = Top(p).session
        /\ f.id = session.id
    BY <1>2, Shared, ZenonT(40) DEF ReconnectFrame, ReconnectPoints
  <2> HIDE DEF f
  <2>3. ReconnectInv(f)
    BY <1>2, <2>2 DEF ReconnectInv
  <2> QED BY <1>1, <1>2, <2>1, <2>2, <2>3, ReconnectGoesOn, ZenonT(40)
<1>4. CASE ~SessionAdmits
  BY <1>1, <1>4, RetryKeeps, ZenonT(40) DEF ReconnectSend, Goto
<1> QED BY <1>3, <1>4, ZenonT(40)

\* The tree lives on the session the request named.
LEMMA ReconnectAnsweredKeeps ==
  ASSUME SessionInv, NEW p \in Procs, ReconnectAnswered(p) PROVE SessionInv'
<1>1. UNCHANGED quiet /\ issued' \in Nat
  BY Shared DEF ReconnectAnswered, quiet, local
<1>2. /\ stack[p] # <<>> /\ Top(p) \in ReconnectFrame /\ Top(p).call = "reconnect"
      /\ Top(p).at = "sent" /\ ReconnectInv(Top(p))
  BY ReconnectAt, ZenonT(40) DEF ReconnectAnswered
<1>3. CASE Become(p, [Top(p) EXCEPT !.at = "object", !.tree = Top(p).id])
  <2> DEFINE f == [Top(p) EXCEPT !.at = "object", !.tree = Top(p).id]
  <2>1. Become(p, f)
    BY <1>3
  <2>2. /\ f \in ReconnectFrame /\ f.at = "object" /\ f.session = Top(p).session
        /\ f.tree = Top(p).id
    BY <1>2, ZenonT(40) DEF ReconnectFrame, ReconnectPoints
  <2> HIDE DEF f
  <2>3. ReconnectInv(f)
    BY <1>2, <2>2, ZenonT(40) DEF ReconnectInv
  <2> QED BY <1>1, <1>2, <2>1, <2>2, <2>3, ReconnectGoesOn, ZenonT(40)
<1>4. CASE ToldSessionIsGone(p)
  <2> DEFINE f == [Top(p) EXCEPT !.at = "recovering"]
             g == RecoverCall(Top(p).id)
  <2>1. stack' = [stack EXCEPT ![p] = Under(p) \o <<f, g>>]
    BY <1>4 DEF ToldSessionIsGone, Enter
  <2>2. f \in ReconnectFrame /\ f.at = "recovering" /\ f.session = Top(p).session
        /\ f.call = "reconnect" /\ Top(p).id \in Nat
    BY <1>2 DEF ReconnectFrame, ReconnectPoints
  <2>3. g \in Frame /\ FrameInv(g) /\ \A lock \in Locks : ~Holds(lock, g)
    BY <2>2, Shared, Beginnings, ZenonT(40)
  <2> HIDE DEF f, g
  <2>4. f \in Frame /\ FrameInv(f) /\ f.at \in Waiting
    BY <1>2, <2>2, ZenonT(40) DEF Frame, FrameInv, ReconnectInv, Waiting
  <2> QED BY <1>1, <1>2, <2>1, <2>2, <2>3, <2>4, Awaits, ZenonT(40)
<1>5. CASE Goto(p, "retry")
  BY <1>1, <1>5, RetryKeeps, ZenonT(40) DEF ReconnectAnswered, Goto
<1> QED BY <1>3, <1>4, <1>5, ZenonT(40) DEF ReconnectAnswered

\* The object is made on the session that is current now, which is not older
\* than the share's.
LEMMA ReconnectObjectKeeps ==
  ASSUME SessionInv, NEW p \in Procs, ReconnectObject(p) PROVE SessionInv'
<1>1. UNCHANGED quiet /\ issued' \in Nat
  BY Shared DEF ReconnectObject, quiet, local, remote
<1>2. /\ stack[p] # <<>> /\ Top(p) \in ReconnectFrame /\ Top(p).call = "reconnect"
      /\ Top(p).at = "object" /\ ReconnectInv(Top(p))
  BY ReconnectAt, ZenonT(40) DEF ReconnectObject
<1>3. CASE Admits(session.object)
  <2> DEFINE f == [Top(p) EXCEPT !.at = "check", !.object = session.object]
  <2>1. Become(p, f)
    BY <1>3 DEF ReconnectObject
  <2>2. /\ f \in ReconnectFrame /\ f.at = "check" /\ f.session = Top(p).session
        /\ f.object = session.object /\ f.tree = Top(p).tree
    BY <1>2, Shared, ZenonT(40) DEF ReconnectFrame, ReconnectPoints
  <2> HIDE DEF f
  <2>3. share.object <= session.object /\ session.object <= session.object
    BY Shared, SMTT(30) DEF SharedInv, Known
  <2>4. ReconnectInv(f)
    BY <1>2, <2>2, <2>3, ZenonT(40) DEF ReconnectInv, Known
  <2> QED BY <1>1, <1>2, <2>1, <2>2, <2>4, ReconnectGoesOn, ZenonT(40)
<1>4. CASE ~Admits(session.object)
  BY <1>1, <1>4, RetryKeeps, ZenonT(40) DEF ReconnectObject
<1> QED BY <1>3, <1>4, ZenonT(40)

\* A failed attempt starts over, still for the session it was begun for.
LEMMA ReconnectRetryKeeps ==
  ASSUME SessionInv, NEW p \in Procs, ReconnectRetry(p) PROVE SessionInv'
<1>1. UNCHANGED quiet /\ issued' \in Nat
  BY Shared DEF ReconnectRetry, quiet, local, remote
<1>2. /\ stack[p] # <<>> /\ Top(p) \in ReconnectFrame /\ Top(p).call = "reconnect"
      /\ Top(p).at = "retry" /\ ReconnectInv(Top(p))
  BY ReconnectAt, ZenonT(40) DEF ReconnectRetry
<1>3. CASE Top(p).attempt < MaxAttempts
  <2>0. PICK n \in Nat : n = Top(p).attempt + 1
    BY <1>2 DEF ReconnectFrame
  <2> DEFINE f == [Top(p) EXCEPT !.at = "send", !.attempt = n]
  <2>1. Become(p, f)
    BY <1>2, <1>3, <2>0 DEF ReconnectRetry, ReconnectFrame
  <2>2. f \in ReconnectFrame /\ f.at = "send" /\ f.session = Top(p).session
    BY <1>2, ZenonT(40) DEF ReconnectFrame, ReconnectPoints
  <2> HIDE DEF f
  <2>3. ReconnectInv(f)
    BY <1>2, <2>2, ZenonT(40) DEF ReconnectInv
  <2> QED BY <1>1, <1>2, <2>1, <2>2, <2>3, ReconnectGoesOn, ZenonT(40)
<1>4. CASE ~(Top(p).attempt < MaxAttempts)
  BY <1>1, <1>2, <1>4, ReturnQuiet, ZenonT(40) DEF ReconnectRetry
<1> QED BY <1>3, <1>4

\* The share is seen open before the candidate is stored.
LEMMA ReconnectCheckKeeps ==
  ASSUME SessionInv, NEW p \in Procs, ReconnectCheck(p) PROVE SessionInv'
<1>1. UNCHANGED quiet /\ issued' \in Nat
  BY Shared, ZenonT(40) DEF ReconnectCheck, quiet, local, remote
<1>2. /\ stack[p] # <<>> /\ Top(p) \in ReconnectFrame /\ Top(p).call = "reconnect"
      /\ Top(p).at = "check" /\ ReconnectInv(Top(p))
  BY ReconnectAt DEF ReconnectCheck
<1>3. CASE share.closed
  BY <1>1, <1>2, <1>3, ReturnQuiet, ZenonT(40) DEF ReconnectCheck
<1>4. CASE ~share.closed
  <2> DEFINE f == [Top(p) EXCEPT !.at = "store"]
  <2>1. Become(p, f)
    BY <1>4 DEF ReconnectCheck, Goto
  <2>2. /\ f \in ReconnectFrame /\ f.at = "store" /\ f.session = Top(p).session
        /\ f.object = Top(p).object /\ f.tree = Top(p).tree
    BY <1>2, ZenonT(40) DEF ReconnectFrame, ReconnectPoints
  <2> HIDE DEF f
  <2>3. ReconnectInv(f)
    BY <1>2, <2>2, ZenonT(40) DEF ReconnectInv
  <2> QED BY <1>1, <1>2, <2>1, <2>2, <2>3, ReconnectGoesOn, ZenonT(40)
<1> QED BY <1>3, <1>4, ZenonT(40)

\* The attempt may be anywhere in the stack.
LEMMA ReconnectTimesOutKeeps ==
  ASSUME SessionInv, NEW p \in Procs, ReconnectTimesOut(p) PROVE SessionInv'
<1>1. UNCHANGED quiet /\ issued' \in Nat
  BY Shared DEF ReconnectTimesOut, quiet, local, remote
<1>2. PICK i \in 1..Depth(p) :
        /\ stack[p][i].call = "reconnect" /\ stack[p][i].at \in Attempting
        /\ stack' = [stack EXCEPT ![p] = Append(SubSeq(@, 1, i - 1), [@[i] EXCEPT !.at = "retry"])]
  BY ZenonT(40) DEF ReconnectTimesOut
<1> DEFINE g == stack[p][i]
           f == [g EXCEPT !.at = "retry"]
<1>3. g \in Frame /\ FrameInv(g) /\ g.call = "reconnect" /\ g.at # "lock"
  BY <1>2, Shared, SMTT(30) DEF StackInv, FramesInv, Depth, Attempting
<1>4. stack' = [stack EXCEPT ![p] = Append(SubSeq(@, 1, i - 1), f)]
  BY <1>2, Shared, ZenonT(40) DEF StackInv
<1>5. g \in ReconnectFrame
  BY <1>3, Kinds, ZenonT(40)
<1>6. f \in ReconnectFrame /\ f.call = "reconnect" /\ f.at = "retry" /\ f.session = g.session
  BY <1>5, ZenonT(40) DEF ReconnectFrame, ReconnectPoints
<1> HIDE DEF f
<1>7. f \in Frame /\ FrameInv(f)
  BY <1>3, <1>6, ZenonT(40) DEF Frame, FrameInv, ReconnectInv
<1>8. \A lock \in Locks : Holds(lock, f) => Holds(lock, stack[p][i])
  BY <1>3, <1>6 DEF Holds
<1>9. /\ StackInv'
      /\ \A q \in Procs : \A j \in DOMAIN stack'[q] :
           stack'[q][j] = f \/ \E k \in DOMAIN stack[q] : stack'[q][j] = stack[q][k]
  BY <1>4, <1>7, <1>8, Shared, DropShape, ZenonT(60)
<1>10. \A q \in Procs : \A j \in DOMAIN stack'[q] : FrameInv(stack'[q][j])
  BY <1>7, <1>9, Shared DEF FramesInv
<1> QED BY <1>1, <1>9, <1>10, Quiet, ZenonT(40)

-----------------------------------------------------------------------------
(* Calls of the application.                                               *)

\* A call of the application at one of its points.
LEMMA CallAt ==
  ASSUME SessionInv, NEW p \in Procs, NEW kind \in CallKinds, NEW at, At(p, kind, at)
  PROVE  /\ stack[p] # <<>> /\ Top(p) \in Frame /\ Top(p) \in CallFrame
         /\ Top(p).call = kind /\ Top(p).at = at /\ FrameInv(Top(p))
<1>1. stack[p] # <<>> /\ Top(p).call = kind /\ Top(p).at = at
  BY DEF At
<1> QED BY <1>1, TopIs, Kinds

\* It goes on at a point at which nothing is asked of it.
LEMMA CallGoesOn ==
  ASSUME SessionInv, UNCHANGED quiet, issued' \in Nat, NEW p \in Procs, stack[p] # <<>>,
         NEW f \in CallFrame, Become(p, f), FrameInv(f), f.call = Top(p).call, Top(p) \in CallFrame
  PROVE  SessionInv'
<1>1. f \in Frame /\ Top(p).at # "lock"
  BY ZenonT(40) DEF Frame, CallFrame, CallPoints
<1> QED BY <1>1, GoesOn

\* Points at which nothing is asked of a call.
Plain == CallPoints \ {"prepare", "channel", "submit", "sent", "session"}

\* A caller goes to a point where it relies on nothing new.
LEMMA PlainFrame ==
  ASSUME NEW fr \in CallFrame, FrameInv(fr), NEW at \in Plain
  PROVE  [fr EXCEPT !.at = at] \in CallFrame /\ [fr EXCEPT !.at = at] \in Frame
         /\ FrameInv([fr EXCEPT !.at = at]) /\ [fr EXCEPT !.at = at].call = fr.call
         /\ [fr EXCEPT !.at = at].at = at
<1> DEFINE f == [fr EXCEPT !.at = at]
<1>1. f \in CallFrame /\ f.at = at /\ f.call = fr.call /\ fr.call \in CallKinds
  BY ZenonT(40) DEF CallFrame, CallPoints, Plain
<1> HIDE DEF f
<1>2. FrameInv(f)
  BY <1>1 DEF FrameInv, ShareCallInv, ConnectInv, Plain, CallKinds
<1> QED BY <1>1, <1>2 DEF f, Frame

\* A call that was told its session is gone awaits the recovery.
LEMMA ToldKeeps ==
  ASSUME SessionInv, UNCHANGED quiet, issued' \in Nat, NEW p \in Procs, stack[p] # <<>>,
         Top(p) \in CallFrame, FrameInv(Top(p)), ToldSessionIsGone(p)
  PROVE  SessionInv'
<1> DEFINE f == [Top(p) EXCEPT !.at = "recovering"]
           g == RecoverCall(Top(p).id)
<1>1. stack' = [stack EXCEPT ![p] = Under(p) \o <<f, g>>]
  BY ZenonT(40) DEF ToldSessionIsGone, Enter
<1>2. "recovering" \in Plain /\ "recovering" \in Waiting
  BY DEF Plain, CallPoints, Waiting
<1>3. f \in Frame /\ FrameInv(f) /\ f.call = Top(p).call /\ f.at \in Waiting
  BY <1>2, PlainFrame, ZenonT(40)
<1>4. Top(p).id \in Nat /\ Top(p).at # "lock"
  BY ZenonT(40) DEF CallFrame, CallPoints
<1>5. g \in Frame /\ FrameInv(g) /\ \A lock \in Locks : ~Holds(lock, g)
  BY <1>4, Shared, Beginnings, ZenonT(40)
<1> HIDE DEF f, g
<1> QED BY <1>1, <1>3, <1>4, <1>5, Awaits, ZenonT(40)

\* A call that awaits a task it spawned.
LEMMA GatedKeeps ==
  ASSUME SessionInv, UNCHANGED quiet, issued' \in Nat, NEW p \in Procs, stack[p] # <<>>,
         Top(p) \in CallFrame, FrameInv(Top(p)), NEW at \in {"gated", "object gated"},
         NEW g, Enter(p, at, g),
         g = ReauthenticateCall(session.id, TRUE) \/ (share # NoShare /\ g = ReconnectCall(TRUE))
  PROVE  SessionInv'
<1> DEFINE f == [Top(p) EXCEPT !.at = at]
<1>1. stack' = [stack EXCEPT ![p] = Under(p) \o <<f, g>>]
  BY ZenonT(40) DEF Enter
<1>2. at \in Plain /\ at \in Waiting
  BY ZenonT(40) DEF Plain, CallPoints, Waiting
<1>3. f \in Frame /\ FrameInv(f) /\ f.call = Top(p).call /\ f.at \in Waiting
  BY <1>2, PlainFrame, ZenonT(40)
<1>4. Top(p).at # "lock"
  BY ZenonT(40) DEF CallFrame, CallPoints
<1>5. g \in Frame /\ FrameInv(g) /\ \A lock \in Locks : ~Holds(lock, g)
  BY Shared, Beginnings, ZenonT(40)
<1> HIDE DEF f
<1> QED BY <1>1, <1>3, <1>4, <1>5, Awaits, ZenonT(40)

\* wait_for_reauthentication: pass, wait for a spawned task, or be refused.
LEMMA SessionGateKeeps ==
  ASSUME SessionInv, UNCHANGED quiet, issued' \in Nat, NEW p \in Procs, stack[p] # <<>>,
         Top(p) \in CallFrame, FrameInv(Top(p)), NEW passed \in Plain,
         NEW gated \in {"gated", "object gated"}, SessionGate(p, passed, gated)
  PROVE  SessionInv'
<1>1. CASE Goto(p, passed)
  <2> DEFINE f == [Top(p) EXCEPT !.at = passed]
  <2>1. Become(p, f)
    BY <1>1, ZenonT(40) DEF Goto
  <2>2. f \in CallFrame /\ FrameInv(f) /\ f.call = Top(p).call
    BY PlainFrame, ZenonT(40)
  <2> HIDE DEF f
  <2> QED BY <2>1, <2>2, CallGoesOn, ZenonT(40)
<1>2. CASE Enter(p, gated, ReauthenticateCall(session.id, TRUE))
  BY <1>2, GatedKeeps, ZenonT(40)
<1>3. CASE Finish(p)
  BY <1>3, FinishQuiet, ZenonT(40)
<1> QED BY <1>1, <1>2, <1>3, ZenonT(40) DEF SessionGate

\* wait_for_reconnect: pass, wait for a spawned task, or be refused.
LEMMA ShareGateKeeps ==
  ASSUME SessionInv, UNCHANGED quiet, issued' \in Nat, NEW p \in Procs, stack[p] # <<>>,
         Top(p) \in CallFrame, FrameInv(Top(p)), share # NoShare, ShareGate(p)
  PROVE  SessionInv'
<1>1. CASE Goto(p, "load")
  <2> DEFINE f == [Top(p) EXCEPT !.at = "load"]
  <2>1. Become(p, f) /\ "load" \in Plain
    BY <1>1, ZenonT(40) DEF Goto, Plain, CallPoints
  <2>2. f \in CallFrame /\ FrameInv(f) /\ f.call = Top(p).call
    BY <2>1, PlainFrame, ZenonT(40)
  <2> HIDE DEF f
  <2> QED BY <2>1, <2>2, CallGoesOn, ZenonT(40)
<1>2. CASE Enter(p, "gated", ReconnectCall(TRUE))
  BY <1>2, GatedKeeps, ZenonT(40)
<1>3. CASE Finish(p)
  BY <1>3, FinishQuiet, ZenonT(40)
<1> QED BY <1>1, <1>2, <1>3, ZenonT(40) DEF ShareGate

\* The gates in front of execute, connect and logoff.
LEMMA PassGateKeeps == ASSUME SessionInv, NEW p \in Procs, PassGate(p) PROVE SessionInv'
<1>1. UNCHANGED quiet /\ issued' \in Nat
  BY Shared, ZenonT(40) DEF PassGate, quiet, local, remote
<1>2. CASE At(p, "execute", "gate") /\ ShareGate(p)
  <2>1. /\ stack[p] # <<>> /\ Top(p) \in CallFrame /\ FrameInv(Top(p)) /\ Top(p).call = "execute"
    BY <1>2, CallAt, ZenonT(40) DEF CallKinds
  <2>2. share # NoShare
    BY <2>1 DEF FrameInv, ShareCallInv
  <2> QED BY <1>1, <1>2, <2>1, <2>2, ShareGateKeeps, ZenonT(40)
<1>3. CASE \/ (At(p, "connect", "gate") \/ At(p, "logoff", "gate")) /\ SessionGate(p, "send", "gated")
           \/ At(p, "connect", "object gate") /\ SessionGate(p, "object", "object gated")
  <2>1. stack[p] # <<>> /\ Top(p) \in CallFrame /\ FrameInv(Top(p))
    BY <1>3, CallAt, ZenonT(40) DEF CallKinds
  <2>2. "send" \in Plain /\ "object" \in Plain
    BY ZenonT(40) DEF Plain, CallPoints
  <2> QED BY <1>1, <1>3, <2>1, <2>2, SessionGateKeeps, ZenonT(40)
<1> QED BY <1>2, <1>3, ZenonT(40) DEF PassGate

\* What execute and disconnect took from the share was the session's.
LEMMA LoadShareKeeps == ASSUME SessionInv, NEW p \in Procs, LoadShare(p) PROVE SessionInv'
<1>1. UNCHANGED quiet /\ issued' \in Nat
  BY Shared, ZenonT(40) DEF LoadShare, quiet, local, remote
<1>2. /\ stack[p] # <<>> /\ Top(p) \in CallFrame /\ FrameInv(Top(p))
      /\ Top(p).call \in {"execute", "disconnect"}
  BY CallAt, ZenonT(40) DEF LoadShare, CallKinds
<1>3. share.object \in Nat /\ share.tree \in Nat
  BY Shared DEF SharedType
<1>4. PICK f \in CallFrame : /\ Become(p, f) /\ f.call = Top(p).call /\ f.object = share.object
                             /\ f.at \in {"prepare", "channel"}
  <2>1. CASE Become(p, [Top(p) EXCEPT !.object = share.object, !.at = "prepare"])
    <3> DEFINE g == [Top(p) EXCEPT !.object = share.object, !.at = "prepare"]
    <3>1. g \in CallFrame /\ g.call = Top(p).call /\ g.object = share.object /\ g.at = "prepare"
      BY <1>2, <1>3, ZenonT(40) DEF CallFrame, CallPoints
    <3> HIDE DEF g
    <3> QED BY <2>1, <3>1, ZenonT(40) DEF g
  <2>2. CASE Become(p, [Top(p) EXCEPT !.object = share.object, !.tree = share.tree, !.at = "channel"])
    <3> DEFINE g == [Top(p) EXCEPT !.object = share.object, !.tree = share.tree, !.at = "channel"]
    <3>1. g \in CallFrame /\ g.call = Top(p).call /\ g.object = share.object /\ g.at = "channel"
      BY <1>2, <1>3, ZenonT(40) DEF CallFrame, CallPoints
    <3> HIDE DEF g
    <3> QED BY <2>2, <3>1, ZenonT(40) DEF g
  <2> QED BY <2>1, <2>2, ZenonT(40) DEF LoadShare
<1>5. FrameInv(f)
  BY <1>2, <1>4, Shared, ZenonT(40) DEF FrameInv, ShareCallInv, SharedInv
<1> QED BY <1>1, <1>2, <1>4, <1>5, CallGoesOn, ZenonT(40)

\* TreeContext::prepare reads the tree; the object was read before.
LEMMA PrepareOnShareKeeps ==
  ASSUME SessionInv, NEW p \in Procs, PrepareOnShare(p) PROVE SessionInv'
<1>1. UNCHANGED quiet /\ issued' \in Nat
  BY Shared DEF PrepareOnShare, quiet, local, remote
<1>2. /\ stack[p] # <<>> /\ Top(p) \in CallFrame /\ FrameInv(Top(p))
      /\ Top(p).call = "execute" /\ Top(p).at = "prepare"
  BY CallAt, ZenonT(40) DEF PrepareOnShare, CallKinds
<1>3. CASE Finish(p)
  BY <1>1, <1>3, FinishQuiet, ZenonT(40)
<1>4. CASE ~Finish(p)
  <2> DEFINE f == [Top(p) EXCEPT !.tree = share.tree, !.at = "channel"]
  <2>1. Become(p, f) /\ share.tree \in Nat
    BY <1>4, Shared DEF PrepareOnShare, SharedType
  <2>2. f \in CallFrame /\ f.call = "execute" /\ f.object = Top(p).object /\ f.at = "channel"
    BY <1>2, <2>1, ZenonT(40) DEF CallFrame, CallPoints
  <2> HIDE DEF f
  <2>3. FrameInv(f)
    BY <1>2, <2>2, ZenonT(40) DEF FrameInv, ShareCallInv
  <2> QED BY <1>1, <1>2, <2>1, <2>2, <2>3, CallGoesOn, ZenonT(40)
<1> QED BY <1>3, <1>4, ZenonT(40)

\* execute and disconnect at one of the points they share.
LEMMA ShareCallAt ==
  ASSUME SessionInv, NEW p \in Procs, NEW at, ShareCall(p, at)
  PROVE  /\ stack[p] # <<>> /\ Top(p) \in CallFrame /\ FrameInv(Top(p)) /\ ShareCallInv(Top(p))
         /\ Top(p).call \in {"execute", "disconnect"} /\ Top(p).at = at
<1>1. /\ stack[p] # <<>> /\ Top(p) \in CallFrame /\ FrameInv(Top(p))
      /\ Top(p).call \in {"execute", "disconnect"} /\ Top(p).at = at
  BY CallAt, ZenonT(40) DEF ShareCall, CallKinds
<1> QED BY <1>1, ZenonT(40) DEF FrameInv

\* If the object is still accepted it is the session's, and the id is its id.
LEMMA ChooseChannelKeeps == ASSUME SessionInv, NEW p \in Procs, ChooseChannel(p) PROVE SessionInv'
<1>1. UNCHANGED quiet /\ issued' \in Nat
  BY Shared DEF ChooseChannel, quiet, local, remote
<1>2. /\ stack[p] # <<>> /\ Top(p) \in CallFrame /\ ShareCallInv(Top(p))
      /\ Top(p).call \in {"execute", "disconnect"} /\ Top(p).at = "channel"
  BY ShareCallAt, ZenonT(40) DEF ChooseChannel
<1>3. CASE Finish(p)
  BY <1>1, <1>3, FinishQuiet
<1>4. CASE ~Finish(p)
  <2> DEFINE f == [Top(p) EXCEPT !.id = session.id, !.at = "submit"]
  <2>1. Become(p, f)
    BY <1>4 DEF ChooseChannel
  <2>2. /\ f \in CallFrame /\ f.call = Top(p).call /\ f.object = Top(p).object /\ f.at = "submit"
        /\ f.id = session.id
    BY <1>2, Shared, ZenonT(40) DEF CallFrame, CallPoints
  <2> HIDE DEF f
  <2>3. Known(f.object) /\ share # NoShare /\ objects[session.object].id = session.id
    BY <1>2, <2>2, Shared, ZenonT(40) DEF ShareCallInv, SharedInv
  <2>4. FrameInv(f)
    BY <1>2, <2>2, <2>3, ZenonT(40) DEF FrameInv, ShareCallInv, Known
  <2> QED BY <1>1, <1>2, <2>1, <2>2, <2>4, CallGoesOn, ZenonT(40)
<1> QED BY <1>3, <1>4

\* The runtime accepts an object only while it is active: then the id read by
\* ChannelContext::prepare is that object's.
LEMMA SubmitForShareKeeps ==
  ASSUME SessionInv, NEW p \in Procs, SubmitForShare(p) PROVE SessionInv'
<1>1. UNCHANGED quiet /\ issued' \in Nat
  BY Shared, ZenonT(40) DEF SubmitForShare, quiet, local, remote
<1>2. /\ stack[p] # <<>> /\ Top(p) \in CallFrame /\ ShareCallInv(Top(p))
      /\ Top(p).call \in {"execute", "disconnect"} /\ Top(p).at = "submit"
  BY ShareCallAt, ZenonT(40) DEF SubmitForShare
<1>3. CASE ~Admits(Top(p).object)
  BY <1>1, <1>3, FinishQuiet, ZenonT(40) DEF SubmitForShare
<1>4. CASE Admits(Top(p).object)
  <2> DEFINE f == [Top(p) EXCEPT !.at = "sent"]
  <2>1. Become(p, f)
    BY <1>4 DEF SubmitForShare, Goto
  <2>2. /\ f \in CallFrame /\ f.call = Top(p).call /\ f.object = Top(p).object /\ f.at = "sent"
        /\ f.id = Top(p).id
    BY <1>2, ZenonT(40) DEF CallFrame, CallPoints
  <2> HIDE DEF f
  <2>3. Active(f.object) /\ f.object # 0
    BY <1>4, <2>2, ZenonT(40) DEF Admits, Active
  <2>4. FrameInv(f)
    BY <1>2, <2>2, <2>3, ZenonT(40) DEF FrameInv, ShareCallInv
  <2> QED BY <1>1, <1>2, <2>1, <2>2, <2>4, CallGoesOn, ZenonT(40)
<1> QED BY <1>3, <1>4, ZenonT(40)

\* The answer to a share's request ends the call or starts a recovery.
LEMMA ShareAnsweredKeeps == ASSUME SessionInv, NEW p \in Procs, ShareAnswered(p) PROVE SessionInv'
<1>1. UNCHANGED quiet /\ issued' \in Nat
  BY Shared, ZenonT(40) DEF ShareAnswered, quiet, local
<1>2. stack[p] # <<>> /\ Top(p) \in CallFrame /\ FrameInv(Top(p))
  BY ShareCallAt, ZenonT(40) DEF ShareAnswered
<1>3. CASE Finish(p)
  BY <1>1, <1>3, FinishQuiet
<1>4. CASE ToldSessionIsGone(p)
  BY <1>1, <1>2, <1>4, ToldKeeps, ZenonT(40)
<1> QED BY <1>3, <1>4, ZenonT(40) DEF ShareAnswered

\* connect and logoff stamp the current session's id.
LEMMA SendForSessionKeeps ==
  ASSUME SessionInv, NEW p \in Procs, SendForSession(p) PROVE SessionInv'
<1>1. UNCHANGED quiet /\ issued' \in Nat
  BY Shared, ZenonT(40) DEF SendForSession, quiet, local, remote
<1>2. /\ stack[p] # <<>> /\ Top(p) \in CallFrame /\ FrameInv(Top(p))
      /\ Top(p).call \in {"connect", "logoff"}
  BY CallAt, ZenonT(40) DEF SendForSession, CallKinds
<1>3. CASE ~SessionAdmits
  BY <1>1, <1>3, FinishQuiet, ZenonT(40) DEF SendForSession
<1>4. CASE SessionAdmits
  <2> DEFINE f == [Top(p) EXCEPT !.at = "sent", !.id = session.id]
  <2>1. Become(p, f)
    BY <1>4 DEF SendForSession, SentOnSession
  <2>2. f \in CallFrame /\ f.call = Top(p).call /\ f.at = "sent"
    BY <1>2, Shared, ZenonT(40) DEF CallFrame, CallPoints
  <2> HIDE DEF f
  <2>3. FrameInv(f)
    BY <1>2, <2>2, ZenonT(40) DEF FrameInv, ConnectInv
  <2> QED BY <1>1, <1>2, <2>1, <2>2, <2>3, CallGoesOn, ZenonT(40)
<1> QED BY <1>3, <1>4, ZenonT(40)

\* The tree of a new share is connected; its object comes later.
LEMMA ConnectAnsweredKeeps ==
  ASSUME SessionInv, NEW p \in Procs, ConnectAnswered(p) PROVE SessionInv'
<1>1. UNCHANGED quiet /\ issued' \in Nat
  BY Shared DEF ConnectAnswered, quiet, local
<1>2. stack[p] # <<>> /\ Top(p) \in CallFrame /\ FrameInv(Top(p)) /\ Top(p).call = "connect"
  BY CallAt, ZenonT(40) DEF ConnectAnswered, CallKinds
<1>3. CASE Finish(p)
  BY <1>1, <1>3, FinishQuiet
<1>4. CASE ToldSessionIsGone(p)
  BY <1>1, <1>2, <1>4, ToldKeeps, ZenonT(40)
<1>5. CASE Become(p, [Top(p) EXCEPT !.tree = Top(p).id, !.at = "object gate"])
  <2> DEFINE f == [Top(p) EXCEPT !.tree = Top(p).id, !.at = "object gate"]
  <2>1. Become(p, f)
    BY <1>5
  <2>2. f \in CallFrame /\ f.call = "connect" /\ f.at = "object gate"
    BY <1>2, ZenonT(40) DEF CallFrame, CallPoints
  <2> HIDE DEF f
  <2>3. FrameInv(f)
    BY <1>2, <2>2, ZenonT(40) DEF FrameInv, ConnectInv
  <2> QED BY <1>1, <1>2, <2>1, <2>2, <2>3, CallGoesOn, ZenonT(40)
<1> QED BY <1>3, <1>4, <1>5, ZenonT(40) DEF ConnectAnswered

\* The object of a new share is made on the current session.
LEMMA ConnectObjectKeeps == ASSUME SessionInv, NEW p \in Procs, ConnectObject(p) PROVE SessionInv'
<1>1. UNCHANGED quiet /\ issued' \in Nat
  BY Shared, ZenonT(40) DEF ConnectObject, quiet, local, remote
<1>2. stack[p] # <<>> /\ Top(p) \in CallFrame /\ FrameInv(Top(p)) /\ Top(p).call = "connect"
  BY CallAt DEF ConnectObject, CallKinds
<1>3. CASE ~Admits(session.object)
  BY <1>1, <1>3, FinishQuiet, ZenonT(40) DEF ConnectObject
<1>4. CASE Admits(session.object)
  <2> DEFINE f == [Top(p) EXCEPT !.object = session.object, !.at = "session"]
  <2>1. Become(p, f)
    BY <1>4 DEF ConnectObject
  <2>2. f \in CallFrame /\ f.call = "connect" /\ f.at = "session" /\ f.object = session.object
    BY <1>2, Shared, ZenonT(40) DEF CallFrame, CallPoints
  <2> HIDE DEF f
  <2>3. session.object <= session.object
    BY Shared, SMTT(30)
  <2>4. FrameInv(f)
    BY <1>2, <2>2, <2>3, ZenonT(40) DEF FrameInv, ConnectInv, Known
  <2> QED BY <1>1, <1>2, <2>1, <2>2, <2>4, CallGoesOn, ZenonT(40)
<1> QED BY <1>3, <1>4, ZenonT(40)

\* logoff changes no object: the runtime is not told.
LEMMA LogoffKeeps ==
  ASSUME SessionInv, NEW p \in Procs, LogoffAnswered(p) \/ LogoffInvalidate(p) PROVE SessionInv'
<1>1. UNCHANGED quiet /\ issued' \in Nat
  BY Shared, ZenonT(40) DEF LogoffAnswered, LogoffInvalidate, quiet, local, remote
<1>2. stack[p] # <<>> /\ Top(p) \in CallFrame /\ FrameInv(Top(p))
  BY CallAt, ZenonT(40) DEF LogoffAnswered, LogoffInvalidate, CallKinds
<1>3. CASE Finish(p)
  BY <1>1, <1>3, FinishQuiet, ZenonT(40)
<1>4. CASE ToldSessionIsGone(p)
  BY <1>1, <1>2, <1>4, ToldKeeps, ZenonT(40)
<1>5. CASE Goto(p, "invalidate")
  <2> DEFINE f == [Top(p) EXCEPT !.at = "invalidate"]
  <2>1. Become(p, f) /\ "invalidate" \in Plain
    BY <1>5 DEF Goto, Plain, CallPoints
  <2>2. f \in CallFrame /\ FrameInv(f) /\ f.call = Top(p).call
    BY <1>2, <2>1, PlainFrame, ZenonT(40)
  <2> HIDE DEF f
  <2> QED BY <1>1, <1>2, <2>1, <2>2, CallGoesOn, ZenonT(40)
<1> QED BY <1>3, <1>4, <1>5, ZenonT(40) DEF LogoffAnswered, LogoffInvalidate

\* A wait ends early, or a future is dropped.
LEMMA AbandonKeeps ==
  ASSUME SessionInv, NEW p \in Procs, WaitEndsEarly(p) \/ CallerDrops(p) PROVE SessionInv'
<1>1. UNCHANGED quiet /\ issued' \in Nat
  BY Shared, ZenonT(40) DEF WaitEndsEarly, CallerDrops, quiet, local, remote
<1>2. CASE WaitEndsEarly(p)
  <2>1. PICK i \in 2..Depth(p) : stack' = [stack EXCEPT ![p] = SubSeq(@, i, Len(@))]
    BY <1>2, ZenonT(40) DEF WaitEndsEarly
  <2>2. Depth(p) \in Nat
    BY Shared, SMTT(30) DEF StackInv, Depth
  <2>3. i \in 1..Depth(p)
    BY <2>2
  <2>4. /\ StackInv'
        /\ \A q \in Procs : \A j \in DOMAIN stack'[q] :
             \E k \in DOMAIN stack[q] : stack'[q][j] = stack[q][k]
    BY <2>1, <2>3, Shared, DetachShape, ZenonT(40)
  <2>5. \A q \in Procs : \A j \in DOMAIN stack'[q] : FrameInv(stack'[q][j])
    BY <2>4, Shared, ZenonT(40) DEF FramesInv
  <2> QED BY <1>1, <2>4, <2>5, Quiet, ZenonT(40)
<1>3. CASE CallerDrops(p)
  BY <1>1, <1>3, FinishQuiet, ZenonT(40) DEF CallerDrops, Finish
<1> QED BY <1>2, <1>3, ZenonT(40)

\* What the server forgets the client does not see yet.
LEMMA ServerDeletesSessionKeeps == ASSUME SessionInv, ServerDeletesSession PROVE SessionInv'
<1>1. UNCHANGED quiet /\ issued' \in Nat /\ stack' = stack
  BY Shared, ZenonT(40) DEF ServerDeletesSession, quiet, local
<1>2. StackInv'
  BY <1>1, Shared, StackSame, ZenonT(40)
<1>3. \A q \in Procs : \A i \in DOMAIN stack'[q] : FrameInv(stack'[q][i])
  BY <1>1, Shared DEF FramesInv
<1> QED BY <1>1, <1>2, <1>3, Quiet, ZenonT(40)
=============================================================================
