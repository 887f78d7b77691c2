------------------------- MODULE ObjectRegistryProofs -------------------------
(***************************************************************************)
(* Proofs about ObjectRegistry, for every number of objects and epochs.    *)
(* The inductive invariant is the type, the lineage and the state of the   *)
(* subtrees together: a revocation reaches the whole subtree only because  *)
(* no parent token is stale and the kinds keep the hierarchy four deep.    *)
(***************************************************************************)
EXTENDS ObjectRegistry, TLAPS

RegistryInv == TypeOK /\ LineageCurrent /\ SubtreeDown

\* What a step that only moves phases keeps of a registry: ids, epochs, kinds
\* and parents stay, no object becomes active and none comes back.
Lowered(r, q) ==
  /\ DOMAIN q = DOMAIN r
  /\ \A i \in DOMAIN r :
       /\ q[i] \in Record
       /\ q[i].epoch = r[i].epoch
       /\ q[i].kind = r[i].kind
       /\ q[i].parent = r[i].parent
       /\ q[i].phase = "Active" => r[i].phase = "Active"
       /\ r[i].phase \in Ended => q[i].phase \in Ended

\* Moving an object to a phase other than Active lowers the registry.
LEMMA SetPhaseLowers ==
  ASSUME TypeOK, NEW t, NEW phase \in Phases \ {"Active"},
         records[t.id].phase \in Ended => phase \in Ended
  PROVE  Lowered(records, SetPhase(records, t, phase))
BY DEF TypeOK, Lowered, SetPhase, Record

\* revoke_descendants lowers the registry.
LEMMA RevocationLowers ==
  ASSUME TypeOK, NEW t
  PROVE  Lowered(records, RevokeDescendants(records, t))
BY DEF TypeOK, Lowered, RevokeDescendants, Record, Ended, Phases

\* A lowered registry refuses every token the registry refused.
LEMMA LoweredRefuses ==
  ASSUME TypeOK, NEW q, Lowered(records, q), NEW t, ValidateActive(q, t)
  PROVE  ValidateActive(records, t)
<1>1. \A u : Up(q, u) = Up(records, u)
  BY DEF Lowered, Up
<1>2. Ancestors(q, t) = Ancestors(records, t)
  BY <1>1 DEF Ancestors
<1> QED BY <1>2 DEF ValidateActive, Known, Lowered

\* Lowering a registry keeps its types and its lineage.
LEMMA LoweredLineage ==
  ASSUME TypeOK, LineageCurrent, NEW q, Lowered(records, q), records' = q,
         UNCHANGED next_id
  PROVE  TypeOK' /\ LineageCurrent'
<1>1. TypeOK'
  BY DEF TypeOK, Lowered
<1>2. LineageCurrent'
  BY DEF TypeOK, LineageCurrent, Lowered, Known, NoToken, Record, Tokens
<1> QED BY <1>1, <1>2

\* A parent token is the current token of an object of the kind above.
LEMMA ParentIsKnown ==
  ASSUME RegistryInv, NEW i \in DOMAIN records \ {0}
  PROVE  LET p == records[i].parent
         IN  /\ p \in Tokens /\ p.id \in DOMAIN records /\ p # NoToken /\ p.id < i
             /\ p.epoch = records[p.id].epoch
             /\ p = [id |-> p.id, epoch |-> records[p.id].epoch]
             /\ AcceptsParent(records[i].kind, records[p.id].kind)
<1> DEFINE p == records[i].parent
<1>1. p \in Tokens
  BY DEF RegistryInv, TypeOK, Record
<1>2. /\ p.id < i /\ Known(records, p)
      /\ AcceptsParent(records[i].kind, records[p.id].kind)
  BY DEF RegistryInv, LineageCurrent
<1>3. p # NoToken
  BY <1>2, RegistryAssumption DEF RegistryInv, TypeOK, NoToken, Known
<1> QED BY <1>1, <1>2, <1>3 DEF Known, Tokens

\* The connection is the root: the walk up ends there.
LEMMA RootParent ==
  ASSUME RegistryInv
  PROVE  /\ Up(records, NoToken) = NoToken
         /\ \A u : u.id = 0 => Up(records, u) = NoToken
         /\ records[0].kind = "Connection"
<1>1. 0 \in DOMAIN records /\ IdMax + 1 \notin DOMAIN records
  BY RegistryAssumption DEF RegistryInv, TypeOK
<1> QED BY <1>1 DEF RegistryInv, LineageCurrent, Up, NoToken

\* The walk up from an object ends within three steps.
LEMMA Shallow ==
  ASSUME RegistryInv, NEW i \in DOMAIN records \ {0}
  PROVE  LET p == records[i].parent
         IN  Up(records, Up(records, Up(records, p))) = NoToken
<1> DEFINE p == records[i].parent
           u == Up(records, p)
           w == Up(records, u)
<1>1. /\ p.id \in DOMAIN records
      /\ AcceptsParent(records[i].kind, records[p.id].kind)
  BY ZenonT(60), ParentIsKnown
<1>2. CASE p.id = 0
  BY <1>2, RootParent
<1>3. CASE p.id # 0
  <2>1. /\ u = records[p.id].parent /\ u.id \in DOMAIN records
        /\ AcceptsParent(records[p.id].kind, records[u.id].kind)
    BY ZenonT(60), <1>1, <1>3, ParentIsKnown DEF Up
  <2>2. CASE u.id = 0
    BY <2>2, RootParent
  <2>3. CASE u.id # 0
    <3>1. /\ w = records[u.id].parent /\ w.id \in DOMAIN records
          /\ AcceptsParent(records[u.id].kind, records[w.id].kind)
      BY ZenonT(60), <2>1, <2>3, ParentIsKnown DEF Up
    <3>2. records[w.id].kind = "Connection"
      BY ZenonT(60), <1>1, <2>1, <3>1 DEF AcceptsParent
    <3>3. w.id = 0
      <4> SUFFICES ASSUME w.id # 0 PROVE FALSE
        BY SMTT(60)
      <4>1. AcceptsParent(records[w.id].kind, records[records[w.id].parent.id].kind)
        BY ZenonT(60), <3>1, ParentIsKnown
      <4> QED BY <3>2, <4>1 DEF AcceptsParent
    <3> QED BY <3>3, RootParent
  <2> QED BY <2>2, <2>3
<1> QED BY <1>2, <1>3

\* The children of t, and of what descends from t, descend from t: the
\* hierarchy is too shallow for the walk of is_descendant to stop short.
LEMMA DescentIsClosed ==
  ASSUME RegistryInv, NEW t \in Tokens, Known(records, t),
         NEW i \in DOMAIN records \ {0},
         \/ records[i].parent.id = t.id
         \/ IsDescendant(records, records[i].parent.id, t)
  PROVE  IsDescendant(records, i, t)
<1> DEFINE p == records[i].parent
           me == [id |-> i, epoch |-> records[i].epoch]
<1>1. /\ p \in Tokens /\ p.id \in DOMAIN records /\ p # NoToken
      /\ p.epoch = records[p.id].epoch
      /\ p = [id |-> p.id, epoch |-> records[p.id].epoch]
  BY ParentIsKnown
<1>2. Up(records, me) = p
  BY DEF Up
<1>3. CASE p.id = t.id
  <2>1. p = t
    BY <1>1, <1>3 DEF Known, Tokens
  <2> QED BY <1>1, <1>2, <2>1 DEF IsDescendant, Ancestors
<1>4. CASE IsDescendant(records, p.id, t)
  <2>1. t \in Ancestors(records, p)
    BY <1>1, <1>4 DEF IsDescendant
  <2>2. t # NoToken /\ t \in {Up(records, p), Up(records, Up(records, p))}
    BY <2>1, Shallow DEF Ancestors
  <2> QED BY <1>2, <2>2 DEF IsDescendant, Ancestors
<1> QED BY <1>3, <1>4

\* Ending an object together with its descendants keeps subtrees down.
LEMMA EndingKeepsSubtrees ==
  ASSUME RegistryInv, NEW t \in Tokens, Known(records, t), NEW phase \in Ended,
         records' = SetPhase(RevokeDescendants(records, t), t, phase)
  PROVE  Lowered(records, records') /\ SubtreeDown'
<1>1. Lowered(records, records')
  BY SMTT(60) DEF RegistryInv, TypeOK, Lowered, SetPhase, RevokeDescendants, Record, Ended, Phases
<1>2. ASSUME NEW i \in DOMAIN records' \ {0},
             records'[records'[i].parent.id].phase \in Ended
      PROVE  records'[i].phase \in Ended
  <2> DEFINE j == records[i].parent.id
  <2>1. i \in DOMAIN records \ {0} /\ j = records'[i].parent.id /\ j \in DOMAIN records
    BY ZenonT(60), <1>1, ParentIsKnown DEF Lowered
  <2>2. CASE j = t.id \/ IsDescendant(records, j, t)
    <3>1. IsDescendant(records, i, t)
      BY <2>1, <2>2, DescentIsClosed
    <3> QED BY <2>1, <3>1 DEF SetPhase, RevokeDescendants, Ended
  <2>3. CASE ~(j = t.id \/ IsDescendant(records, j, t))
    <3>1. records'[j] = records[j]
      BY <2>1, <2>3 DEF SetPhase, RevokeDescendants
    <3>2. records[i].phase \in Ended
      BY <1>2, <2>1, <3>1 DEF RegistryInv, SubtreeDown
    <3> QED BY <1>1, <2>1, <3>2 DEF Lowered
  <2> QED BY <2>2, <2>3
<1> QED BY <1>1, <1>2 DEF SubtreeDown
\* What a replacement does to each record: only the object itself comes back,
\* under the next epoch; all that descends from it is down.
Replaced(r, q, t) ==
  /\ DOMAIN q = DOMAIN r
  /\ q[t.id].epoch = t.epoch + 1 /\ q[t.id].kind = r[t.id].kind
  /\ q[t.id].parent = r[t.id].parent /\ q[t.id].phase = "Active"
  /\ \A i \in DOMAIN r \ {t.id} :
       /\ q[i].epoch = r[i].epoch
       /\ q[i].kind = r[i].kind
       /\ q[i].parent = IF r[i].parent = t THEN [id |-> t.id, epoch |-> t.epoch + 1]
                        ELSE r[i].parent
       /\ IsDescendant(r, i, t) => q[i].phase \in Ended
       /\ ~IsDescendant(r, i, t) => q[i].phase = r[i].phase
       /\ r[i].phase \in Ended => q[i].phase \in Ended
  /\ t.epoch < EpochMax => \A i \in DOMAIN r : q[i] \in Record

\* The walk up from an object meets only older objects.
LEMMA WalkGoesDown ==
  ASSUME RegistryInv, NEW i \in DOMAIN records, NEW u, u.id = i
  PROVE  \/ Up(records, u) = NoToken
         \/ Up(records, u).id \in DOMAIN records /\ Up(records, u).id < i
<1>1. CASE i = 0
  BY <1>1, RootParent
<1>2. CASE i # 0
  BY ZenonT(60), <1>2, ParentIsKnown DEF Up
<1> QED BY <1>1, <1>2

\* No object descends from itself, so a replacement does not revoke its object.
LEMMA SelfIsNoDescendant ==
  ASSUME RegistryInv, NEW t \in Tokens, Known(records, t)
  PROVE  ~IsDescendant(records, t.id, t)
<1> DEFINE me == [id |-> t.id, epoch |-> records[t.id].epoch]
           a == Up(records, me)
           b == Up(records, a)
           c == Up(records, b)
<1> DEFINE Older(u) == u = NoToken \/ (u.id \in DOMAIN records /\ u.id < t.id)
<1>0. t.id \in DOMAIN records /\ DOMAIN records \subseteq Nat
  BY DEF RegistryInv, TypeOK, Known
<1>1. Older(a)
  BY <1>0, WalkGoesDown
<1>2. ASSUME NEW u, Older(u) PROVE Older(Up(records, u))
  <2>1. CASE u = NoToken
    BY <2>1, RootParent
  <2>2. CASE u.id \in DOMAIN records /\ u.id < t.id
    BY <1>0, <2>2, WalkGoesDown
  <2> QED BY <1>2, <2>1, <2>2
<1>3. Older(b) /\ Older(c)
  BY <1>1, <1>2
<1> QED BY <1>0, <1>1, <1>3 DEF IsDescendant, Ancestors

\* publish_replacement_revoking_descendants does what Replaced says.
LEMMA ReplacementReplaces ==
  ASSUME RegistryInv, NEW t \in Tokens, Known(records, t)
  PROVE  Replaced(records, Replace(RevokeDescendants(records, t), t), t)
<1> DEFINE q == RevokeDescendants(records, t)
<1>1. t.id \in DOMAIN records /\ q[t.id] = records[t.id]
  BY SelfIsNoDescendant DEF Known, RevokeDescendants
<1>2. Lowered(records, q)
  BY RevocationLowers DEF RegistryInv
<1>3. \A i \in DOMAIN records :
        /\ IsDescendant(records, i, t) => q[i].phase \in Ended
        /\ ~IsDescendant(records, i, t) => q[i] = records[i]
  BY DEF RevokeDescendants, Ended, RegistryInv, TypeOK, Record
<1> DEFINE new == [id |-> t.id, epoch |-> t.epoch + 1]
           s == Replace(q, t)
<1>4. new \in Tokens /\ records[t.id] \in Record
  BY <1>1 DEF Tokens, RegistryInv, TypeOK
<1>5. DOMAIN s = DOMAIN records
  BY <1>2 DEF Replace, Lowered
<1>6. /\ s[t.id] = [records[t.id] EXCEPT !.epoch = t.epoch + 1, !.phase = "Active"]
      /\ \A i \in DOMAIN records \ {t.id} :
           s[i] = IF q[i].parent = t THEN [q[i] EXCEPT !.parent = new] ELSE q[i]
  BY ZenonT(60), <1>1, <1>2 DEF Replace, Lowered
<1> HIDE DEF q, s, new
<1>7. /\ s[t.id].epoch = t.epoch + 1 /\ s[t.id].kind = records[t.id].kind
      /\ s[t.id].parent = records[t.id].parent /\ s[t.id].phase = "Active"
      /\ t.epoch < EpochMax => s[t.id] \in Record
  <2> DEFINE e == t.epoch + 1
  <2>1. t.epoch < EpochMax => e \in 0..EpochMax
    BY RegistryAssumption DEF Tokens
  <2>2. "Active" \in Phases
    BY DEF Phases
  <2> HIDE DEF e
  <2>3. /\ s[t.id].epoch = e /\ s[t.id].kind = records[t.id].kind
        /\ s[t.id].parent = records[t.id].parent /\ s[t.id].phase = "Active"
        /\ e \in 0..EpochMax => s[t.id] \in Record
    BY ZenonT(60), <1>4, <1>6, <2>2 DEF Record, e
  <2> QED BY <2>1, <2>3 DEF e
<1>8. ASSUME NEW i \in DOMAIN records \ {t.id}
      PROVE  /\ s[i] \in Record
             /\ s[i].epoch = q[i].epoch /\ s[i].kind = q[i].kind
             /\ s[i].phase = q[i].phase
             /\ s[i].parent = IF q[i].parent = t THEN new ELSE q[i].parent
  <2>1. q[i] \in Record
    BY <1>2 DEF Lowered
  <2> QED BY ZenonT(60), <1>4, <1>6, <2>1 DEF Record
<1>9. Replaced(records, s, t)
  BY <1>2, <1>3, <1>5, <1>7, <1>8 DEF Replaced, Lowered, new
<1> QED BY <1>9 DEF q, s

\* The registry stays sound when an object comes back.
LEMMA ReplacementKeepsInv ==
  ASSUME RegistryInv, NEW t \in Tokens, Known(records, t), t.epoch < EpochMax,
         records[t.id].phase = "Recovering", Replaced(records, records', t), UNCHANGED next_id
  PROVE  RegistryInv'
<1> DEFINE new == [id |-> t.id, epoch |-> t.epoch + 1]
<1>0. t.id \in DOMAIN records /\ records[t.id].epoch = t.epoch
  BY DEF Known
<1>1. TypeOK'
  BY DEF RegistryInv, TypeOK, Replaced
<1>2. ASSUME NEW i \in DOMAIN records \ {0}
      PROVE  LET p == records'[i].parent
             IN  /\ p.id = records[i].parent.id /\ p.id < i
                 /\ Known(records', p)
                 /\ AcceptsParent(records'[i].kind, records'[p.id].kind)
  <2> DEFINE p == records[i].parent
  <2>1. /\ p \in Tokens /\ p.id \in DOMAIN records /\ p.id < i
        /\ p.epoch = records[p.id].epoch
        /\ AcceptsParent(records[i].kind, records[p.id].kind)
    BY ZenonT(60), ParentIsKnown
  <2>2. CASE p.id = t.id
    <3>1. p = t /\ i # t.id
      BY <1>0, <2>1, <2>2 DEF Tokens, RegistryInv, TypeOK
    <3> QED BY <1>0, <2>1, <3>1 DEF Replaced, Known
  <2>3. CASE p.id # t.id
    <3>1. records'[i].parent = p
      BY <2>3 DEF Replaced
    <3> QED BY <1>0, <2>1, <2>3, <3>1 DEF Replaced, Known
  <2> QED BY <2>2, <2>3
<1>3. LineageCurrent'
  <2>1. records'[0].parent = NoToken /\ records'[0].kind = "Connection"
    <3>1. 0 \in DOMAIN records /\ records[0].parent = NoToken /\ t # NoToken
      BY <1>0, RegistryAssumption DEF RegistryInv, TypeOK, LineageCurrent, NoToken
    <3> QED BY <3>1, RootParent DEF Replaced
  <2> QED BY <1>2, <2>1 DEF LineageCurrent, Replaced
<1>4. ASSUME NEW i \in DOMAIN records \ {0},
             records'[records'[i].parent.id].phase \in Ended
      PROVE  records'[i].phase \in Ended
  <2> DEFINE j == records[i].parent.id
  <2>1. j = records'[i].parent.id /\ j \in DOMAIN records
    BY ZenonT(60), <1>2, ParentIsKnown
  <2>2. j # t.id
    BY <1>4, <2>1 DEF Replaced, Ended
  <2>3. CASE i = t.id
    <3>1. ~IsDescendant(records, j, t)
      <4>1. IsDescendant(records, j, t) => IsDescendant(records, i, t)
        BY DescentIsClosed
      <4> QED BY <2>3, <4>1, SelfIsNoDescendant
    <3>2. records[j].phase \in Ended
      BY <1>4, <2>1, <2>2, <3>1 DEF Replaced
    <3>3. records[i].phase \in Ended
      BY <3>2 DEF RegistryInv, SubtreeDown
    <3> QED BY <2>3, <3>3 DEF Ended
  <2>4. CASE i # t.id /\ IsDescendant(records, j, t)
    <3>1. IsDescendant(records, i, t)
      BY <2>4, DescentIsClosed
    <3> QED BY <2>4, <3>1 DEF Replaced
  <2>5. CASE i # t.id /\ ~IsDescendant(records, j, t)
    <3>1. records[j].phase \in Ended
      BY <1>4, <2>1, <2>2, <2>5 DEF Replaced
    <3>2. records[i].phase \in Ended
      BY <3>1 DEF RegistryInv, SubtreeDown
    <3> QED BY <2>5, <3>2 DEF Replaced
  <2> QED BY <2>3, <2>4, <2>5
<1>5. SubtreeDown'
  BY <1>4 DEF SubtreeDown, Replaced
<1> QED BY <1>1, <1>3, <1>5 DEF RegistryInv

\* A replacement brings back no token that was handed out before it.
LEMMA ReplacementRefuses ==
  ASSUME RegistryInv, NEW t \in Tokens, Known(records, t), NEW q,
         Replaced(records, q, t), NEW o \in Issued, ValidateActive(q, o)
  PROVE  ValidateActive(records, o)
<1> DEFINE a == Up(records, o)
           b == Up(records, a)
           c == Up(records, b)
           Off(u) == u = NoToken \/ (u.id \in DOMAIN records \ {t.id} /\ u # t)
<1>1. /\ o.id \in DOMAIN records /\ o.epoch \in Nat /\ o.epoch <= records[o.id].epoch
      /\ t.id \in DOMAIN records /\ records[t.id].epoch = t.epoch /\ t.epoch \in Nat
  BY RegistryAssumption DEF Issued, Known, Tokens
<1>2. Known(q, o) /\ q[o.id].phase = "Active"
  BY DEF ValidateActive
<1>3. o.id # t.id
  BY <1>1, <1>2 DEF Known, Replaced
<1>4. ~IsDescendant(records, o.id, t)
  BY <1>1, <1>2, <1>3 DEF Replaced, Ended
<1>5. Up(records, [id |-> o.id, epoch |-> records[o.id].epoch]) = a
  BY DEF Up
<1>6. t # NoToken
  BY <1>1, RegistryAssumption DEF RegistryInv, TypeOK, NoToken
<1>7. a # t /\ b # t /\ c # t
  BY <1>4, <1>5, <1>6 DEF IsDescendant, Ancestors
<1>8. ASSUME NEW u, u.id \in DOMAIN records, Up(records, u) # t
      PROVE  Off(Up(records, u))
  <2>1. CASE u.id = 0
    BY <2>1, RootParent
  <2>2. CASE u.id # 0
    <3> DEFINE p == records[u.id].parent
    <3>1. Up(records, u) = p
      BY SMTT(60), <1>8 DEF Up
    <3>2. p \in Tokens /\ p.id \in DOMAIN records /\ p.epoch = records[p.id].epoch
      BY ZenonT(60), <1>8, <2>2, ParentIsKnown
    <3>3. p.id # t.id
      BY <1>1, <1>8, <3>1, <3>2 DEF Tokens
    <3> QED BY <1>8, <3>1, <3>2, <3>3
  <2> QED BY <2>1, <2>2
<1>9. Off(a) /\ Off(b) /\ Off(c)
  <2>1. Off(a)
    BY <1>1, <1>7, <1>8
  <2>2. Off(b)
    BY <1>7, <1>8, <2>1, RootParent
  <2>3. Off(c)
    BY <1>7, <1>8, <2>2, RootParent
  <2> QED BY <2>1, <2>2, <2>3
<1>10. ASSUME NEW u, u.id \in DOMAIN records \ {t.id}, Up(records, u) # t
       PROVE  Up(q, u) = Up(records, u)
  BY <1>10 DEF Up, Replaced
<1>11. Up(q, NoToken) = NoToken
  BY RootParent DEF Up, Replaced
<1>12. Up(q, o) = a /\ Up(q, a) = b /\ Up(q, b) = c
  <2>1. Up(q, o) = a
    BY <1>1, <1>3, <1>7, <1>10
  <2>2. Up(q, a) = b
    BY <1>7, <1>9, <1>10, <1>11, RootParent
  <2>3. Up(q, b) = c
    BY <1>7, <1>9, <1>10, <1>11, RootParent
  <2> QED BY <2>1, <2>2, <2>3
<1> HIDE DEF a, b, c
<1>13. Ancestors(q, o) = {a, b, c} \ {NoToken} /\ Ancestors(records, o) = {a, b, c} \ {NoToken}
  BY <1>12 DEF Ancestors, a, b, c
<1>14. ASSUME NEW u \in {o} \cup ({a, b, c} \ {NoToken})
       PROVE  Known(records, u) /\ records[u.id].phase = "Active"
  <2>1. u.id \in DOMAIN records \ {t.id}
    BY <1>1, <1>3, <1>9
  <2>2. Known(q, u) /\ q[u.id].phase = "Active"
    BY <1>13 DEF ValidateActive
  <2> QED BY <2>1, <2>2 DEF Known, Replaced, Ended
<1> QED BY <1>13, <1>14 DEF ValidateActive

\* A new object changes nothing for the others.
Grown(r, q, id) ==
  /\ DOMAIN q = DOMAIN r \cup {id} /\ id \notin DOMAIN r
  /\ \A i \in DOMAIN r : q[i] = r[i]

\* A new object makes no token valid that was refused.
LEMMA GrowthRefuses ==
  ASSUME RegistryInv, NEW q, NEW id \in Nat, id <= IdMax, Grown(records, q, id),
         NEW o \in Issued, ValidateActive(q, o)
  PROVE  ValidateActive(records, o)
<1>1. \A u : u.id \in DOMAIN records => Up(q, u) = Up(records, u)
  BY DEF Grown, Up
<1>2. Up(q, NoToken) = NoToken /\ Up(records, NoToken) = NoToken
  BY RootParent, RegistryAssumption DEF RegistryInv, TypeOK, Grown, Up, NoToken
<1> DEFINE Old(u) == u = NoToken \/ u.id \in DOMAIN records
<1>3. ASSUME NEW u, Old(u)
      PROVE  Old(Up(records, u)) /\ Up(q, u) = Up(records, u)
  BY <1>1, <1>2, <1>3, WalkGoesDown
<1>4. o.id \in DOMAIN records
  BY DEF Issued
<1> DEFINE a == Up(records, o)
           b == Up(records, a)
           c == Up(records, b)
<1>5. Old(a) /\ Up(q, o) = a
  BY <1>3, <1>4
<1>6. Old(b) /\ Up(q, a) = b
  BY <1>3, <1>5
<1>7. Old(c) /\ Up(q, b) = c
  BY <1>3, <1>6
<1> HIDE DEF a, b, c
<1>8. /\ Ancestors(q, o) = {a, b, c} \ {NoToken}
      /\ Ancestors(records, o) = {a, b, c} \ {NoToken}
  BY <1>5, <1>6, <1>7 DEF Ancestors, a, b, c
<1> QED BY <1>4, <1>5, <1>6, <1>7, <1>8 DEF ValidateActive, Known, Grown
-----------------------------------------------------------------------------
NoTokenReturns ==
  \A o \in Issued : ValidateActive(records', o) => ValidateActive(records, o)

\* A token the registry has issued is a token.
LEMMA IssuedAreTokens ==
  ASSUME RegistryInv, NEW t \in Issued
  PROVE  t \in Tokens
BY RegistryAssumption DEF RegistryInv, TypeOK, Issued, Tokens

\* A step that lowers the registry and keeps subtrees down is sound.
LEMMA StepsThatLower ==
  ASSUME RegistryInv, Lowered(records, records'), UNCHANGED next_id, SubtreeDown'
  PROVE  RegistryInv' /\ NoTokenReturns
<1>1. TypeOK' /\ LineageCurrent'
  BY LoweredLineage DEF RegistryInv
<1>2. NoTokenReturns
  BY LoweredRefuses DEF RegistryInv, NoTokenReturns
<1> QED BY <1>1, <1>2 DEF RegistryInv

\* begin_recovery and begin_close are sound.
LEMMA LiveSteps ==
  ASSUME RegistryInv, NEW t \in Issued, BeginObjectRecovery(t) \/ BeginClose(t)
  PROVE  RegistryInv' /\ NoTokenReturns
<1>1. PICK phase \in {"Recovering", "Closing"} :
        records' = SetPhase(records, t, phase)
  BY DEF BeginObjectRecovery, BeginClose
<1>2. t.id \in DOMAIN records /\ records[t.id].phase \notin Ended /\ UNCHANGED next_id
  BY DEF BeginObjectRecovery, BeginClose, ValidateActive, Known, Ended
<1>3. Lowered(records, records')
  BY <1>1, <1>2, SetPhaseLowers DEF RegistryInv, Phases
<1>4. \A i \in DOMAIN records : records'[i].phase \in Ended => records[i].phase \in Ended
  BY SMTT(60), <1>1, <1>2 DEF SetPhase, Ended, RegistryInv, TypeOK, Record
<1>5. SubtreeDown'
  BY ZenonT(60), <1>3, <1>4, ParentIsKnown DEF RegistryInv, SubtreeDown, Lowered
<1> QED BY <1>2, <1>3, <1>5, StepsThatLower

\* fail_recovery and complete_close are sound.
LEMMA EndingSteps ==
  ASSUME RegistryInv, NEW t \in Issued, FailRecovery(t) \/ CompleteClose(t)
  PROVE  RegistryInv' /\ NoTokenReturns
<1>1. PICK phase \in Ended :
        records' = SetPhase(RevokeDescendants(records, t), t, phase)
  BY DEF FailRecovery, CompleteClose, Ended
<1>2. Known(records, t) /\ UNCHANGED next_id
  BY DEF FailRecovery, CompleteClose
<1> QED BY <1>1, <1>2, IssuedAreTokens, EndingKeepsSubtrees, StepsThatLower

\* publish_replacement_revoking_descendants is sound, out of epochs or not.
LEMMA PublishSteps ==
  ASSUME RegistryInv, NEW t \in Issued, PublishReplacement(t)
  PROVE  RegistryInv' /\ NoTokenReturns
<1>1. t \in Tokens /\ Known(records, t) /\ UNCHANGED next_id
  BY IssuedAreTokens DEF PublishReplacement
<1>2. CASE t.epoch < EpochMax
  <2>1. Replaced(records, records', t) /\ records[t.id].phase = "Recovering"
    BY <1>1, <1>2, ReplacementReplaces DEF PublishReplacement
  <2>2. RegistryInv'
    BY <1>1, <1>2, <2>1, ReplacementKeepsInv
  <2>3. NoTokenReturns
    BY <1>1, <2>1, ReplacementRefuses DEF NoTokenReturns
  <2> QED BY <2>2, <2>3
<1>3. CASE ~(t.epoch < EpochMax)
  <2>1. records' = RevokeDescendants(records, t)
    BY <1>3 DEF PublishReplacement
  <2>2. Lowered(records, records')
    BY <2>1, RevocationLowers DEF RegistryInv
  <2>3. ASSUME NEW i \in DOMAIN records \ {0},
               records'[records[i].parent.id].phase \in Ended
        PROVE  records'[i].phase \in Ended
    <3> DEFINE j == records[i].parent.id
    <3>1. j \in DOMAIN records
      BY ZenonT(60), ParentIsKnown
    <3>2. CASE IsDescendant(records, j, t)
      <4>1. IsDescendant(records, i, t)
        BY <1>1, <3>2, DescentIsClosed
      <4> QED BY <2>1, <4>1 DEF RevokeDescendants, Ended, RegistryInv, TypeOK, Record
    <3>3. CASE ~IsDescendant(records, j, t)
      <4>1. records[i].phase \in Ended
        BY <2>1, <2>3, <3>1, <3>3 DEF RevokeDescendants, RegistryInv, SubtreeDown
      <4> QED BY <2>2, <4>1 DEF Lowered
    <3> QED BY <3>2, <3>3
  <2>4. SubtreeDown'
    BY <2>2, <2>3 DEF SubtreeDown, Lowered
  <2> QED BY <1>1, <2>2, <2>4, StepsThatLower
<1> QED BY <1>2, <1>3

\* create_child is sound.
LEMMA CreateSteps ==
  ASSUME RegistryInv, NEW t \in Issued, NEW kind \in Kinds, CreateChild(t, kind)
  PROVE  RegistryInv' /\ NoTokenReturns
<1> DEFINE new == [epoch |-> 0, kind |-> kind, parent |-> t, phase |-> "Active"]
<1>1. t \in Tokens /\ t.id \in DOMAIN records
  BY IssuedAreTokens DEF Issued
<1>2. next_id \in Nat /\ next_id <= IdMax /\ next_id # 0 /\ next_id' = next_id + 1
  BY RegistryAssumption DEF RegistryInv, TypeOK, CreateChild
<1>3. Grown(records, records', next_id) /\ records'[next_id] = new
  BY <1>2 DEF CreateChild, Grown, RegistryInv, TypeOK
<1>4. new \in Record
  BY <1>1, RegistryAssumption DEF Record, Phases
<1>5. TypeOK'
  <2>1. DOMAIN records' = 0..(next_id' - 1)
    BY SMTT(60), <1>2, <1>3 DEF Grown, RegistryInv, TypeOK
  <2> QED BY <1>2, <1>3, <1>4, <2>1, RegistryAssumption DEF Grown, RegistryInv, TypeOK
<1>6. LineageCurrent'
  <2>1. ASSUME NEW i \in DOMAIN records
        PROVE  /\ records'[i] = records[i]
               /\ i # 0 => /\ records[i].parent.id < i
                           /\ records[i].parent.id \in DOMAIN records
                           /\ Known(records', records[i].parent)
                           /\ AcceptsParent(records[i].kind,
                                            records'[records[i].parent.id].kind)
    BY ZenonT(60), <1>3, ParentIsKnown DEF Grown, Known
  <2>2. t.id < next_id /\ Known(records', t) /\ AcceptsParent(kind, records'[t.id].kind)
    BY <1>1, <1>2, <1>3 DEF Grown, Known, CreateChild, RegistryInv, TypeOK
  <2>3. 0 \in DOMAIN records
    BY <1>2 DEF RegistryInv, TypeOK
  <2>4. DOMAIN records' = DOMAIN records \cup {next_id}
    BY <1>3 DEF Grown
  <2>5. records[0].parent = NoToken /\ records[0].kind = "Connection"
    BY <2>3 DEF RegistryInv, LineageCurrent
  <2> QED BY SMTT(60), <1>2, <1>3, <2>1, <2>2, <2>3, <2>4, <2>5 DEF LineageCurrent
<1>7. SubtreeDown'
  <2>1. records[t.id].phase = "Active"
    BY DEF CreateChild
  <2>2. \A i \in DOMAIN records \ {0} : records[i].parent.id \in DOMAIN records
    BY ZenonT(60), ParentIsKnown
  <2> QED BY <1>1, <1>3, <2>1, <2>2 DEF Grown, RegistryInv, SubtreeDown, Ended
<1>8. NoTokenReturns
  BY <1>2, <1>3, GrowthRefuses DEF NoTokenReturns
<1> QED BY <1>5, <1>6, <1>7, <1>8 DEF RegistryInv

\* lose_generation is sound.
LEMMA LossSteps ==
  ASSUME RegistryInv, LoseGeneration
  PROVE  RegistryInv' /\ NoTokenReturns
<1>1. Lowered(records, records')
  BY SMTT(60) DEF LoseGeneration, RegistryInv, TypeOK, Lowered, Record, Ended, Phases
<1>2. \A i \in DOMAIN records' : records'[i].phase \in Ended
  BY DEF LoseGeneration, RegistryInv, TypeOK, Record, Ended
<1>3. SubtreeDown'
  BY <1>2 DEF SubtreeDown
<1> QED BY <1>1, <1>3, StepsThatLower DEF LoseGeneration

\* Every step keeps the invariant and brings no refused token back.
LEMMA RegistryStep ==
  ASSUME RegistryInv, [Next]_vars
  PROVE  RegistryInv' /\ NoTokenReturns
<1>1. CASE UNCHANGED vars
  <2>1. Lowered(records, records') /\ SubtreeDown' /\ UNCHANGED next_id
    BY <1>1 DEF vars, Lowered, RegistryInv, TypeOK, SubtreeDown
  <2> QED BY <2>1, StepsThatLower
<1>2. CASE Next
  BY <1>2, CreateSteps, LiveSteps, PublishSteps, EndingSteps, LossSteps DEF Next
<1> QED BY <1>1, <1>2

\* A new registry satisfies the invariant.
LEMMA RegistryStarts ==
  ASSUME Init PROVE RegistryInv
<1>1. records[0] \in Record /\ records[0].parent = NoToken /\ DOMAIN records = {0}
  BY RegistryAssumption DEF Init, Record, Kinds, Phases, Tokens, NoToken
<1>2. TypeOK
  BY <1>1, RegistryAssumption DEF Init, TypeOK
<1> QED BY <1>1, <1>2 DEF Init, RegistryInv, LineageCurrent, SubtreeDown

\* In every registry the record types hold, no object names a stale parent, and
\* nothing below a revoked or closed object is alive, whatever the order of
\* creations, recoveries, closes and losses (all of object_state.rs).
THEOREM RegistrySound == Spec => []RegistryInv
<1>1. Init => RegistryInv
  BY RegistryStarts
<1>2. RegistryInv /\ [Next]_vars => RegistryInv'
  BY RegistryStep
<1> QED BY <1>1, <1>2, PTL DEF Spec

\* Nothing below a revoked or closed object is alive (revoke_descendants,
\* create_child).
THEOREM SubtreeAlwaysDown == Spec => []SubtreeDown
<1>1. RegistryInv => SubtreeDown
  BY DEF RegistryInv
<1> QED BY <1>1, RegistrySound, PTL

\* The lineage of an object never holds a stale token (publish_replacement).
THEOREM LineageAlwaysCurrent == Spec => []LineageCurrent
<1>1. RegistryInv => LineageCurrent
  BY DEF RegistryInv
<1> QED BY <1>1, RegistrySound, PTL

\* No step makes validate_active accept a token it refused before the step.
THEOREM RefusalIsForGood == Spec => RefusedForGood
<1>1. RegistryInv /\ [Next]_vars =>
        [\A t \in Issued : ValidateActive(records', t) => ValidateActive(records, t)]_vars
  BY RegistryStep DEF NoTokenReturns
<1> QED BY <1>1, RegistrySound, PTL DEF Spec, RefusedForGood
=============================================================================
