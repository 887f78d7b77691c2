---------------------------- MODULE ObjectRegistry ----------------------------
(***************************************************************************)
(* ObjectRegistry (runtime/object_state.rs): the authority over the        *)
(* sessions, shares and resources of one connection generation.  Callers   *)
(* hold tokens; the registry says whether a token still gives access.  A   *)
(* token is an object id and an epoch: an object that recovers gets a new  *)
(* epoch, and the tokens of the old one are stale.                         *)
(*                                                                         *)
(* The kinds fix the depth of the hierarchy (accepts_parent), so the walks *)
(* of validate_active and is_descendant take at most three steps up and    *)
(* are written out.  A call that returns an error changes nothing and has  *)
(* no action here, except the replacement that has run out of epochs.      *)
(* Tokens of another generation are refused by every call.                 *)
(***************************************************************************)
EXTENDS Naturals

CONSTANTS IdMax,     \* u64::MAX, the last object id
          EpochMax   \* u64::MAX, the last epoch of an object

ASSUME RegistryAssumption == IdMax \in Nat /\ EpochMax \in Nat

VARIABLES records,   \* id -> epoch, kind, parent token and phase
          next_id    \* the next free id; IdMax + 1 when there is none

vars == <<records, next_id>>

-----------------------------------------------------------------------------
Kinds == {"Connection", "Session", "Share", "Resource"}

Phases == {"Active", "Recovering", "Revoked", "Closing", "Closed"}

\* Phases no call brings an object back from.
Ended == {"Revoked", "Closed"}

Tokens == [id : Nat, epoch : Nat]

\* The parent of the connection, which has none.
NoToken == [id |-> IdMax + 1, epoch |-> 0]

AcceptsParent(kind, parent) ==
  <<parent, kind>> \in {<<"Connection", "Session">>, <<"Session", "Share">>,
                        <<"Share", "Resource">>}

\* Every token ever handed out: the current one of each object and older ones.
Issued == {t \in [id : DOMAIN records, epoch : 0..EpochMax] :
             t.epoch <= records[t.id].epoch}

Known(r, t) == t.id \in DOMAIN r /\ r[t.id].epoch = t.epoch

Up(r, t) == IF t.id \in DOMAIN r THEN r[t.id].parent ELSE NoToken

Ancestors(r, t) == {Up(r, t), Up(r, Up(r, t)), Up(r, Up(r, Up(r, t)))} \ {NoToken}

\* validate_active: the token and all above it are current and active.
ValidateActive(r, t) ==
  \A u \in {t} \cup Ancestors(r, t) : Known(r, u) /\ r[u.id].phase = "Active"

IsDescendant(r, i, t) == t \in Ancestors(r, [id |-> i, epoch |-> r[i].epoch])

\* Mutant of RevokeDescendants: only the children are revoked.
RevokeChildren(r, t) ==
  [i \in DOMAIN r |-> IF r[i].parent = t /\ r[i].phase \notin Ended
                      THEN [r[i] EXCEPT !.phase = "Revoked"] ELSE r[i]]

RevokeDescendants(r, t) ==
  [i \in DOMAIN r |-> IF IsDescendant(r, i, t) /\ r[i].phase \notin Ended
                      THEN [r[i] EXCEPT !.phase = "Revoked"] ELSE r[i]]

\* Mutant of Replace: the object recovers under its old token.
ReplaceInPlace(r, t) ==
  [i \in DOMAIN r |-> IF i = t.id THEN [r[i] EXCEPT !.phase = "Active"] ELSE r[i]]

\* The object of token t is active again under the next epoch, and its
\* children name the new token.
Replace(r, t) ==
  [i \in DOMAIN r |->
     IF i = t.id THEN [r[i] EXCEPT !.epoch = t.epoch + 1, !.phase = "Active"]
     ELSE IF r[i].parent = t
          THEN [r[i] EXCEPT !.parent = [id |-> t.id, epoch |-> t.epoch + 1]]
          ELSE r[i]]

SetPhase(r, t, phase) ==
  [i \in DOMAIN r |-> IF i = t.id THEN [r[i] EXCEPT !.phase = phase] ELSE r[i]]

-----------------------------------------------------------------------------
Init ==
  /\ records = [i \in {0} |-> [epoch |-> 0, kind |-> "Connection",
                               parent |-> NoToken, phase |-> "Active"]]
  /\ next_id = 1

\* Only the parent itself is asked to be active, not what is above it.
CreateChild(t, kind) ==
  /\ Known(records, t)
  /\ AcceptsParent(kind, records[t.id].kind)
  /\ records[t.id].phase = "Active"
  /\ next_id <= IdMax
  /\ records' = [i \in DOMAIN records \cup {next_id} |->
                   IF i = next_id
                   THEN [epoch |-> 0, kind |-> kind, parent |-> t, phase |-> "Active"]
                   ELSE records[i]]
  /\ next_id' = next_id + 1

BeginObjectRecovery(t) ==
  /\ ValidateActive(records, t)
  /\ records' = SetPhase(records, t, "Recovering")
  /\ UNCHANGED next_id

\* The descendants are revoked first, also when no epoch is left and the
\* replacement fails.
PublishReplacement(t) ==
  LET revoked == RevokeDescendants(records, t)
  IN  /\ Known(records, t) /\ records[t.id].phase = "Recovering"
      /\ records' = IF t.epoch < EpochMax THEN Replace(revoked, t) ELSE revoked
      /\ UNCHANGED next_id

FailRecovery(t) ==
  /\ Known(records, t) /\ records[t.id].phase = "Recovering"
  /\ records' = SetPhase(RevokeDescendants(records, t), t, "Revoked")
  /\ UNCHANGED next_id

\* The caller that finds the object open owns the protocol close.
BeginClose(t) ==
  /\ Known(records, t) /\ records[t.id].phase \in {"Active", "Recovering"}
  /\ records' = SetPhase(records, t, "Closing")
  /\ UNCHANGED next_id

CompleteClose(t) ==
  /\ Known(records, t)
  /\ records' = SetPhase(RevokeDescendants(records, t), t, "Closed")
  /\ UNCHANGED next_id

LoseGeneration ==
  /\ records' = [i \in DOMAIN records |->
                   IF records[i].phase \in Ended THEN records[i]
                   ELSE [records[i] EXCEPT !.phase = "Revoked"]]
  /\ UNCHANGED next_id

Next ==
  \/ \E t \in Issued :
       \/ \E kind \in Kinds : CreateChild(t, kind)
       \/ BeginObjectRecovery(t) \/ PublishReplacement(t) \/ FailRecovery(t)
       \/ BeginClose(t) \/ CompleteClose(t)
  \/ LoseGeneration

Spec == Init /\ [][Next]_vars

-----------------------------------------------------------------------------
(* Properties.                                                             *)

Record == [epoch : 0..EpochMax, kind : Kinds, parent : Tokens, phase : Phases]

\* The ids are 0 up to the last one handed out, and every record has its type.
TypeOK ==
  /\ next_id \in 1..(IdMax + 1)
  /\ DOMAIN records = 0..(next_id - 1)
  /\ \A i \in DOMAIN records : records[i] \in Record

\* Every object but the connection names the current token of an older object
\* of the kind above its own: a replacement leaves no child behind with a
\* stale parent, so validate_active and is_descendant see the same hierarchy
\* (publish_replacement).
LineageCurrent ==
  \A i \in DOMAIN records :
    LET parent == records[i].parent
    IN  IF i = 0 THEN parent = NoToken /\ records[i].kind = "Connection"
        ELSE /\ parent.id < i /\ Known(records, parent)
             /\ AcceptsParent(records[i].kind, records[parent.id].kind)

\* Whatever hangs below an object that was revoked or closed is revoked or
\* closed too, and stays so: no call leaves or creates a live descendant there
\* (revoke_descendants, create_child).
SubtreeDown ==
  \A i \in DOMAIN records \ {0} :
    records[records[i].parent.id].phase \in Ended => records[i].phase \in Ended

\* A token that is refused once is refused for ever: recovery gives access
\* back under a new token only, to the object and to all below it.
RefusedForGood ==
  [][\A t \in Issued : ValidateActive(records', t) => ValidateActive(records, t)]_vars
=============================================================================
