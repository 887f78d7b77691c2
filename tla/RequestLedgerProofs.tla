------------------------ MODULE RequestLedgerProofs -------------------------
(***************************************************************************)
(* Answers, admission, negotiation and tear-down keep the ledger sound.    *)
(* response works in two halves, the accounting of credits and payload and *)
(* then the effect of an interim or a final answer; the state between them *)
(* is HalfAnswered.  With the events of LedgerBooks this makes Sound an    *)
(* inductive invariant of RequestLedger, and the properties of that module *)
(* follow for every value of its constants: any limits, any charges and    *)
(* grants, any number of requests.                                         *)
(***************************************************************************)
EXTENDS LedgerBooks

(* Answers.                                                                *)

\* A ledger that has answered request k is sound again once the record is.
LEMMA AnsweredSound ==
  ASSUME NEW K, NEW s, NEW u, NEW w, NEW w2, Sound(s, K, w), NEW k \in K,
         Core(u, K), u.requests = [s.requests EXCEPT ![k] = u.requests[k]],
         u.deadlines = s.deadlines, s.unhealthy => u.unhealthy,
         RecordOK(u.requests[k]), Stands(s.requests[k], u.requests[k]),
         u.requests[k].tombstone =>
           /\ s.requests[k].tombstone
           /\ u.requests[k].deadline_version = s.requests[k].deadline_version,
         AsyncOK(u, K), w2 \in Nat,
         u.unhealthy \/ u.available_credits + Reserved(u) = w2
  PROVE  Sound(u, K, w2) /\ AllStand(s, u, K)
<1>1. s.requests \in [K -> Request]
  BY ZenonT(40), SoundRecord
<1>2. \A j \in K : j # k => u.requests[j] = s.requests[j]
  BY ZenonT(40), <1>1
<1>3. \A j \in K : RecordOK(u.requests[j])
  BY ZenonT(40), <1>2 DEF Sound
<1>4. \A j \in K : Armed(u, j)
  BY ZenonT(40), <1>2 DEF Sound, Armed
<1>5. AllStand(s, u, K)
  BY ZenonT(40), <1>2 DEF AllStand, Stands
<1> QED BY ZenonT(40), <1>3, <1>4, <1>5 DEF Sound

\* What the accounting of an answer leaves of the record, before its effect.
AnsweredFrom(r, a) ==
  /\ a \in Request /\ RecordOK(a) /\ Committed(a.send)
  /\ a.caller = r.caller /\ a.response = r.response
  /\ a.tombstone = r.tombstone /\ a.deadline_version = r.deadline_version
  /\ a.payload_bytes = r.payload_bytes /\ a.credit_charge = r.credit_charge
  /\ a.admission_held = r.admission_held /\ ~a.payload_held
  /\ a.credit_obligation = r.credit_obligation /\ a.credit_response_seen

\* The accounting keeps the record's caller, permit and answer as they were.
LEMMA AnsweredRecord ==
  ASSUME NEW K, NEW s, NEW w, Sound(s, K, w), NEW k \in K,
         s.requests[k].response # "Final"
  PROVE  AnsweredFrom(s.requests[k], Answered(s.requests[k]))
<1> DEFINE r == s.requests[k]
           r0 == ObserveResponseCommitment(r)
           r1 == [r0 EXCEPT !.credit_response_seen = TRUE]
           a == Unloaded(r1)
<1>1. r \in Request /\ RecordOK(r)
  BY ZenonT(40), SoundRecord
<1>2. /\ r0 \in Request /\ Committed(r0.send)
      /\ r0.caller = r.caller /\ r0.response = r.response
      /\ r0.tombstone = r.tombstone /\ r0.deadline_version = r.deadline_version
      /\ r0.payload_bytes = r.payload_bytes /\ r0.credit_charge = r.credit_charge
      /\ r0.admission_held = r.admission_held
      /\ r0.credit_obligation = r.credit_obligation
  BY ZenonT(40), <1>1 DEF ObserveResponseCommitment, Request, SendProgress, Committed
<1> HIDE DEF r0
<1>3. /\ a \in Request /\ Committed(a.send)
      /\ a.caller = r.caller /\ a.response = r.response
      /\ a.tombstone = r.tombstone /\ a.deadline_version = r.deadline_version
      /\ a.payload_bytes = r.payload_bytes /\ a.credit_charge = r.credit_charge
      /\ a.admission_held = r.admission_held /\ ~a.payload_held
      /\ a.credit_obligation = r.credit_obligation /\ a.credit_response_seen
  BY ZenonT(60), <1>2 DEF Unloaded, Request
<1>4. a = Answered(r)
  BY ZenonT(40) DEF Answered, r0
<1> HIDE DEF a
<1>5. RecordOK(a)
  BY ZenonT(40), <1>1, <1>3 DEF RecordOK
<1> QED BY ZenonT(40), <1>3, <1>4, <1>5 DEF AnsweredFrom

\* u is sound except that request k is answered but not finished.
HalfAnswered(s, u, K, k, w2) ==
  /\ OneRequest(s, u, K, k) /\ u.deadlines = s.deadlines
  /\ AnsweredFrom(s.requests[k], u.requests[k])
  /\ s.requests[k].response # "Final"
  /\ w2 \in Nat
  /\ u.unhealthy \/ u.available_credits + Reserved(u) = w2

\* An interim answer indexes the request under its async id and no other.
LEMMA FinishPendingSound ==
  ASSUME NEW K, NEW s, NEW w, Sound(s, K, w), NEW k \in K, NEW u, NEW w2,
         HalfAnswered(s, u, K, k, w2), NEW id \in AsyncIds, ~AsyncIdClash(s, k, id)
  PROVE  /\ Sound(FinishPending(u, k, id), K, w2)
         /\ AllStand(s, FinishPending(u, k, id), K)
         /\ FinishPending(u, k, id).unhealthy = s.unhealthy
<1> DEFINE r == s.requests[k]
           a == u.requests[k]
           b == [a EXCEPT !.response = id]
           I == {p \in u.async_index : p[1] # id} \cup {<<id, k>>}
           x == Replace(u, k, b)
           f == [x EXCEPT !.async_index = I]
<1>0. /\ s.requests \in [K -> Request] /\ r \in Request /\ RecordOK(r) /\ AsyncOK(s, K)
      /\ K \subseteq Nat /\ s.async_index \subseteq AsyncIds \X Nat
  BY SoundRecord DEF Sound, Core, Ledger
<1>1. /\ Core(u, K) /\ u.requests = [s.requests EXCEPT ![k] = a]
      /\ u.async_index = s.async_index /\ u.unhealthy = s.unhealthy
      /\ u.deadlines = s.deadlines
      /\ r.response # "Final" /\ w2 \in Nat
      /\ u.unhealthy \/ u.available_credits + Reserved(u) = w2
  BY ZenonT(40) DEF HalfAnswered, OneRequest
<1>2. /\ a \in Request /\ RecordOK(a)
      /\ a.caller = r.caller /\ a.response = r.response
      /\ a.tombstone = r.tombstone /\ a.deadline_version = r.deadline_version
  BY ZenonT(40) DEF HalfAnswered, AnsweredFrom
<1>3. /\ b \in Request /\ b.response = id /\ b.caller = a.caller /\ b.send = a.send
      /\ b.tombstone = a.tombstone /\ b.deadline_version = a.deadline_version
      /\ b.payload_bytes = a.payload_bytes /\ b.credit_charge = a.credit_charge
      /\ b.credit_response_seen = a.credit_response_seen
      /\ b.credit_obligation = a.credit_obligation
      /\ b.admission_held = a.admission_held /\ b.payload_held = a.payload_held
  BY ZenonT(40), <1>2 DEF Request, ResponseProgress
<1>4. b = OnAsyncPending(a, id)
  BY ZenonT(40), <1>1, <1>2 DEF OnAsyncPending
<1> HIDE DEF b
<1>5. /\ [u EXCEPT !.requests[k] = b] = x /\ OneRequest(u, x, K, k)
      /\ x.requests[k] = b /\ x.deadlines = u.deadlines /\ CreditsMoved(u, x)
  BY <1>1, <1>3, StoreRecord
<1>6. u \in Ledger(K) /\ Core(x, K) /\ x \in Ledger(K)
  <2>1. Core(x, K)
    BY ZenonT(40), <1>5 DEF OneRequest
  <2> HIDE DEF x
  <2> QED BY ZenonT(40), <1>1, <2>1 DEF Core
<1>7. FinishPending(u, k, id) = f
  <2>1. FinishPending(u, k, id) = [u EXCEPT !.requests[k] = b, !.async_index = I]
    BY ZenonT(40), <1>4 DEF FinishPending
  <2>2. f = [[u EXCEPT !.requests[k] = b] EXCEPT !.async_index = I]
    BY ZenonT(60), <1>5
  <2> HIDE DEF I, f
  <2> QED BY ZenonT(40), <1>6, <2>1, <2>2 DEF Ledger
<1>8. I \subseteq AsyncIds \X Nat
  BY <1>0, <1>1
<1>9. /\ f \in Ledger(K) /\ f.requests = x.requests /\ f.async_index = I
      /\ f.next_message_id = x.next_message_id
      /\ f.admitted_operations = x.admitted_operations
      /\ f.retained_payload_bytes = x.retained_payload_bytes
      /\ f.unhealthy = x.unhealthy /\ f.deadlines = x.deadlines
      /\ f.available_credits = x.available_credits
  <2> HIDE DEF I, x
  <2> QED BY ZenonT(40), <1>6, <1>8 DEF Ledger
<1> HIDE DEF x, f
<1>10. Core(f, K) /\ Reserved(f) = Reserved(x)
  BY ZenonT(40), <1>6, <1>9, CoreSame
<1>11. /\ f.requests = [s.requests EXCEPT ![k] = f.requests[k]] /\ f.requests[k] = b
       /\ f.deadlines = s.deadlines /\ (s.unhealthy => f.unhealthy)
  BY <1>0, <1>1, <1>5, <1>9 DEF OneRequest
<1>12. f.unhealthy \/ f.available_credits + Reserved(f) = w2
  BY ZenonT(40), <1>1, <1>5, <1>9, <1>10 DEF OneRequest, CreditsMoved
<1>13. RecordOK(b) /\ Stands(r, b)
  BY ZenonT(40), <1>1, <1>2, <1>3, AsyncIdsAssumption DEF RecordOK, Stands
<1>14. AsyncOK(f, K)
  <2>1. \A j \in K : j # k => f.requests[j] = s.requests[j]
    BY ZenonT(40), <1>0, <1>11
  <2>2. /\ \A p \in s.async_index : p[1] = id => p[2] = k
        /\ r.response \in AsyncIds => r.response = id
    BY ZenonT(40) DEF AsyncIdClash
  <2>3. f.async_index = {p \in s.async_index : p[1] # id} \cup {<<id, k>>}
    BY ZenonT(40), <1>1, <1>9
  <2>4. \A j \in K : j # k => s.requests[j].response # id
    BY ZenonT(60), <1>0, <2>2 DEF AsyncOK
  <2>5. \A j \in K : f.requests[j].response \in AsyncIds =>
                       <<f.requests[j].response, j>> \in f.async_index
    BY <1>0, <1>3, <1>11, <2>1, <2>3, <2>4 DEF AsyncOK
  <2>6. \A p \in f.async_index : p[2] \in K /\ f.requests[p[2]].response = p[1]
    <3> SUFFICES ASSUME NEW p \in f.async_index
                 PROVE  p[2] \in K /\ f.requests[p[2]].response = p[1]
      BY ZenonT(40)
    <3>1. CASE p = <<id, k>>
      BY ZenonT(40), <1>3, <1>11, <3>1
    <3>2. CASE p \in s.async_index /\ p[1] # id
      <4>1. p[2] \in K /\ s.requests[p[2]].response = p[1] /\ p[1] \in AsyncIds
        BY ZenonT(40), <1>0, <3>2 DEF AsyncOK
      <4>2. p[2] # k
        BY ZenonT(40), <2>2, <3>2, <4>1
      <4> QED BY ZenonT(40), <2>1, <4>1, <4>2
    <3> QED BY ZenonT(40), <2>3, <3>1, <3>2
  <2>7. \A i, j \in K : /\ f.requests[i].response = f.requests[j].response
                        /\ f.requests[i].response \in AsyncIds
                        => i = j
    BY <1>0, <1>3, <1>11, <2>1, <2>4 DEF AsyncOK
  <2> QED BY ZenonT(40), <2>5, <2>6, <2>7 DEF AsyncOK
<1>15. b.tombstone => r.tombstone /\ b.deadline_version = r.deadline_version
  BY ZenonT(40), <1>2, <1>3
<1>16. Sound(f, K, w2) /\ AllStand(s, f, K)
  BY ZenonT(60), <1>1, <1>10, <1>11, <1>12, <1>13, <1>14, <1>15, AnsweredSound
<1>17. f.unhealthy = s.unhealthy
  BY ZenonT(40), <1>1, <1>5, <1>9 DEF OneRequest
<1> QED BY ZenonT(40), <1>7, <1>16, <1>17

\* A final answer publishes the outcome, clears the index entry of the async
\* id and gives back all the request owns.
LEMMA FinishFinalSound ==
  ASSUME NEW K, NEW s, NEW w, Sound(s, K, w), NEW k \in K, NEW u, NEW w2,
         HalfAnswered(s, u, K, k, w2)
  PROVE  /\ Sound(FinishFinal(u, k), K, w2) /\ AllStand(s, FinishFinal(u, k), K)
         /\ FinishFinal(u, k).unhealthy = s.unhealthy
<1> DEFINE r == s.requests[k]
           a == u.requests[k]
           v == a.deadline_version + 1
           b == [OnFinalResponse(a) EXCEPT !.credit_obligation = FALSE,
                                           !.deadline_version = v]
           c == Disowned(b)
           I == {p \in u.async_index : p[1] # a.response}
           x == Replace(u, k, b)
           y == [x EXCEPT !.async_index = I]
           f == Replace(y, k, c)
<1>0. /\ s.requests \in [K -> Request] /\ r \in Request /\ RecordOK(r) /\ AsyncOK(s, K)
      /\ s.async_index \subseteq AsyncIds \X Nat
  BY SoundRecord DEF Sound, Core, Ledger
<1>1. /\ Core(u, K) /\ u.requests = [s.requests EXCEPT ![k] = a]
      /\ u.async_index = s.async_index /\ u.unhealthy = s.unhealthy
      /\ u.deadlines = s.deadlines
      /\ r.response # "Final" /\ w2 \in Nat
      /\ u.unhealthy \/ u.available_credits + Reserved(u) = w2
  BY ZenonT(40) DEF HalfAnswered, OneRequest
<1>2. /\ a \in Request /\ RecordOK(a) /\ Committed(a.send) /\ a.credit_response_seen
      /\ a.caller = r.caller /\ a.response = r.response /\ ~a.payload_held
      /\ a.tombstone = r.tombstone /\ a.deadline_version = r.deadline_version
  BY ZenonT(40) DEF HalfAnswered, AnsweredFrom
<1>3. v \in 0..3
  BY <1>1, <1>2 DEF RecordOK, Request
<1>4. /\ b \in Request /\ b.response = "Final" /\ ~b.tombstone /\ ~b.credit_obligation
      /\ b.caller = (IF a.caller = "Open" THEN "Response" ELSE a.caller)
      /\ b.payload_bytes = a.payload_bytes /\ b.credit_charge = a.credit_charge
      /\ b.credit_response_seen /\ Committed(b.send)
      /\ b.admission_held = a.admission_held /\ b.payload_held = a.payload_held
  <2> HIDE DEF v
  <2> QED BY ZenonT(60), <1>2, <1>3 DEF OnFinalResponse, PublishOnce, Request, ResponseProgress,
                            CallerOutcome, TerminalOutcome
<1>5. FinishFinal(u, k) =
        ReleaseRequestOwnership([u EXCEPT !.requests[k] = b, !.async_index = I], k)
  BY DEF FinishFinal
<1> HIDE DEF b
<1>6. /\ c \in Request /\ c.response = "Final" /\ ~c.tombstone /\ ~c.credit_obligation
      /\ c.caller = b.caller /\ ~c.admission_held /\ ~c.payload_held
      /\ c.payload_bytes = a.payload_bytes /\ c.credit_charge = a.credit_charge
      /\ Committed(c.send)
  BY ZenonT(60), <1>4 DEF Disowned, Unloaded, Request
<1>7. ~Unsettled(a) /\ ~Unsettled(b) /\ ~Unsettled(c)
  BY <1>2, <1>4, <1>6 DEF Unsettled
<1>8. GivesBack(u, K, k, b)
  BY ZenonT(40), <1>4, <1>7 DEF GivesBack
<1>9. /\ OneRequest(u, x, K, k) /\ x.requests[k] = b
      /\ x.deadlines = u.deadlines /\ CreditsMoved(u, x)
  BY <1>1, <1>7, <1>8, ReplaceOne
<1>10. u \in Ledger(K) /\ Core(x, K) /\ x \in Ledger(K)
  <2>1. Core(x, K)
    BY ZenonT(40), <1>9 DEF OneRequest
  <2> HIDE DEF x
  <2> QED BY ZenonT(40), <1>1, <2>1 DEF Core
<1>11. x = [u EXCEPT !.requests[k] = b]
  BY <1>4, <1>10, ReplaceKeep
<1>12. [u EXCEPT !.requests[k] = b, !.async_index = I] = y
  <2> HIDE DEF I, x
  <2> QED BY ZenonT(40), <1>10, <1>11 DEF Ledger
<1>13. I \subseteq AsyncIds \X Nat
  BY ZenonT(40), <1>0, <1>1
<1>14. /\ y \in Ledger(K) /\ y.requests = x.requests /\ y.async_index = I
       /\ y.next_message_id = x.next_message_id
       /\ y.admitted_operations = x.admitted_operations
       /\ y.retained_payload_bytes = x.retained_payload_bytes
       /\ y.unhealthy = x.unhealthy /\ y.deadlines = x.deadlines
       /\ y.available_credits = x.available_credits
  <2> HIDE DEF I, x
  <2> QED BY ZenonT(40), <1>10, <1>13 DEF Ledger
<1> HIDE DEF c, x, y
<1>15. Core(y, K) /\ Reserved(y) = Reserved(x)
  BY ZenonT(40), <1>10, <1>14, CoreSame
<1>16. FinishFinal(u, k) = f
  <2>1. ReleaseRequestOwnership(y, k) = Replace(y, k, Disowned(y.requests[k]))
    BY ZenonT(40), <1>15, ReleaseOwnershipReplaces
  <2>2. Disowned(y.requests[k]) = c
    BY ZenonT(40), <1>9, <1>14 DEF c
  <2> QED BY ZenonT(40), <1>5, <1>12, <2>1, <2>2
<1>17. y.requests[k] = b
  BY ZenonT(40), <1>9, <1>14
<1>18. GivesBack(y, K, k, c)
  BY ZenonT(40), <1>4, <1>6, <1>7, <1>17 DEF GivesBack
<1>19. /\ OneRequest(y, f, K, k) /\ f.requests[k] = c
       /\ f.deadlines = y.deadlines /\ CreditsMoved(y, f)
  BY <1>7, <1>15, <1>17, <1>18, ReplaceOne
<1> HIDE DEF f
<1>20. Core(f, K)
  BY ZenonT(40), <1>19 DEF OneRequest
<1>21. /\ f.requests = [s.requests EXCEPT ![k] = f.requests[k]]
       /\ f.deadlines = s.deadlines /\ (s.unhealthy => f.unhealthy)
       /\ f.async_index = I
  BY <1>0, <1>1, <1>9, <1>14, <1>19 DEF OneRequest
<1>22. f.unhealthy \/ f.available_credits + Reserved(f) = w2
  BY ZenonT(40), <1>1, <1>9, <1>14, <1>15, <1>19 DEF OneRequest, CreditsMoved
<1>23. RecordOK(c) /\ Stands(r, c)
  BY <1>1, <1>2, <1>4, <1>6 DEF RecordOK, Stands
<1>24. AsyncOK(f, K)
  <2>1. \A j \in K : j # k => f.requests[j] = s.requests[j]
    BY ZenonT(40), <1>0, <1>21
  <2>2. f.requests[k].response \notin AsyncIds
    BY ZenonT(40), <1>6, <1>19, AsyncIdsAssumption
  <2>3. f.async_index = {p \in s.async_index : p[1] # r.response}
    BY ZenonT(40), <1>1, <1>2, <1>21
  <2>4. \A j \in K : /\ j # k /\ s.requests[j].response \in AsyncIds
                     => s.requests[j].response # r.response
    BY ZenonT(40), <1>0 DEF AsyncOK
  <2>5. \A j \in K : f.requests[j].response \in AsyncIds =>
                       <<f.requests[j].response, j>> \in f.async_index
    BY ZenonT(40), <1>0, <2>1, <2>2, <2>3, <2>4 DEF AsyncOK
  <2>6. \A p \in f.async_index : p[2] \in K /\ f.requests[p[2]].response = p[1]
    BY ZenonT(40), <1>0, <2>1, <2>3 DEF AsyncOK
  <2>7. \A i, j \in K : /\ f.requests[i].response = f.requests[j].response
                        /\ f.requests[i].response \in AsyncIds
                        => i = j
    BY ZenonT(40), <1>0, <2>1, <2>2 DEF AsyncOK
  <2> QED BY ZenonT(40), <2>5, <2>6, <2>7 DEF AsyncOK
<1>25. Sound(f, K, w2) /\ AllStand(s, f, K)
  <2>1. ~f.requests[k].tombstone
    BY ZenonT(40), <1>6, <1>19
  <2> QED BY ZenonT(40), <1>1, <1>19, <1>20, <1>21, <1>22, <1>23, <1>24, <2>1, AnsweredSound
<1>26. f.unhealthy = s.unhealthy
  BY ZenonT(40), <1>1, <1>9, <1>14, <1>19 DEF OneRequest
<1> QED BY ZenonT(40), <1>16, <1>25, <1>26

\* What the server's count and the overdraft come to when request k is answered.
Counted(s, k, w, event, grant) ==
  IF Response(s, k, event, grant).unhealthy \/ DuplicateResponse(s, k) THEN w
  ELSE w + grant - Owed(s.requests[k])

\* response keeps the ledger sound: a clash or an overflow condemns the
\* generation, a duplicate changes nothing, an answer settles its charge once.
LEMMA ResponseSound ==
  ASSUME NEW K, NEW s, NEW w, Sound(s, K, w), NEW k \in K,
         NEW event \in AsyncIds \cup {"Final"}, NEW grant \in 0..GrantMax
  PROVE  /\ Sound(Response(s, k, event, grant), K, Counted(s, k, w, event, grant))
         /\ AllStand(s, Response(s, k, event, grant), K)
<1> DEFINE f == Response(s, k, event, grant)
           r == s.requests[k]
           t == AccountResponse(s, k, grant)
           av == t.available_credits + grant
           u == [t EXCEPT !.available_credits = av]
           w2 == w + grant - Owed(r)
<1>0. /\ s \in Ledger(K) /\ s.requests \in [K -> Request] /\ Core(s, K)
      /\ s.unhealthy \in BOOLEAN /\ w \in Nat /\ r \in Request /\ GrantMax \in Nat
      /\ s.available_credits \in 0..CreditMax /\ CreditMax \in Nat
  BY SoundRecord, LedgerAssumption DEF Ledger, Sound
<1>1. CASE AsyncIdClash(s, k, event)
  <2>1. f = [s EXCEPT !.unhealthy = TRUE]
    BY <1>1, ZenonT(40) DEF Response
  <2>2. f = WithDeadlines(s, s.deadlines, TRUE) /\ f.unhealthy
    BY ZenonT(60), <1>0, <2>1 DEF WithDeadlines, Ledger
  <2>3. Sound(WithDeadlines(s, s.deadlines, TRUE), K, w)
        /\ AllStand(s, WithDeadlines(s, s.deadlines, TRUE), K)
    BY ZenonT(60), DeadlinesSound
  <2>4. Counted(s, k, w, event, grant) = w
    BY <2>2, ZenonT(40) DEF Counted
  <2> HIDE DEF f
  <2> QED BY ZenonT(60), <2>2, <2>3, <2>4 DEF f
<1>2. CASE ~AsyncIdClash(s, k, event) /\ DuplicateResponse(s, k)
  <2>1. f = s /\ Counted(s, k, w, event, grant) = w
    BY <1>2, ZenonT(40) DEF Response, Counted
  <2>2. AllStand(s, s, K)
    BY ZenonT(40) DEF AllStand, Stands
  <2> QED BY <2>1, <2>2, ZenonT(40)
<1>3. CASE ~AsyncIdClash(s, k, event) /\ ~DuplicateResponse(s, k)
  <2>0. r.response # "Final"
    BY ZenonT(40), <1>3 DEF DuplicateResponse
  <2>1. /\ OneRequest(s, t, K, k) /\ t.requests[k] = Answered(r)
        /\ t.deadlines = s.deadlines /\ t.available_credits = s.available_credits
        /\ Reserved(s) = Reserved(t) + Owed(r) /\ Reserved(t) \in Nat
    BY <1>0, AccountEffect
  <2>2. AnsweredFrom(r, t.requests[k])
    BY ZenonT(40), <2>0, <2>1, AnsweredRecord
  <2>3. Owed(r) \in Nat
    BY <1>0 DEF Owed, Request
  <2>4. f = IF av > CreditMax THEN [t EXCEPT !.unhealthy = TRUE]
            ELSE IF event = "Final" THEN FinishFinal(u, k)
                 ELSE FinishPending(u, k, event)
    BY ZenonT(40), <1>3 DEF Response
  <2>5. Core(t, K) /\ t \in Ledger(K)
    <3>1. Core(t, K)
      BY ZenonT(40), <2>1 DEF OneRequest
    <3> HIDE DEF t
    <3> QED BY ZenonT(40), <3>1 DEF Core
  <2> HIDE DEF t
  <2>6. CASE av > CreditMax
    <3> DEFINE z == [t EXCEPT !.unhealthy = TRUE]
    <3>1. f = z
      BY ZenonT(40), <2>4, <2>6
    <3>2. /\ z \in Ledger(K) /\ z.requests = t.requests /\ z.unhealthy
          /\ z.next_message_id = t.next_message_id
          /\ z.admitted_operations = t.admitted_operations
          /\ z.retained_payload_bytes = t.retained_payload_bytes
          /\ z.async_index = t.async_index /\ z.deadlines = t.deadlines
      BY ZenonT(60), <2>5 DEF Ledger
    <3> HIDE DEF z
    <3>3. Core(z, K)
      BY ZenonT(40), <2>5, <3>2, CoreSame
    <3>4. AsyncOK(z, K)
      <4>1. AsyncOK(s, K) /\ z.async_index = s.async_index
        BY ZenonT(40), <2>1, <3>2 DEF Sound, OneRequest
      <4>2. \A j \in K : z.requests[j].response = s.requests[j].response
        BY ZenonT(40), <1>0, <2>1, <2>2, <3>2 DEF OneRequest, AnsweredFrom
      <4> QED BY ZenonT(40), <4>1, <4>2 DEF AsyncOK
    <3>5. /\ z.requests = [s.requests EXCEPT ![k] = z.requests[k]]
          /\ RecordOK(z.requests[k]) /\ Stands(r, z.requests[k])
          /\ z.requests[k].tombstone =>
               r.tombstone /\ z.requests[k].deadline_version = r.deadline_version
          /\ z.deadlines = s.deadlines
      BY <2>1, <2>2, <3>2 DEF OneRequest, AnsweredFrom, Stands
    <3>6. Sound(z, K, w) /\ AllStand(s, z, K)
      BY ZenonT(60), <1>0, <3>2, <3>3, <3>4, <3>5, AnsweredSound
    <3>7. Counted(s, k, w, event, grant) = w
      BY <3>1, <3>2, ZenonT(40) DEF Counted
    <3> QED BY ZenonT(40), <3>1, <3>6, <3>7
  <2>7. CASE ~(av > CreditMax)
    <3>1. av \in 0..CreditMax
      BY <1>0, <2>1, <2>7
    <3>2. /\ u \in Ledger(K) /\ u.requests = t.requests
          /\ u.next_message_id = t.next_message_id
          /\ u.admitted_operations = t.admitted_operations
          /\ u.retained_payload_bytes = t.retained_payload_bytes
          /\ u.async_index = t.async_index /\ u.deadlines = t.deadlines
          /\ u.unhealthy = t.unhealthy /\ u.available_credits = av
      <4> HIDE DEF av
      <4> QED BY ZenonT(40), <2>5, <3>1 DEF Ledger
    <3> HIDE DEF u
    <3>3. Core(u, K) /\ Reserved(u) = Reserved(t)
      BY ZenonT(40), <2>5, <3>2, CoreSame
    <3> DEFINE w3 == IF s.unhealthy THEN w ELSE w2
    <3>4. /\ w3 \in Nat
          /\ u.unhealthy \/ u.available_credits + Reserved(u) = w3
      <4>1. s.unhealthy \/ s.available_credits + Reserved(s) = w
        BY ZenonT(40) DEF Sound
      <4>2. u.unhealthy = s.unhealthy
        BY ZenonT(40), <2>1, <3>2 DEF OneRequest
      <4> QED BY <1>0, <2>1, <2>3, <3>2, <3>3, <4>1, <4>2
    <3>5. HalfAnswered(s, u, K, k, w3)
      BY <2>0, <2>1, <2>2, <3>2, <3>3, <3>4 DEF HalfAnswered, OneRequest
    <3>6. Sound(f, K, w3) /\ AllStand(s, f, K) /\ f.unhealthy = s.unhealthy
      <4>1. CASE event = "Final"
        <5>1. f = FinishFinal(u, k)
          BY ZenonT(40), <2>4, <2>7, <4>1
        <5> HIDE DEF f
        <5> QED BY <3>5, <5>1, FinishFinalSound
      <4>2. CASE event \in AsyncIds
        <5>1. f = FinishPending(u, k, event)
          BY ZenonT(40), <2>4, <2>7, <4>2, AsyncIdsAssumption
        <5> HIDE DEF f
        <5> QED BY <1>3, <3>5, <4>2, <5>1, FinishPendingSound
      <4> QED BY ZenonT(40), <4>1, <4>2
    <3>7. Counted(s, k, w, event, grant) = w3
      BY ZenonT(40), <1>3, <3>6 DEF Counted
    <3> QED BY ZenonT(40), <3>6, <3>7
  <2> QED BY <2>6, <2>7, ZenonT(40)
<1> QED BY ZenonT(40), <1>1, <1>2, <1>3

-----------------------------------------------------------------------------
(* Admission.                                                              *)

\* The requests in K have the same size on both sides.
Agree(K, size1, size2) == \A j \in K : size1[j] = size2[j]

\* A request that joins the set adds exactly its own size to the sum.
LEMMA TotalAdd ==
  ASSUME NEW K, IsFiniteSet(K), NEW size1, NEW size2, NEW k, k \notin K,
         NEW L, L = K \cup {k}, Agree(K, size1, size2), Bounded(L, size2)
  PROVE  Total(L, size2) = Total(K, size1) + size2[k]
<1>1. IsFiniteSet(L)
  BY ZenonT(40), FS_AddElement
<1>2. Total(L, size2) = Total(L \ {k}, size2) + size2[k]
  BY <1>1, TotalRemove
<1>3. L \ {k} = K
  OBVIOUS
<1>4. Total(K, size2) = Total(K, size1)
  BY ZenonT(40), TotalSame DEF Agree
<1> QED BY ZenonT(40), <1>2, <1>3, <1>4

\* The record of a request that has just been admitted.
Fresh(r, bytes, charge) ==
  /\ r \in Request /\ r.caller = "Open" /\ r.response = "None"
  /\ ~r.tombstone /\ r.payload_bytes = bytes /\ r.credit_charge = charge
  /\ ~r.credit_response_seen /\ r.admission_held /\ r.payload_held
  /\ r.credit_obligation /\ r.deadline_version <= 1

\* t is s with request `key` admitted.
Admitted(s, t, K, key, bytes, charge) ==
  /\ t.requests = [k \in K \cup {key} |-> IF k = key THEN t.requests[key]
                                          ELSE s.requests[k]]
  /\ Fresh(t.requests[key], bytes, charge)
  /\ t.available_credits = s.available_credits - charge
  /\ t.admitted_operations = s.admitted_operations + 1
  /\ t.retained_payload_bytes = s.retained_payload_bytes + bytes
  /\ t.next_message_id = key + charge /\ key = s.next_message_id
  /\ t.async_index = s.async_index /\ t.unhealthy = s.unhealthy
  /\ s.deadlines \subseteq t.deadlines
  /\ \A d \in t.deadlines : d \in s.deadlines \/ d.key = key

\* The permits, bytes and credits on the books grow by the new request's own.
LEMMA AdmittedSums ==
  ASSUME NEW K, NEW s, Core(s, K), NEW t, NEW key, NEW bytes \in Nat,
         NEW charge \in 1..GrantMax, Admitted(s, t, K, key, bytes, charge)
  PROVE  /\ Cardinality(AdmissionHeld(t)) = Cardinality(AdmissionHeld(s)) + 1
         /\ Total(PayloadHeld(t), Payload(t)) = Total(PayloadHeld(s), Payload(s)) + bytes
         /\ Reserved(t) = Reserved(s) + charge /\ Reserved(s) \in Nat
<1> DEFINE L == K \cup {key}
<1>1. /\ K \subseteq Nat /\ IsFiniteSet(K) /\ s.requests \in [K -> Request]
      /\ \A k \in K : k < s.next_message_id /\ s.requests[k].payload_bytes <= MaxPayloadBytes
      /\ s.next_message_id \in Nat
  BY ZenonT(40) DEF Core, Ledger
<1>2. /\ key \notin K /\ key \in Nat
  BY <1>1 DEF Admitted
<1>3. /\ Fresh(t.requests[key], bytes, charge) /\ DOMAIN t.requests = L
      /\ \A k \in K : t.requests[k] = s.requests[k]
  BY ZenonT(40), <1>2 DEF Admitted
<1>4. DOMAIN s.requests = K
  BY ZenonT(40), <1>1
<1>5. /\ AdmissionHeld(t) = AdmissionHeld(s) \cup {key}
      /\ PayloadHeld(t) = PayloadHeld(s) \cup {key}
      /\ Outstanding(t) = Outstanding(s) \cup {key}
  BY ZenonT(40), <1>2, <1>3, <1>4 DEF AdmissionHeld, PayloadHeld, Outstanding, Keys, Fresh
<1>6. /\ AdmissionHeld(s) \subseteq K /\ PayloadHeld(s) \subseteq K
      /\ Outstanding(s) \subseteq K
  BY ZenonT(40), <1>4 DEF AdmissionHeld, PayloadHeld, Outstanding, Keys
<1>7. /\ IsFiniteSet(AdmissionHeld(s)) /\ IsFiniteSet(PayloadHeld(s))
      /\ IsFiniteSet(Outstanding(s))
  BY ZenonT(40), <1>1, <1>6, FS_Subset
<1>8. Cardinality(AdmissionHeld(t)) = Cardinality(AdmissionHeld(s)) + 1
  BY ZenonT(60), <1>2, <1>5, <1>6, <1>7, FS_AddElement
<1>9. /\ \A j \in K : /\ Payload(t)[j] = Payload(s)[j]
                      /\ Charge(t)[j] = Charge(s)[j]
      /\ Payload(t)[key] = bytes /\ Charge(t)[key] = charge
  BY ZenonT(40), <1>3, <1>4 DEF Payload, Charge, Keys, Fresh
<1>10. /\ \A j \in K : /\ Payload(s)[j] \in 0..MaxPayloadBytes
                       /\ Charge(s)[j] \in 0..GrantMax
       /\ MaxPayloadBytes \in Nat /\ GrantMax \in Nat
  BY <1>1, <1>4, LedgerAssumption DEF Payload, Charge, Keys, Request
<1>11. Bounded(Outstanding(t), Charge(t)) /\ Bounded(Outstanding(s), Charge(s))
  BY <1>5, <1>6, <1>9, <1>10 DEF Bounded
<1>12. Bounded(PayloadHeld(t), Payload(t))
  <2>1. MaxPayloadBytes + bytes \in Nat
    BY <1>10
  <2>2. \A j \in PayloadHeld(s) \cup {key} : Payload(t)[j] \in 0..(MaxPayloadBytes + bytes)
    BY <1>6, <1>9, <1>10
  <2> QED BY ZenonT(40), <1>5, <2>1, <2>2 DEF Bounded
<1>13. Total(PayloadHeld(t), Payload(t)) = Total(PayloadHeld(s), Payload(s)) + bytes
  <2>1. key \notin PayloadHeld(s) /\ \A j \in PayloadHeld(s) : Payload(t)[j] = Payload(s)[j]
    BY ZenonT(40), <1>2, <1>6, <1>9
  <2>2. Agree(PayloadHeld(s), Payload(s), Payload(t))
    BY ZenonT(40), <2>1 DEF Agree
  <2>3. Total(PayloadHeld(t), Payload(t))
          = Total(PayloadHeld(s), Payload(s)) + Payload(t)[key]
    BY <1>5, <1>7, <1>12, <2>1, <2>2, TotalAdd
  <2> QED BY ZenonT(40), <1>9, <2>3
<1>14. Reserved(t) = Reserved(s) + charge
  <2>1. key \notin Outstanding(s) /\ \A j \in Outstanding(s) : Charge(t)[j] = Charge(s)[j]
    BY ZenonT(40), <1>2, <1>6, <1>9
  <2>2. Agree(Outstanding(s), Charge(s), Charge(t))
    BY <2>1 DEF Agree
  <2>3. Total(Outstanding(t), Charge(t))
          = Total(Outstanding(s), Charge(s)) + Charge(t)[key]
    BY <1>5, <1>7, <1>11, <2>1, <2>2, TotalAdd
  <2> QED BY ZenonT(40), <1>9, <2>3 DEF Reserved
<1>15. Reserved(s) \in Nat
  BY ZenonT(40), <1>7, <1>11, TotalFinite DEF Reserved
<1> QED BY ZenonT(40), <1>8, <1>13, <1>14, <1>15

\* A ledger that has admitted a request within its limits is sound.
LEMMA AdmittedSound ==
  ASSUME NEW K, NEW s, NEW w, Sound(s, K, w), NEW t, NEW key, NEW bytes \in Nat,
         NEW charge \in 1..GrantMax, Admitted(s, t, K, key, bytes, charge),
         t \in Ledger(K \cup {key}), Admissible(s, bytes, charge)
  PROVE  Sound(t, K \cup {key}, w) /\ AllStand(s, t, K)
<1> DEFINE L == K \cup {key}
<1>1. /\ Core(s, K) /\ s \in Ledger(K) /\ K \subseteq Nat /\ IsFiniteSet(K)
      /\ w \in Nat /\ AsyncOK(s, K)
      /\ s.unhealthy \/ s.available_credits + Reserved(s) = w
      /\ \A k \in K : RecordOK(s.requests[k]) /\ Armed(s, k)
      /\ \A d \in s.deadlines : d.key \in K
  BY ZenonT(40) DEF Sound, Core
<1>2. /\ key \in Nat /\ s.available_credits \in Nat /\ s.next_message_id \in Nat
      /\ s.admitted_operations \in Nat /\ s.retained_payload_bytes \in Nat
      /\ \A k \in K : k < s.next_message_id /\ s.requests[k].payload_bytes <= MaxPayloadBytes
      /\ MaxPayloadBytes \in Nat /\ MaxOperations \in Nat
      /\ s.admitted_operations = Cardinality(AdmissionHeld(s))
      /\ s.retained_payload_bytes = Total(PayloadHeld(s), Payload(s))
  BY <1>1, LedgerAssumption DEF Core, Ledger, Admitted
<1>3. key \notin K /\ key = s.next_message_id
  BY <1>2 DEF Admitted
<1>4. Fresh(t.requests[key], bytes, charge) /\ \A k \in K : t.requests[k] = s.requests[k]
  BY ZenonT(40), <1>3 DEF Admitted
<1>5. /\ Cardinality(AdmissionHeld(t)) = Cardinality(AdmissionHeld(s)) + 1
      /\ Total(PayloadHeld(t), Payload(t)) = Total(PayloadHeld(s), Payload(s)) + bytes
      /\ Reserved(t) = Reserved(s) + charge /\ Reserved(s) \in Nat
  BY ZenonT(40), <1>1, AdmittedSums
<1>6. /\ t.available_credits = s.available_credits - charge
      /\ t.admitted_operations = s.admitted_operations + 1
      /\ t.retained_payload_bytes = s.retained_payload_bytes + bytes
      /\ t.next_message_id = key + charge
      /\ t.async_index = s.async_index /\ t.unhealthy = s.unhealthy
      /\ s.deadlines \subseteq t.deadlines
      /\ \A d \in t.deadlines : d \in s.deadlines \/ d.key = key
  BY ZenonT(40) DEF Admitted
<1>7. /\ s.admitted_operations < MaxOperations
      /\ s.retained_payload_bytes + bytes <= MaxPayloadBytes
  BY ZenonT(40) DEF Admissible
<1>8. Core(t, L)
  <2>1. IsFiniteSet(L) /\ L \subseteq Nat
    BY ZenonT(40), <1>1, <1>2, FS_AddElement
  <2>2. \A k \in L : k < t.next_message_id /\ t.requests[k].payload_bytes <= MaxPayloadBytes
    <3>1. key < t.next_message_id /\ t.requests[key].payload_bytes <= MaxPayloadBytes
      <4>1. t.requests[key].payload_bytes = bytes
        BY ZenonT(40), <1>4 DEF Fresh
      <4> QED BY <1>2, <1>6, <1>7, <4>1
    <3>2. \A n \in Nat : n < s.next_message_id => n < t.next_message_id
      BY <1>2, <1>3, <1>6
    <3>3. \A k \in K : k < t.next_message_id /\ t.requests[k].payload_bytes <= MaxPayloadBytes
      BY ZenonT(40), <1>1, <1>2, <1>4, <3>2
    <3> QED BY ZenonT(40), <3>1, <3>3
  <2>3. /\ t.admitted_operations = Cardinality(AdmissionHeld(t))
        /\ t.retained_payload_bytes = Total(PayloadHeld(t), Payload(t))
        /\ t.admitted_operations <= MaxOperations
        /\ t.retained_payload_bytes <= MaxPayloadBytes
    BY <1>2, <1>5, <1>6, <1>7
  <2> QED BY ZenonT(40), <2>1, <2>2, <2>3 DEF Core
<1>9. \A k \in L : RecordOK(t.requests[k])
  <2>1. RecordOK(t.requests[key])
    <3>1. t.requests[key].deadline_version \in 0..3
      BY ZenonT(40), <1>4 DEF Fresh, Request
    <3> QED BY <1>4, <3>1 DEF RecordOK, Fresh
  <2> QED BY ZenonT(40), <1>1, <1>4, <2>1
<1>10. \A k \in L : Armed(t, k)
  BY ZenonT(40), <1>1, <1>4, <1>6 DEF Armed, Fresh
<1>11. \A d \in t.deadlines : d.key \in L
  BY ZenonT(40), <1>1, <1>6
<1>12. AsyncOK(t, L)
  <2>1. t.requests[key].response \notin AsyncIds
    BY ZenonT(40), <1>4, AsyncIdsAssumption DEF Fresh
  <2>2. \A j \in L : t.requests[j].response \in AsyncIds =>
                       j \in K /\ t.requests[j].response = s.requests[j].response
    BY ZenonT(40), <1>4, <2>1
  <2>3. \A j \in L : t.requests[j].response \in AsyncIds =>
                       <<t.requests[j].response, j>> \in t.async_index
    BY ZenonT(40), <1>1, <1>6, <2>2 DEF AsyncOK
  <2>4. \A p \in t.async_index : p[2] \in L /\ t.requests[p[2]].response = p[1]
    BY ZenonT(60), <1>1, <1>4, <1>6 DEF AsyncOK
  <2>5. \A i, j \in L : /\ t.requests[i].response = t.requests[j].response
                        /\ t.requests[i].response \in AsyncIds
                        => i = j
    BY ZenonT(60), <1>1, <2>2 DEF AsyncOK
  <2> QED BY ZenonT(40), <2>3, <2>4, <2>5 DEF AsyncOK
<1>13. t.unhealthy \/ t.available_credits + Reserved(t) = w
  BY <1>1, <1>2, <1>5, <1>6
<1>14. AllStand(s, t, K)
  BY ZenonT(40), <1>4 DEF AllStand, Stands
<1> QED BY ZenonT(40), <1>1, <1>8, <1>9, <1>10, <1>11, <1>12, <1>13, <1>14 DEF Sound

\* admit keeps the ledger sound: it takes one permit, the payload's bytes and
\* the charge, under an id no request has had.
LEMMA AdmitSound ==
  ASSUME NEW K, NEW s, NEW w, Sound(s, K, w), NEW bytes \in Nat,
         NEW charge \in 0..GrantMax, NEW deadline \in BOOLEAN,
         Admissible(s, bytes, charge)
  PROVE  /\ Sound(Admit(s, bytes, charge, deadline), K \cup {s.next_message_id}, w)
         /\ AllStand(s, Admit(s, bytes, charge, deadline), K)
<1> DEFINE t == Admit(s, bytes, charge, deadline)
           key == s.next_message_id
           extra == RequestedExtra(s, charge)
           n == NewRequest(bytes, charge, extra, deadline)
           R == [k \in K \cup {key} |-> IF k = key THEN n ELSE s.requests[k]]
           D == IF deadline
                THEN s.deadlines \cup {[key |-> key, kind |-> "Caller", version |-> 1]}
                ELSE s.deadlines
           e == SatAdd(s.pending_extra_credits, extra)
<1>1. /\ Core(s, K) /\ s \in Ledger(K) /\ K \subseteq Nat
      /\ s.requests \in [K -> Request] /\ key \in Nat
      /\ s.available_credits \in 0..CreditMax /\ s.pending_extra_credits \in 0..CreditMax
      /\ s.target_credits \in Nat /\ s.total_credits \in 0..CreditMax
      /\ s.admitted_operations \in Nat /\ s.retained_payload_bytes \in Nat
      /\ s.deadlines \subseteq Deadlines
  BY ZenonT(40) DEF Sound, Core, Ledger
<1>2. charge \in 1..GrantMax /\ charge <= s.available_credits /\ GrantMax \in Nat
      /\ CreditMax \in Nat
  BY LedgerAssumption DEF Admissible
<1>3. extra \in 0..GrantMax
  BY <1>1, <1>2 DEF RequestedExtra, SatSub, SatAdd
<1>4. e \in 0..CreditMax
  <2> HIDE DEF extra
  <2> QED BY <1>1, <1>2, <1>3 DEF SatAdd
<1>5. Fresh(n, bytes, charge)
  <2> HIDE DEF extra
  <2> QED BY <1>2, <1>3 DEF NewRequest, NewRecord, Fresh, Request, CallerOutcome, SendProgress,
                   ResponseProgress
<1>6. n \in Request
  BY ZenonT(40), <1>5 DEF Fresh
<1>7. R \in [K \cup {key} -> Request]
  <2> HIDE DEF n
  <2> QED BY ZenonT(60), <1>1, <1>6
<1>8. D \subseteq Deadlines /\ s.deadlines \subseteq D
      /\ \A d \in D : d \in s.deadlines \/ d.key = key
  BY <1>1 DEF Deadlines
<1>9. Keys(s) = K
  BY <1>1, ZenonT(40) DEF Keys
<1>10. t = [s EXCEPT !.next_message_id = key + charge,
                     !.available_credits = s.available_credits - charge,
                     !.pending_extra_credits = e,
                     !.admitted_operations = s.admitted_operations + 1,
                     !.retained_payload_bytes = s.retained_payload_bytes + bytes,
                     !.requests = R, !.deadlines = D]
  BY <1>9, ZenonT(40) DEF Admit
<1> HIDE DEF t, n, e, D
<1>11. s.available_credits - charge \in 0..CreditMax
  BY <1>1, <1>2
<1>12. t \in Ledger(K \cup {key})
  <2>1. /\ key + charge \in Nat /\ s.admitted_operations + 1 \in Nat
        /\ s.retained_payload_bytes + bytes \in Nat
    BY <1>1, <1>2
  <2> HIDE DEF R, key
  <2> QED BY ZenonT(60), <1>1, <1>4, <1>7, <1>8, <1>10, <1>11, <2>1 DEF Ledger
<1>13. /\ t.requests = R /\ t.deadlines = D
       /\ t.available_credits = s.available_credits - charge
       /\ t.admitted_operations = s.admitted_operations + 1
       /\ t.retained_payload_bytes = s.retained_payload_bytes + bytes
       /\ t.next_message_id = key + charge
       /\ t.async_index = s.async_index /\ t.unhealthy = s.unhealthy
  <2> HIDE DEF R, key
  <2> QED BY <1>1, <1>10, ZenonT(40) DEF Ledger
<1>14. R[key] = n
  BY ZenonT(40)
<1>15. Admitted(s, t, K, key, bytes, charge)
  BY ZenonT(40), <1>5, <1>8, <1>13, <1>14 DEF Admitted
<1> HIDE DEF key
<1>16. Sound(t, K \cup {key}, w) /\ AllStand(s, t, K)
  BY ZenonT(40), <1>2, <1>12, <1>15, AdmittedSound
<1> QED BY ZenonT(40), <1>16 DEF t, key

-----------------------------------------------------------------------------
(* Negotiation, tear-down and the initial state.                           *)

\* A new credit target touches nothing the invariant is about.
LEMMA SetTargetCreditsSound ==
  ASSUME NEW K, NEW s, NEW w, Sound(s, K, w), NEW target \in Nat
  PROVE  /\ Sound(SetTargetCredits(s, target), K, w)
         /\ AllStand(s, SetTargetCredits(s, target), K)
<1> DEFINE t == SetTargetCredits(s, target)
           g == IF target > 1 THEN target ELSE 1
<1>1. Core(s, K) /\ s \in Ledger(K)
  BY DEF Sound, Core
<1>2. g \in Nat
  OBVIOUS
<1>3. t = [s EXCEPT !.target_credits = g]
  BY DEF SetTargetCredits
<1> HIDE DEF t, g
<1>4. /\ t \in Ledger(K) /\ t.requests = s.requests
      /\ t.next_message_id = s.next_message_id
      /\ t.admitted_operations = s.admitted_operations
      /\ t.retained_payload_bytes = s.retained_payload_bytes
      /\ t.deadlines = s.deadlines /\ t.async_index = s.async_index
      /\ t.unhealthy = s.unhealthy /\ t.available_credits = s.available_credits
  BY ZenonT(40), <1>1, <1>2, <1>3 DEF Ledger
<1>5. Core(t, K) /\ Reserved(t) = Reserved(s)
  BY ZenonT(40), <1>1, <1>4, CoreSame
<1>6. AllStand(s, t, K)
  BY ZenonT(40), <1>4 DEF AllStand, Stands
<1>7. Sound(t, K, w)
  BY <1>4, <1>5 DEF Sound, Armed, AsyncOK
<1> QED BY ZenonT(40), <1>6, <1>7 DEF t

\* What a torn-down record keeps of the record before.
TornDown(r, d) ==
  /\ d \in Request /\ RecordOK(d) /\ Stands(r, d) /\ d.caller # "Open"
  /\ ~d.tombstone /\ ~d.payload_held /\ ~d.admission_held
  /\ d.response = r.response
  /\ d.payload_bytes = r.payload_bytes /\ d.credit_charge = r.credit_charge
  /\ d.credit_obligation = r.credit_obligation
  /\ d.credit_response_seen = r.credit_response_seen

\* disconnect tells an open caller its outcome and takes everything it owns.
LEMMA DisconnectRecord ==
  ASSUME NEW r \in Request, RecordOK(r), NEW network \in NetworkFailure
  PROVE  TornDown(r, [OnDisconnect(r, network) EXCEPT !.payload_held = FALSE,
                                                      !.admission_held = FALSE])
<1> DEFINE o == DisconnectOutcome(r.send, network)
           d0 == OnDisconnect(r, network)
           d == [d0 EXCEPT !.payload_held = FALSE, !.admission_held = FALSE]
<1>1. o \in TerminalOutcome /\ o # "Open"
  BY ZenonT(40) DEF DisconnectOutcome, NetworkFailure, TerminalOutcome
<1>2. d0 = PublishOnce([r EXCEPT !.tombstone = FALSE], o)
  BY DEF OnDisconnect
<1> HIDE DEF o, d0
<1>3. /\ d0 \in Request /\ d0.caller # "Open" /\ ~d0.tombstone
      /\ r.caller # "Open" => d0.caller = r.caller
      /\ d0.response = r.response /\ d0.send = r.send
      /\ d0.payload_bytes = r.payload_bytes /\ d0.credit_charge = r.credit_charge
      /\ d0.credit_obligation = r.credit_obligation
      /\ d0.credit_response_seen = r.credit_response_seen
      /\ d0.deadline_version = r.deadline_version
  BY ZenonT(60), <1>1, <1>2 DEF PublishOnce, Request, CallerOutcome
<1>4. /\ d \in Request /\ d.caller = d0.caller /\ ~d.tombstone /\ ~d.payload_held
      /\ ~d.admission_held /\ d.response = d0.response /\ d.send = d0.send
      /\ d.payload_bytes = d0.payload_bytes /\ d.credit_charge = d0.credit_charge
      /\ d.credit_obligation = d0.credit_obligation
      /\ d.credit_response_seen = d0.credit_response_seen
      /\ d.deadline_version = d0.deadline_version
  BY ZenonT(60), <1>3 DEF Request
<1> HIDE DEF d
<1>5. RecordOK(d) /\ Stands(r, d)
  BY ZenonT(40), <1>3, <1>4 DEF RecordOK, Stands
<1>6. TornDown(r, d)
  BY ZenonT(40), <1>3, <1>4, <1>5 DEF TornDown
<1> QED BY ZenonT(40), <1>6 DEF d, d0

\* disconnect empties both counters, keeps the credits on the books and
\* leaves no caller waiting.
LEMMA DisconnectSound ==
  ASSUME NEW K, NEW s, NEW w, Sound(s, K, w), NEW network \in NetworkFailure
  PROVE  Sound(Disconnect(s, network), K, w) /\ AllStand(s, Disconnect(s, network), K)
<1> DEFINE t == Disconnect(s, network)
           R == [k \in K |-> [OnDisconnect(s.requests[k], network) EXCEPT
                                !.payload_held = FALSE, !.admission_held = FALSE]]
<1>1. /\ Core(s, K) /\ s \in Ledger(K) /\ s.requests \in [K -> Request]
      /\ AsyncOK(s, K) /\ w \in Nat /\ IsFiniteSet(K) /\ K \subseteq Nat
      /\ s.unhealthy \/ s.available_credits + Reserved(s) = w
      /\ \A k \in K : RecordOK(s.requests[k])
      /\ \A d \in s.deadlines : d.key \in K
  BY ZenonT(40) DEF Sound, Core, Ledger
<1>2. /\ s.admitted_operations \in Nat /\ s.retained_payload_bytes \in Nat
      /\ s.admitted_operations - Cardinality(AdmissionHeld(s)) = 0
      /\ s.retained_payload_bytes - Total(PayloadHeld(s), Payload(s)) = 0
      /\ \A k \in K : /\ k < s.next_message_id
                      /\ s.requests[k].payload_bytes <= MaxPayloadBytes
      /\ MaxOperations \in Nat /\ MaxPayloadBytes \in Nat
  BY <1>1, LedgerAssumption DEF Core, Ledger
<1>3. Keys(s) = K
  BY ZenonT(40), <1>1 DEF Keys
<1>4. t = [s EXCEPT !.retained_payload_bytes = 0, !.admitted_operations = 0,
                    !.requests = R]
  BY ZenonT(60), <1>2, <1>3 DEF Disconnect
<1>5. \A k \in K : TornDown(s.requests[k], R[k])
  BY ZenonT(60), <1>1, DisconnectRecord
<1>6. R \in [K -> Request]
  <2>1. \A k \in K : R[k] \in Request
    <3> HIDE DEF R
    <3> QED BY ZenonT(40), <1>5 DEF TornDown
  <2>2. R = [k \in K |-> R[k]]
    OBVIOUS
  <2> HIDE DEF R
  <2> QED BY ZenonT(40), <2>1, <2>2
<1> HIDE DEF t, R
<1>7. /\ t \in Ledger(K) /\ t.requests = R /\ t.admitted_operations = 0
      /\ t.retained_payload_bytes = 0 /\ t.next_message_id = s.next_message_id
      /\ t.deadlines = s.deadlines /\ t.async_index = s.async_index
      /\ t.unhealthy = s.unhealthy /\ t.available_credits = s.available_credits
  BY ZenonT(60), <1>1, <1>4, <1>6 DEF Ledger
<1>8. Keys(t) = K
  BY ZenonT(40), <1>6, <1>7 DEF Keys
<1>9. AdmissionHeld(t) = {} /\ PayloadHeld(t) = {}
  BY ZenonT(40), <1>5, <1>7, <1>8 DEF AdmissionHeld, PayloadHeld, TornDown
<1>10. Cardinality(AdmissionHeld(t)) = 0 /\ Total(PayloadHeld(t), Payload(t)) = 0
  <2>1. Units({}, Payload(t)) = {}
    BY ZenonT(40) DEF Units
  <2> QED BY ZenonT(40), <1>9, <2>1, FS_EmptySet DEF Total
<1>11. Reserved(t) = Reserved(s)
  <2>1. Outstanding(t) = Outstanding(s)
    BY ZenonT(40), <1>3, <1>5, <1>7, <1>8 DEF Outstanding, TornDown
  <2>2. \A k \in Outstanding(s) : Charge(t)[k] = Charge(s)[k]
    BY ZenonT(40), <1>3, <1>5, <1>7, <1>8 DEF Outstanding, TornDown, Charge
  <2>3. Total(Outstanding(s), Charge(t)) = Total(Outstanding(s), Charge(s))
    BY ZenonT(40), <2>2, TotalSame
  <2> QED BY ZenonT(40), <2>1, <2>3 DEF Reserved
<1>12. Core(t, K)
  <2>1. \A k \in K : k < t.next_message_id /\ t.requests[k].payload_bytes <= MaxPayloadBytes
    BY ZenonT(40), <1>2, <1>5, <1>7 DEF TornDown
  <2> QED BY <1>1, <1>2, <1>7, <1>10, <2>1 DEF Core
<1>13. \A k \in K : RecordOK(t.requests[k]) /\ Armed(t, k)
  BY ZenonT(40), <1>5, <1>7 DEF TornDown, Armed
<1>14. AllStand(s, t, K)
  BY ZenonT(40), <1>5, <1>7 DEF TornDown, AllStand
<1>15. AsyncOK(t, K)
  <2>1. \A k \in K : t.requests[k].response = s.requests[k].response
    BY ZenonT(40), <1>5, <1>7 DEF TornDown
  <2>2. \A j \in K : t.requests[j].response \in AsyncIds =>
                       <<t.requests[j].response, j>> \in t.async_index
    BY ZenonT(40), <1>1, <1>7, <2>1 DEF AsyncOK
  <2>3. \A p \in t.async_index : p[2] \in K /\ t.requests[p[2]].response = p[1]
    BY ZenonT(60), <1>1, <1>7, <2>1 DEF AsyncOK
  <2>4. \A i, j \in K : /\ t.requests[i].response = t.requests[j].response
                        /\ t.requests[i].response \in AsyncIds
                        => i = j
    BY ZenonT(60), <1>1, <2>1 DEF AsyncOK
  <2> QED BY ZenonT(40), <2>2, <2>3, <2>4 DEF AsyncOK
<1>16. Sound(t, K, w)
  BY <1>1, <1>7, <1>11, <1>12, <1>13, <1>15, ZenonT(40) DEF Sound
<1> QED BY ZenonT(40), <1>14, <1>16 DEF t

\* A generation starts with an empty ledger and the server's first credits.
LEMMA NewSound == Sound(New, {}, InitialCredits) /\ Keys(New) = {}
<1>1. New \in Ledger({})
  BY LedgerAssumption DEF New, Ledger
<1>2. Keys(New) = {}
  BY ZenonT(40) DEF New, Keys
<1>3. AdmissionHeld(New) = {} /\ PayloadHeld(New) = {} /\ Outstanding(New) = {}
  BY ZenonT(40), <1>2 DEF AdmissionHeld, PayloadHeld, Outstanding
<1>4. Cardinality({}) = 0 /\ IsFiniteSet({}) /\ \A f : Total({}, f) = 0
  BY ZenonT(40), FS_EmptySet DEF Total, Units
<1>5. /\ New.admitted_operations = 0 /\ New.retained_payload_bytes = 0
      /\ New.available_credits = InitialCredits /\ New.async_index = {}
      /\ New.deadlines = {} /\ InitialCredits \in Nat
      /\ MaxOperations \in Nat /\ MaxPayloadBytes \in Nat
  BY LedgerAssumption DEF New
<1>6. Total(PayloadHeld(New), Payload(New)) = 0 /\ Reserved(New) = 0
  BY ZenonT(40), <1>3, <1>4 DEF Reserved
<1>7. Core(New, {})
  BY <1>1, <1>3, <1>4, <1>5, <1>6 DEF Core
<1>8. New.available_credits + Reserved(New) = InitialCredits
  BY <1>5, <1>6
<1> QED BY ZenonT(40), <1>2, <1>5, <1>7, <1>8 DEF Sound, AsyncOK

-----------------------------------------------------------------------------
(* The theorems.                                                           *)

\* What the client's books come to: the server's count and the overdraft.
Backing == window + overdrawn

GhostTypes == window \in Int /\ overdrawn \in Nat /\ running \in BOOLEAN

\* The inductive invariant: the ledger is sound for the backing.
IInv == Sound(state, Keys(state), Backing) /\ GhostTypes

\* No request disappears, and each keeps its outcome and its final answer.
OutcomesKept ==
  \A k \in Keys(state) : /\ k \in Keys(state')
                         /\ Stands(state.requests[k], state'.requests[k])

\* The keys of a sound ledger are the domain of its request table.
LEMMA SoundKeys ==
  ASSUME NEW K, NEW s, NEW w, Sound(s, K, w)
  PROVE  Keys(s) = K
<1>1. s.requests \in [K -> Request]
  BY ZenonT(40) DEF Sound, Core, Ledger
<1> QED BY ZenonT(40), <1>1 DEF Keys

\* A call that leaves the ledger sound over the same requests is a good step.
LEMMA GoodStep ==
  ASSUME IInv, Sound(state', Keys(state), Backing'),
         AllStand(state, state', Keys(state)), GhostTypes'
  PROVE  IInv' /\ OutcomesKept
<1>1. Keys(state') = Keys(state)
  BY ZenonT(40), SoundKeys
<1> QED BY ZenonT(40), <1>1 DEF IInv, OutcomesKept, AllStand

\* A generation starts sound.
LEMMA InitIInv == Init => IInv
<1> SUFFICES ASSUME Init PROVE IInv
  BY ZenonT(40)
<1>1. state = New /\ window = InitialCredits /\ overdrawn = 0 /\ running = TRUE
  BY ZenonT(40) DEF Init
<1>2. Backing = InitialCredits /\ GhostTypes
  BY <1>1, LedgerAssumption DEF Backing, GhostTypes
<1> QED BY ZenonT(40), <1>1, <1>2, NewSound DEF IInv

\* Every call the owner makes leaves the ledger sound and every published
\* outcome standing.
LEMMA NextIInv == IInv /\ [Next]_vars => IInv' /\ OutcomesKept
<1> DEFINE K == Keys(state)
<1> SUFFICES ASSUME IInv, [Next]_vars PROVE IInv' /\ OutcomesKept
  BY ZenonT(40)
<1>0. Sound(state, K, Backing) /\ GhostTypes
  BY ZenonT(40) DEF IInv
<1> HIDE DEF K
<1>1. ASSUME NEW s, Reduce(s), Sound(s, K, Backing), AllStand(state, s, K)
      PROVE  IInv' /\ OutcomesKept
  <2>1. state' = s /\ Backing' = Backing /\ GhostTypes'
    BY ZenonT(40), <1>0, <1>1 DEF Reduce, Backing, GhostTypes
  <2>2. Sound(state', K, Backing') /\ AllStand(state, state', K)
    BY ZenonT(40), <1>1, <2>1
  <2> QED BY ZenonT(40), <2>1, <2>2, GoodStep DEF K
<1>2. CASE Negotiate
  <2>1. PICK target \in Targets : Reduce(SetTargetCredits(state, target))
    BY ZenonT(40), <1>2 DEF Negotiate
  <2>2. target \in Nat
    BY LedgerAssumption
  <2> QED BY ZenonT(40), <1>0, <1>1, <2>1, <2>2, SetTargetCreditsSound
<1>3. CASE AdmitRequest
  <2>1. PICK bytes \in Payloads, charge \in Charges, deadline \in BOOLEAN :
          /\ Admissible(state, bytes, charge)
          /\ Reduce(Admit(state, bytes, charge, deadline))
    BY ZenonT(40), <1>3 DEF AdmitRequest
  <2>2. bytes \in Nat /\ charge \in 0..GrantMax
    BY ZenonT(40), LedgerAssumption
  <2> DEFINE L == K \cup {state.next_message_id}
  <2>3. /\ state' = Admit(state, bytes, charge, deadline)
        /\ Backing' = Backing /\ GhostTypes'
    BY ZenonT(40), <1>0, <2>1 DEF Reduce, Backing, GhostTypes
  <2>4. Sound(state', L, Backing') /\ AllStand(state, state', K)
    BY ZenonT(40), <1>0, <2>1, <2>2, <2>3, AdmitSound
  <2>5. Keys(state') = L
    BY ZenonT(40), <2>4, SoundKeys
  <2> QED BY ZenonT(40), <1>0, <2>3, <2>4, <2>5 DEF IInv, OutcomesKept, AllStand, K
<1>4. ASSUME NEW k \in K, RequestStep(k)
      PROVE  IInv' /\ OutcomesKept
  <2>1. ASSUME NEW s, Reduce(s), Quiet(state, s, K, k)
        PROVE  IInv' /\ OutcomesKept
    BY ZenonT(60), <1>0, <1>1, <2>1, QuietSound
  <2>2. CASE FrameQueued(k)
    BY ZenonT(40), <1>0, <2>1, <2>2, QueuedQuiet DEF FrameQueued
  <2>3. CASE FrameProgress(k)
    BY ZenonT(40), <1>0, <2>1, <2>3, WriteProgressQuiet DEF FrameProgress
  <2>4. CASE FrameComplete(k)
    BY <1>0, <2>1, <2>4, WriteCompleteQuiet DEF FrameComplete
  <2>5. CASE CancelRequest(k)
    BY <1>0, <2>1, <2>5, CancelQuiet DEF CancelRequest
  <2>6. CASE PreparationFails(k)
    BY <1>0, <2>1, <2>6, PrepareFailedQuiet DEF PreparationFails
  <2>7. CASE SessionLost(k)
    BY <1>0, <2>1, <2>7, RecoveryHintQuiet DEF SessionLost
  <2>8. CASE ServerAnswers(k)
    <3>1. PICK event \in AsyncIds \cup {"Final"}, grant \in Grants :
            /\ state' = Response(state, k, event, grant)
            /\ window' = window + Granted(state, k, event, grant)
                           - Charged(state, k, event, grant)
            /\ overdrawn' = overdrawn
                 + (IF state.requests[k].credit_obligation
                    THEN 0 ELSE Charged(state, k, event, grant))
            /\ running' = running
      BY ZenonT(40), <2>8 DEF ServerAnswers
    <3>2. grant \in 0..GrantMax /\ grant \in Nat
      BY LedgerAssumption
    <3>3. Backing' = Counted(state, k, Backing, event, grant) /\ GhostTypes'
      <4> DEFINE r == state.requests[k]
                 dead == Response(state, k, event, grant).unhealthy \/ DuplicateResponse(state, k)
      <4>1. r \in Request
        BY ZenonT(40), <1>0, SoundRecord
      <4>2. /\ Granted(state, k, event, grant) = (IF dead THEN 0 ELSE grant)
            /\ Charged(state, k, event, grant) = (IF dead THEN 0 ELSE Spent(r))
            /\ Counted(state, k, Backing, event, grant)
                 = (IF dead THEN Backing ELSE Backing + grant - Owed(r))
        BY ZenonT(40) DEF Granted, Charged, Counted, Spent
      <4> HIDE DEF dead
      <4>3. /\ Spent(r) \in Nat
            /\ r.credit_obligation => Owed(r) = Spent(r)
            /\ ~r.credit_obligation => Owed(r) = 0
        BY <4>1 DEF Owed, Spent, Unsettled, Request
      <4> HIDE DEF r
      <4> QED BY <1>0, <3>1, <3>2, <4>2, <4>3 DEF Backing, GhostTypes, r
    <3>4. Sound(state', K, Backing') /\ AllStand(state, state', K)
      BY ZenonT(40), <1>0, <3>1, <3>2, <3>3, ResponseSound
    <3> QED BY ZenonT(40), <3>3, <3>4, GoodStep DEF K
  <2> QED BY ZenonT(40), <1>4, <2>2, <2>3, <2>4, <2>5, <2>6, <2>7, <2>8 DEF RequestStep
<1>5. CASE DeadlineDue
  <2>1. PICK entry \in state.deadlines : Reduce(FireDeadline(state, entry))
    BY ZenonT(40), <1>5 DEF DeadlineDue
  <2> QED BY ZenonT(40), <1>0, <1>1, <2>1, FireDeadlineSound
<1>6. CASE TearDown
  <2>1. PICK network \in NetworkFailure :
          state' = Disconnect(state, network) /\ Backing' = Backing /\ GhostTypes'
    BY <1>0, <1>6, ZenonT(40) DEF TearDown, Backing, GhostTypes
  <2>2. Sound(state', K, Backing') /\ AllStand(state, state', K)
    BY ZenonT(40), <1>0, <2>1, DisconnectSound
  <2> QED BY ZenonT(60), <2>1, <2>2, GoodStep DEF K
<1>7. CASE UNCHANGED vars
  <2>1. state' = state /\ Backing' = Backing /\ GhostTypes'
    BY ZenonT(40), <1>0, <1>7 DEF vars, Backing, GhostTypes
  <2>2. AllStand(state, state', K)
    BY ZenonT(40), <2>1 DEF AllStand, Stands
  <2> QED BY ZenonT(40), <1>0, <2>1, <2>2, GoodStep DEF K
<1> QED BY ZenonT(40), <1>2, <1>3, <1>4, <1>5, <1>6, <1>7 DEF Next, K

\* The inductive invariant holds of every behaviour of the ledger.
THEOREM LedgerSound == Spec => []IInv
<1>1. IInv /\ [Next]_vars => IInv'
  BY ZenonT(40), NextIInv
<1> QED BY <1>1, InitIInv, PTL DEF Spec

\* GenerationState keeps its types whatever order the events come in; in
\* particular no counter underflows, no request has more than three deadline
\* versions, and every deadline and async id belongs to a known request.
THEOREM TypeCorrect == Spec => []TypeOK
<1>1. IInv => TypeOK
  <2> SUFFICES ASSUME IInv PROVE TypeOK
    BY ZenonT(40)
  <2> DEFINE K == Keys(state)
  <2>1. /\ state \in Ledger(K) /\ K \subseteq Nat /\ GhostTypes /\ AsyncOK(state, K)
        /\ \A d \in state.deadlines : d.key \in K
    BY ZenonT(40) DEF IInv, Sound, Core
  <2> HIDE DEF K
  <2>2. /\ state.requests \in [K -> Request] /\ state.async_index \subseteq AsyncIds \X Nat
        /\ state.deadlines \subseteq Deadlines
    BY ZenonT(40), <2>1 DEF Ledger
  <2>3. state.async_index \subseteq AsyncIds \X K
    BY ZenonT(40), <2>1, <2>2 DEF AsyncOK
  <2>4. state.deadlines \subseteq
          [key : K, kind : {"Caller", "Tombstone"}, version : 1..3]
    BY ZenonT(40), <2>1, <2>2 DEF Deadlines
  <2> QED BY ZenonT(40), <2>1, <2>2, <2>3, <2>4 DEF TypeOK, Ledger, K, GhostTypes
<1> QED BY <1>1, LedgerSound, PTL

\* Permits and payload bytes are returned exactly once on every path, and
\* neither limit of the generation is ever passed.
THEOREM OwnershipAlwaysBalanced == Spec => []OwnershipBalanced
<1>1. IInv => OwnershipBalanced
  BY ZenonT(40) DEF IInv, Sound, Core, OwnershipBalanced
<1> QED BY <1>1, LedgerSound, PTL

\* No credit is invented or lost: what is available and what is reserved add up
\* to the server's count and the charges of requests answered after they were
\* rolled back, for every charge, grant, target and limit.
THEOREM CreditsAlwaysBacked == Spec => []CreditsBacked
<1>1. IInv => CreditsBacked
  BY ZenonT(40) DEF IInv, Sound, Reserved, CreditsBacked, Backing
<1> QED BY <1>1, LedgerSound, PTL

\* An open caller owns its permit and an answered request owns nothing.
THEOREM SlotAlwaysFollowsCaller == Spec => []SlotFollowsCaller
<1>1. IInv => SlotFollowsCaller
  BY ZenonT(40) DEF IInv, Sound, RecordOK, SlotFollowsCaller
<1> QED BY <1>1, LedgerSound, PTL

\* Every tombstone has been written, owns its permit and has its drain
\* deadline armed, or has already condemned the generation.
THEOREM TombstoneAlwaysArmed == Spec => []TombstoneArmed
<1>1. IInv => TombstoneArmed
  BY ZenonT(40) DEF IInv, Sound, RecordOK, Armed, TombstoneEntry, TombstoneArmed
<1> QED BY <1>1, LedgerSound, PTL

\* The async index is exactly the set of pending answers.
THEOREM AsyncIndexAlwaysExact == Spec => []AsyncIndexExact
<1>1. IInv => AsyncIndexExact
  <2> SUFFICES ASSUME IInv PROVE AsyncIndexExact
    OBVIOUS
  <2> DEFINE K == Keys(state)
             P == {<<state.requests[k].response, k>> :
                     k \in {q \in K : state.requests[q].response \in AsyncIds}}
  <2>1. AsyncOK(state, K) /\ state.async_index \subseteq AsyncIds \X Nat
    BY ZenonT(40) DEF IInv, Sound, Core, Ledger
  <2>2. P \subseteq state.async_index
    BY ZenonT(40), <2>1 DEF AsyncOK
  <2>3. ASSUME NEW p \in state.async_index PROVE p \in P
    <3>1. p = <<p[1], p[2]>> /\ p[1] \in AsyncIds
      BY <2>1
    <3>2. p[2] \in K /\ state.requests[p[2]].response = p[1]
      BY ZenonT(40), <2>1 DEF AsyncOK
    <3> QED BY ZenonT(40), <3>1, <3>2
  <2> QED BY ZenonT(40), <2>2, <2>3 DEF AsyncIndexExact
<1> QED BY <1>1, LedgerSound, PTL

\* A published outcome is never replaced and a final answer never undone.
THEOREM OutcomeAlwaysStands == Spec => OutcomeStands
<1>1. IInv /\ [Next]_vars =>
        [\A k \in Keys(state) :
           /\ k \in Keys(state')
           /\ state.requests[k].caller # "Open" =>
                 state'.requests[k].caller = state.requests[k].caller
           /\ state.requests[k].response = "Final" =>
                 state'.requests[k].response = "Final"]_vars
  BY NextIInv DEF OutcomesKept, Stands
<1> QED BY <1>1, LedgerSound, PTL DEF Spec, OutcomeStands
=============================================================================
