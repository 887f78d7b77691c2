---------------------------- MODULE LedgerBooks -----------------------------
(***************************************************************************)
(* The bookkeeping under the ledger's proof: sums of payload bytes and     *)
(* credit charges over finite sets of requests, and what replacing one     *)
(* request record does to them.  Each method of GenerationState that gives *)
(* something back is shown to be such a replacement, so that the counters  *)
(* it lowers fall by exactly what the record no longer holds.  The         *)
(* inductive invariant (Sound) is stated over these sums; a call that      *)
(* touches one request and moves credits only between it and the pool is   *)
(* Quiet and keeps it.  The events of sending are Quiet.  Cancelling, a    *)
(* failed preparation, a recovery hint and a deadline are Quiet too, and   *)
(* arm the deadline of a tombstone they make.                              *)
(***************************************************************************)
EXTENDS RequestLedger, TLAPS, FiniteSetTheorems

\* The sizes of the requests in K have a common bound.
Bounded(K, size) == \E M \in Nat : \A j \in K : size[j] \in 0..M

\* A sum over a finite set of requests is a natural number when every size
\* has a common bound.
LEMMA TotalFinite ==
  ASSUME NEW K, IsFiniteSet(K), NEW size, Bounded(K, size)
  PROVE  IsFiniteSet(Units(K, size)) /\ Total(K, size) \in Nat
<1>0. PICK M \in Nat : \A j \in K : size[j] \in 0..M
  BY DEF Bounded
<1>1. Units(K, size) \subseteq K \X (1..M)
  BY <1>0 DEF Units
<1>2. IsFiniteSet(1..M)
  BY FS_Interval
<1>3. IsFiniteSet(K \X (1..M))
  BY <1>2, FS_Product
<1>4. IsFiniteSet(Units(K, size))
  BY <1>1, <1>3, FS_Subset
<1> QED
  BY <1>4, FS_CardinalityType DEF Total

\* A request that leaves the set takes exactly its own size out of the sum.
LEMMA TotalRemove ==
  ASSUME NEW K, IsFiniteSet(K), NEW size, Bounded(K, size), NEW k \in K
  PROVE  Total(K, size) = Total(K \ {k}, size) + size[k]
<1> DEFINE Rest == Units(K \ {k}, size)
           Own == {k} \X (1..size[k])
<1>0. Bounded(K \ {k}, size) /\ size[k] \in Nat
  BY DEF Bounded
<1>1. IsFiniteSet(K \ {k})
  BY FS_RemoveElement
<1>2. IsFiniteSet(Rest) /\ Cardinality(Rest) \in Nat
  BY <1>0, <1>1, TotalFinite DEF Total
<1>3. IsFiniteSet({k}) /\ Cardinality({k}) = 1
  BY ZenonT(60), FS_Singleton
<1>4. IsFiniteSet(1..size[k]) /\ Cardinality(1..size[k]) = size[k]
  <2>1. 1 \in Int /\ size[k] \in Int
    BY <1>0
  <2>2. IsFiniteSet(1..size[k])
    BY <2>1, FS_Interval
  <2>3. Cardinality(1..size[k]) = IF 1 > size[k] THEN 0 ELSE size[k] - 1 + 1
    BY <2>1, FS_Interval
  <2> QED
    BY <1>0, <2>2, <2>3
<1>5. IsFiniteSet(Own) /\ Cardinality(Own) = size[k]
  <2>1. IsFiniteSet(Own) /\ Cardinality(Own) = Cardinality({k}) * Cardinality(1..size[k])
    BY ZenonT(60), <1>3, <1>4, FS_Product
  <2> QED
    BY <1>0, <1>3, <1>4, <2>1
<1>6. Units(K, size) = Rest \cup Own
  BY DEF Units
<1>7. Rest \cap Own = {}
  BY DEF Units
<1>8. Cardinality(Rest \cup Own) = Cardinality(Rest) + Cardinality(Own)
  <2>1. Cardinality(Rest \cap Own) = 0
    BY <1>7, FS_EmptySet
  <2>2. Cardinality(Rest \cup Own)
          = Cardinality(Rest) + Cardinality(Own) - Cardinality(Rest \cap Own)
    BY ZenonT(60), <1>2, <1>5, FS_Union
  <2> QED
    BY <1>0, <1>2, <1>5, <2>1, <2>2
<1> QED
  BY <1>5, <1>6, <1>8 DEF Total

\* A sum depends only on the sizes of the requests in the set.
LEMMA TotalSame ==
  ASSUME NEW K, NEW size1, NEW size2, \A j \in K : size1[j] = size2[j]
  PROVE  Total(K, size1) = Total(K, size2)
<1>1. Units(K, size1) = Units(K, size2)
  BY DEF Units
<1> QED
  BY <1>1 DEF Total

-----------------------------------------------------------------------------
(* The inductive invariant.                                                *)

Deadlines == [key : Nat, kind : {"Caller", "Tombstone"}, version : 1..3]

\* A ledger as a value: every field of GenerationState with its type.
Ledger(K) ==
  [next_message_id : Nat, available_credits : 0..CreditMax,
   total_credits : 0..CreditMax, pending_extra_credits : 0..CreditMax,
   target_credits : Nat, admitted_operations : Nat, retained_payload_bytes : Nat,
   requests : [K -> Request], async_index : SUBSET (AsyncIds \X Nat),
   deadlines : SUBSET Deadlines, unhealthy : BOOLEAN]

\* What every record satisfies on its own.
RecordOK(r) ==
  /\ r.caller = "Open" => r.admission_held /\ r.deadline_version <= 1
  /\ r.response # "Final" => r.deadline_version <= 2
  /\ r.response = "Final" => /\ r.caller # "Open"
                             /\ ~r.admission_held /\ ~r.payload_held
                             /\ ~r.credit_obligation /\ ~r.tombstone
  /\ r.credit_response_seen => Committed(r.send)
  /\ r.tombstone => /\ Committed(r.send) /\ r.caller # "Open"
                    /\ r.response # "Final" /\ r.admission_held

\* Types, fresh keys, and the balance of permits and payload bytes.
Core(s, K) ==
  /\ K \subseteq Nat /\ IsFiniteSet(K)
  /\ s \in Ledger(K)
  /\ \A k \in K : /\ k < s.next_message_id
                  /\ s.requests[k].payload_bytes <= MaxPayloadBytes
  /\ s.admitted_operations = Cardinality(AdmissionHeld(s))
  /\ s.retained_payload_bytes = Total(PayloadHeld(s), Payload(s))
  /\ s.admitted_operations <= MaxOperations
  /\ s.retained_payload_bytes <= MaxPayloadBytes

\* The credits of requests whose charge is neither returned nor answered.
Reserved(s) == Total(Outstanding(s), Charge(s))

Unsettled(r) == r.credit_obligation /\ ~r.credit_response_seen

\* r2 is a record that request k may turn into: it takes nothing back.
GivesBack(s, K, k, r2) ==
  LET r == s.requests[k]
  IN  /\ k \in K /\ r2 \in Request
      /\ r2.payload_bytes = r.payload_bytes /\ r2.credit_charge = r.credit_charge
      /\ r2.admission_held => r.admission_held
      /\ r2.payload_held => r.payload_held
      /\ Unsettled(r2) => Unsettled(r)

GivenPermits(r, r2) == IF r.admission_held /\ ~r2.admission_held THEN 1 ELSE 0

GivenBytes(r, r2) ==
  IF r.payload_held /\ ~r2.payload_held THEN r.payload_bytes ELSE 0

GivenCredits(r, r2) ==
  IF Unsettled(r) /\ ~Unsettled(r2) THEN r.credit_charge ELSE 0

\* Request k's record becomes r2 and the counters fall by what it gives up.
Replace(s, k, r2) ==
  [s EXCEPT
    !.requests[k] = r2,
    !.admitted_operations =
        s.admitted_operations - GivenPermits(s.requests[k], r2),
    !.retained_payload_bytes =
        s.retained_payload_bytes - GivenBytes(s.requests[k], r2)]

\* The three sums fall by what record r gives up when it becomes r2.
SumsFall(s, t, K, r, r2) ==
  /\ Cardinality(AdmissionHeld(s)) =
       Cardinality(AdmissionHeld(t)) + GivenPermits(r, r2)
  /\ Total(PayloadHeld(s), Payload(s)) =
       Total(PayloadHeld(t), Payload(t)) + GivenBytes(r, r2)
  /\ Reserved(s) = Reserved(t) + GivenCredits(r, r2)
  /\ Cardinality(AdmissionHeld(t)) \in Nat
  /\ Total(PayloadHeld(t), Payload(t)) \in Nat
  /\ Reserved(t) \in Nat

\* Replacing the record of one request, which never takes ownership back,
\* changes the three sums by exactly what the record gives up.
LEMMA SumsStep ==
  ASSUME NEW K, NEW s, NEW k, NEW r2, NEW t,
         K \subseteq Nat, IsFiniteSet(K), s.requests \in [K -> Request],
         \A j \in K : s.requests[j].payload_bytes <= MaxPayloadBytes,
         GivesBack(s, K, k, r2),
         t.requests = [s.requests EXCEPT ![k] = r2]
  PROVE  SumsFall(s, t, K, s.requests[k], r2)
<1> DEFINE r == s.requests[k]
<1>g. /\ k \in K /\ r2 \in Request
      /\ r2.payload_bytes = r.payload_bytes /\ r2.credit_charge = r.credit_charge
      /\ r2.admission_held => r.admission_held
      /\ r2.payload_held => r.payload_held
      /\ Unsettled(r2) => Unsettled(r)
  BY DEF GivesBack
<1>k. Keys(s) = K /\ Keys(t) = K /\ t.requests \in [K -> Request]
  BY <1>g DEF Keys
<1>m. MaxPayloadBytes \in Nat /\ GrantMax \in Nat
  BY LedgerAssumption
<1>o. \A j \in K : j # k => t.requests[j] = s.requests[j]
  BY <1>g
<1>n. t.requests[k] = r2 /\ r \in Request
  BY ZenonT(60), <1>g
<1>1. /\ Cardinality(AdmissionHeld(s)) =
              Cardinality(AdmissionHeld(t))
                + (IF r.admission_held /\ ~r2.admission_held THEN 1 ELSE 0)
      /\ Cardinality(AdmissionHeld(t)) \in Nat
  <2>1. IsFiniteSet(AdmissionHeld(s)) /\ IsFiniteSet(AdmissionHeld(t))
    <3>1. AdmissionHeld(s) \subseteq K /\ AdmissionHeld(t) \subseteq K
      BY <1>g, <1>k DEF AdmissionHeld
    <3> QED BY <3>1, FS_Subset
  <2>2. AdmissionHeld(t) = IF r.admission_held /\ ~r2.admission_held
                           THEN AdmissionHeld(s) \ {k} ELSE AdmissionHeld(s)
    BY <1>g, <1>k, <1>o, <1>n DEF AdmissionHeld, Request
  <2>3. r.admission_held => k \in AdmissionHeld(s)
    BY <1>g, <1>k DEF AdmissionHeld
  <2>4. /\ Cardinality(AdmissionHeld(s)) \in Nat
        /\ Cardinality(AdmissionHeld(t)) \in Nat
    BY <2>1, FS_CardinalityType
  <2>5. k \in AdmissionHeld(s) =>
          Cardinality(AdmissionHeld(s) \ {k}) = Cardinality(AdmissionHeld(s)) - 1
    BY ZenonT(60), <2>1, FS_RemoveElement
  <2> QED BY <1>g, <2>2, <2>3, <2>4, <2>5
<1>2. /\ Total(PayloadHeld(s), Payload(s)) =
              Total(PayloadHeld(t), Payload(t))
                + (IF r.payload_held /\ ~r2.payload_held THEN r.payload_bytes ELSE 0)
      /\ Total(PayloadHeld(t), Payload(t)) \in Nat
  <2>1. IsFiniteSet(PayloadHeld(s)) /\ IsFiniteSet(PayloadHeld(t))
    <3>1. PayloadHeld(s) \subseteq K /\ PayloadHeld(t) \subseteq K
      BY <1>g, <1>k DEF PayloadHeld
    <3> QED BY <3>1, FS_Subset
  <2>2. PayloadHeld(t) = IF r.payload_held /\ ~r2.payload_held
                         THEN PayloadHeld(s) \ {k} ELSE PayloadHeld(s)
    BY <1>g, <1>k, <1>o, <1>n DEF PayloadHeld, Request
  <2>3. r.payload_held => k \in PayloadHeld(s)
    BY <1>g, <1>k DEF PayloadHeld
  <2>4. /\ \A j \in PayloadHeld(s) : Payload(s)[j] \in 0..MaxPayloadBytes
        /\ \A j \in K : Payload(t)[j] = Payload(s)[j]
        /\ Payload(s)[k] = r.payload_bytes
    <3>1. \A j \in K : /\ Payload(s)[j] = s.requests[j].payload_bytes
                       /\ Payload(t)[j] = t.requests[j].payload_bytes
      BY <1>g, <1>k DEF Payload
    <3>2. \A j \in K : s.requests[j].payload_bytes \in 0..MaxPayloadBytes
      BY <1>m DEF Request
    <3>3. \A j \in K : t.requests[j].payload_bytes = s.requests[j].payload_bytes
      BY <1>g, <1>o, <1>n
    <3> QED BY ZenonT(60), <1>g, <1>k, <3>1, <3>2, <3>3 DEF PayloadHeld
  <2>5. PayloadHeld(t) \subseteq PayloadHeld(s) /\ PayloadHeld(t) \subseteq K
    BY <1>k, <2>2 DEF PayloadHeld
  <2>6. Total(PayloadHeld(t), Payload(t)) = Total(PayloadHeld(t), Payload(s))
    <3>1. \A j \in PayloadHeld(t) : Payload(t)[j] = Payload(s)[j]
      BY ZenonT(60), <2>4, <2>5
    <3> QED BY <3>1, TotalSame
  <2>b. Bounded(PayloadHeld(s), Payload(s)) /\ Bounded(PayloadHeld(t), Payload(s))
    BY <1>m, <2>4, <2>5 DEF Bounded
  <2>7. Total(PayloadHeld(t), Payload(s)) \in Nat
    BY <2>1, <2>b, TotalFinite
  <2>8. ASSUME k \in PayloadHeld(s)
        PROVE  Total(PayloadHeld(s), Payload(s)) = Total(PayloadHeld(s) \ {k}, Payload(s)) + Payload(s)[k]
    BY <2>1, <2>b, <2>8, TotalRemove
  <2> QED BY <1>g, <2>2, <2>3, <2>4, <2>6, <2>7, <2>8
<1>3. /\ Reserved(s) =
              Reserved(t)
                + (IF Unsettled(r) /\ ~Unsettled(r2) THEN r.credit_charge ELSE 0)
      /\ Reserved(t) \in Nat
  <2>1. IsFiniteSet(Outstanding(s)) /\ IsFiniteSet(Outstanding(t))
    <3>1. Outstanding(s) \subseteq K /\ Outstanding(t) \subseteq K
      BY <1>g, <1>k DEF Outstanding
    <3> QED BY <3>1, FS_Subset
  <2>2. Outstanding(t) = IF Unsettled(r) /\ ~Unsettled(r2)
                         THEN Outstanding(s) \ {k} ELSE Outstanding(s)
    BY <1>g, <1>k, <1>o, <1>n DEF Outstanding, Unsettled, Request
  <2>3. Unsettled(r) => k \in Outstanding(s)
    BY <1>g, <1>k DEF Outstanding, Unsettled
  <2>4. /\ \A j \in Outstanding(s) : Charge(s)[j] \in 0..GrantMax
        /\ \A j \in K : Charge(t)[j] = Charge(s)[j]
        /\ Charge(s)[k] = r.credit_charge
    <3>1. \A j \in K : /\ Charge(s)[j] = s.requests[j].credit_charge
                       /\ Charge(t)[j] = t.requests[j].credit_charge
      BY <1>g, <1>k DEF Charge
    <3>2. \A j \in K : s.requests[j].credit_charge \in 0..GrantMax
      BY <1>m DEF Request
    <3>3. \A j \in K : t.requests[j].credit_charge = s.requests[j].credit_charge
      BY <1>g, <1>o, <1>n
    <3> QED BY ZenonT(60), <1>g, <1>k, <3>1, <3>2, <3>3 DEF Outstanding
  <2>5. Outstanding(t) \subseteq Outstanding(s) /\ Outstanding(t) \subseteq K
    BY <1>k, <2>2 DEF Outstanding
  <2>6. Total(Outstanding(t), Charge(t)) = Total(Outstanding(t), Charge(s))
    <3>1. \A j \in Outstanding(t) : Charge(t)[j] = Charge(s)[j]
      BY ZenonT(60), <2>4, <2>5
    <3> QED BY <3>1, TotalSame
  <2>b. Bounded(Outstanding(s), Charge(s)) /\ Bounded(Outstanding(t), Charge(s))
    BY <1>m, <2>4, <2>5 DEF Bounded
  <2>7. Total(Outstanding(t), Charge(s)) \in Nat
    BY <2>1, <2>b, TotalFinite
  <2>8. ASSUME k \in Outstanding(s)
        PROVE  Total(Outstanding(s), Charge(s)) = Total(Outstanding(s) \ {k}, Charge(s)) + Charge(s)[k]
    BY <2>1, <2>b, <2>8, TotalRemove
  <2> QED BY <1>g, <2>2, <2>3, <2>4, <2>6, <2>7, <2>8 DEF Reserved
<1> QED
  BY <1>1, <1>2, <1>3 DEF SumsFall, GivenPermits, GivenBytes, GivenCredits

\* Core only reads the records, the two ownership counters and the next id.
LEMMA CoreSame ==
  ASSUME NEW K, NEW s, Core(s, K), NEW t \in Ledger(K),
         t.requests = s.requests, t.next_message_id = s.next_message_id,
         t.admitted_operations = s.admitted_operations,
         t.retained_payload_bytes = s.retained_payload_bytes
  PROVE  Core(t, K) /\ Reserved(t) = Reserved(s)
BY DEF Core, Reserved, AdmissionHeld, PayloadHeld, Outstanding, Payload, Charge, Keys

\* Core survives a step that replaces one record and lowers the counters by
\* what the record gives up.
LEMMA CoreStep ==
  ASSUME NEW K, NEW s, Core(s, K), NEW k, NEW r2, GivesBack(s, K, k, r2)
  PROVE  /\ Core(Replace(s, k, r2), K)
         /\ Reserved(s) = Reserved(Replace(s, k, r2))
                            + GivenCredits(s.requests[k], r2)
         /\ Reserved(Replace(s, k, r2)) \in Nat
<1> DEFINE r == s.requests[k]
           f == [s.requests EXCEPT ![k] = r2]
           a == s.admitted_operations - GivenPermits(r, r2)
           b == s.retained_payload_bytes - GivenBytes(r, r2)
           t == [s EXCEPT !.requests = f, !.admitted_operations = a,
                          !.retained_payload_bytes = b]
<1>1. s \in Ledger(K) /\ K \subseteq Nat /\ IsFiniteSet(K)
  BY DEF Core
<1>2. /\ s.requests \in [K -> Request]
      /\ \A j \in K : s.requests[j].payload_bytes <= MaxPayloadBytes
  BY <1>1 DEF Core, Ledger
<1>3. /\ t.requests = f /\ t.next_message_id = s.next_message_id
      /\ t.admitted_operations = a /\ t.retained_payload_bytes = b
  BY <1>1 DEF Ledger
<1>4. SumsFall(s, t, K, r, r2)
  <2> HIDE DEF t
  <2> QED BY ZenonT(60), <1>1, <1>2, <1>3, SumsStep
<1>5. /\ s.admitted_operations = Cardinality(AdmissionHeld(s))
      /\ s.retained_payload_bytes = Total(PayloadHeld(s), Payload(s))
      /\ s.admitted_operations <= MaxOperations
      /\ s.retained_payload_bytes <= MaxPayloadBytes
      /\ s.admitted_operations \in Nat /\ s.retained_payload_bytes \in Nat
  BY <1>1 DEF Core, Ledger
<1>6. k \in K /\ r2 \in Request /\ r \in Request /\ r.payload_bytes \in Nat
  BY <1>2 DEF Request, GivesBack
<1>7. /\ GivenPermits(r, r2) \in Nat /\ GivenBytes(r, r2) \in Nat
  BY <1>6 DEF GivenPermits, GivenBytes
<1>8. /\ a = Cardinality(AdmissionHeld(t)) /\ a <= MaxOperations /\ a \in Nat
      /\ b = Total(PayloadHeld(t), Payload(t)) /\ b <= MaxPayloadBytes /\ b \in Nat
  <2> HIDE DEF t
  <2> QED BY <1>4, <1>5, <1>7, LedgerAssumption DEF SumsFall
<1>9. t \in Ledger(K)
  <2>1. f \in [K -> Request]
    BY <1>2, <1>6
  <2> HIDE DEF f, a, b
  <2> QED BY ZenonT(60), <1>1, <1>8, <2>1 DEF Ledger
<1>10. \A j \in K : /\ j < t.next_message_id
                    /\ t.requests[j].payload_bytes <= MaxPayloadBytes
  <2>1. \A j \in K : j < s.next_message_id
    BY DEF Core
  <2>2. \A j \in K : f[j].payload_bytes <= MaxPayloadBytes
    BY <1>2, <1>6 DEF GivesBack
  <2> HIDE DEF t, f
  <2> QED BY <1>3, <2>1, <2>2
<1>11. Core(t, K)
  <2> HIDE DEF t, f, a, b
  <2> QED BY <1>1, <1>3, <1>8, <1>9, <1>10 DEF Core
<1>12. Replace(s, k, r2) = t
  BY <1>1 DEF Replace, Ledger
<1> HIDE DEF t
<1> QED BY <1>4, <1>11, <1>12 DEF SumsFall

\* t differs from s at most in request k's record and in the two counters.
OnlyRecord(s, t, k, r2) ==
  /\ t.requests = [s.requests EXCEPT ![k] = r2]
  /\ t.requests[k] = r2
  /\ t.next_message_id = s.next_message_id
  /\ t.available_credits = s.available_credits
  /\ t.total_credits = s.total_credits
  /\ t.pending_extra_credits = s.pending_extra_credits
  /\ t.target_credits = s.target_credits
  /\ t.async_index = s.async_index
  /\ t.deadlines = s.deadlines
  /\ t.unhealthy = s.unhealthy

\* What Replace changes, field by field, as one named fact.
LEMMA ReplaceFields ==
  ASSUME NEW K, NEW s, Core(s, K), NEW k, NEW r2, GivesBack(s, K, k, r2)
  PROVE  /\ Replace(s, k, r2) \in Ledger(K)
         /\ OnlyRecord(s, Replace(s, k, r2), k, r2)
<1>0. k \in K
  BY DEF GivesBack
<1>1. s \in Ledger(K)
  BY SMTT(60) DEF Core
<1>2. Replace(s, k, r2) \in Ledger(K)
  BY ZenonT(60), CoreStep DEF Core
<1>3. s.requests \in [K -> Request]
  BY <1>1 DEF Ledger
<1> QED BY <1>0, <1>1, <1>2, <1>3 DEF Replace, Ledger, OnlyRecord

\* A record that gives nothing up leaves the counters alone.
LEMMA ReplaceKeep ==
  ASSUME NEW K, NEW s \in Ledger(K), NEW k \in K, NEW r2,
         r2.admission_held = s.requests[k].admission_held,
         r2.payload_held = s.requests[k].payload_held
  PROVE  Replace(s, k, r2) = [s EXCEPT !.requests[k] = r2]
<1> DEFINE a == s.admitted_operations - GivenPermits(s.requests[k], r2)
           b == s.retained_payload_bytes - GivenBytes(s.requests[k], r2)
<1>1. a = s.admitted_operations /\ b = s.retained_payload_bytes
  BY DEF GivenPermits, GivenBytes, Ledger
<1>2. Replace(s, k, r2) = [s EXCEPT !.requests[k] = r2, !.admitted_operations = a,
                                   !.retained_payload_bytes = b]
  BY DEF Replace
<1> HIDE DEF a, b
<1> QED BY ZenonT(60), <1>1, <1>2 DEF Ledger

\* Two replacements of one record in a row are one.
LEMMA ReplaceTwice ==
  ASSUME NEW K, NEW s, Core(s, K), NEW k, NEW r1, NEW r2,
         GivesBack(s, K, k, r1), GivesBack(Replace(s, k, r1), K, k, r2)
  PROVE  /\ Replace(Replace(s, k, r1), k, r2) = Replace(s, k, r2)
         /\ GivesBack(s, K, k, r2)
<1> DEFINE r == s.requests[k]
           t == Replace(s, k, r1)
           a == s.admitted_operations - GivenPermits(r, r2)
           b == s.retained_payload_bytes - GivenBytes(r, r2)
<1>k. k \in K /\ s \in Ledger(K)
  BY DEF GivesBack, Core
<1>0. s.requests \in [K -> Request] /\ r \in Request
  BY <1>k DEF Ledger
<1>1. /\ t.requests[k] = r1
      /\ t.admitted_operations = s.admitted_operations - GivenPermits(r, r1)
      /\ t.retained_payload_bytes = s.retained_payload_bytes - GivenBytes(r, r1)
  BY <1>0, <1>k DEF Replace, Ledger
<1>g. /\ r1 \in Request /\ r2 \in Request
      /\ r1.payload_bytes = r.payload_bytes /\ r1.credit_charge = r.credit_charge
      /\ r2.payload_bytes = r1.payload_bytes /\ r2.credit_charge = r1.credit_charge
      /\ r1.admission_held => r.admission_held
      /\ r1.payload_held => r.payload_held
      /\ r2.admission_held => r1.admission_held
      /\ r2.payload_held => r1.payload_held
      /\ Unsettled(r1) => Unsettled(r)
      /\ Unsettled(r2) => Unsettled(r1)
  <2> HIDE DEF t
  <2> QED BY <1>1 DEF GivesBack, t
<1>h. GivesBack(s, K, k, r2)
  BY <1>k, <1>g DEF GivesBack
<1>2. /\ t.admitted_operations - GivenPermits(r1, r2) = a
      /\ t.retained_payload_bytes - GivenBytes(r1, r2) = b
  BY <1>0, <1>1, <1>g, <1>k DEF GivenPermits, GivenBytes, Ledger, Request
<1>3. Replace(t, k, r2) = [t EXCEPT !.requests[k] = r2, !.admitted_operations = a,
                                   !.retained_payload_bytes = b]
  BY ZenonT(60), <1>1, <1>2 DEF Replace
<1>4. Replace(s, k, r2) = [s EXCEPT !.requests[k] = r2, !.admitted_operations = a,
                                   !.retained_payload_bytes = b]
  BY DEF Replace
<1> HIDE DEF a, b
<1>5. [t EXCEPT !.requests[k] = r2, !.admitted_operations = a,
                !.retained_payload_bytes = b]
      = [s EXCEPT !.requests[k] = r2, !.admitted_operations = a,
                  !.retained_payload_bytes = b]
  <2> DEFINE a1 == s.admitted_operations - GivenPermits(r, r1)
             b1 == s.retained_payload_bytes - GivenBytes(r, r1)
  <2>1. t = [s EXCEPT !.requests[k] = r1, !.admitted_operations = a1,
                      !.retained_payload_bytes = b1]
    BY DEF Replace
  <2> HIDE DEF a1, b1, t
  <2> QED BY ZenonT(60), <1>0, <1>k, <2>1 DEF Ledger
<1> QED BY <1>h, <1>3, <1>4, <1>5

\* A record without its payload, and one without its permit as well.
Unloaded(r) == [r EXCEPT !.payload_held = FALSE]

Disowned(r) == [Unloaded(r) EXCEPT !.admission_held = FALSE]

\* release_payload replaces the record by one without its payload.
LEMMA ReleasePayloadReplaces ==
  ASSUME NEW K, NEW s, Core(s, K), NEW k \in K
  PROVE  ReleasePayload(s, k) = Replace(s, k, Unloaded(s.requests[k]))
<1>l. s \in Ledger(K)
  BY DEF Core
<1> DEFINE r == s.requests[k]
           r2 == [r EXCEPT !.payload_held = FALSE]
           a == s.admitted_operations - GivenPermits(r, r2)
           b == s.retained_payload_bytes - GivenBytes(r, r2)
<1>0. r \in Request
  BY <1>l DEF Ledger
<1>1. r2.admission_held = r.admission_held /\ r2.payload_held = FALSE
  BY <1>0 DEF Request
<1> SUFFICES ReleasePayload(s, k) = Replace(s, k, r2)
  BY DEF Unloaded
<1>2. CASE ~r.payload_held
  <2>1. r2 = r
    BY ZenonT(60), <1>0, <1>2 DEF Request
  <2>2. Replace(s, k, r2) = [s EXCEPT !.requests[k] = r]
    BY <1>1, <1>l, <2>1, ReplaceKeep
  <2>3. [s EXCEPT !.requests[k] = r] = s
    BY <1>l DEF Ledger
  <2> QED BY <1>2, <2>2, <2>3 DEF ReleasePayload
<1>3. CASE r.payload_held
  <2>1. a = s.admitted_operations /\ b = s.retained_payload_bytes - r.payload_bytes
    BY <1>0, <1>l, <1>1, <1>3 DEF GivenPermits, GivenBytes, Ledger, Request
  <2>2. Replace(s, k, r2) = [s EXCEPT !.requests[k] = r2, !.admitted_operations = a,
                                     !.retained_payload_bytes = b]
    BY DEF Replace
  <2>3. ReleasePayload(s, k) = [s EXCEPT !.retained_payload_bytes = b,
                                         !.requests[k] = r2]
    BY ZenonT(60), <1>3, <2>1 DEF ReleasePayload
  <2> HIDE DEF a, b, r2
  <2> QED BY ZenonT(60), <1>l, <2>1, <2>2, <2>3 DEF Ledger
<1> HIDE DEF r, r2, a, b
<1> QED BY <1>2, <1>3

\* release_request_ownership replaces the record by one that owns neither
\* payload nor permit.
LEMMA ReleaseOwnershipReplaces ==
  ASSUME NEW K, NEW s, Core(s, K), NEW k \in K
  PROVE  ReleaseRequestOwnership(s, k) = Replace(s, k, Disowned(s.requests[k]))
<1> DEFINE r == s.requests[k]
           r1 == [r EXCEPT !.payload_held = FALSE]
           r2 == [r1 EXCEPT !.admission_held = FALSE]
           t == Replace(s, k, r1)
<1>0. s \in Ledger(K) /\ r \in Request
  BY DEF Core, Ledger
<1>1. /\ r1 \in Request /\ r2 \in Request
      /\ r1.payload_bytes = r.payload_bytes /\ r1.admission_held = r.admission_held
      /\ ~r1.payload_held /\ ~r2.payload_held /\ ~r2.admission_held
      /\ r1.credit_charge = r.credit_charge
      /\ r1.credit_obligation = r.credit_obligation
      /\ r1.credit_response_seen = r.credit_response_seen
      /\ r2 = Disowned(r) /\ r1 = Unloaded(r)
  BY ZenonT(60), <1>0 DEF Request, Disowned, Unloaded
<1> HIDE DEF r1
<1>2. GivesBack(s, K, k, r1)
  BY <1>1 DEF GivesBack, Unsettled
<1>3. t \in Ledger(K) /\ t.requests[k] = r1
  <2>1. t \in Ledger(K) /\ OnlyRecord(s, t, k, r1)
    BY <1>2, ReplaceFields
  <2> QED BY <2>1 DEF OnlyRecord
<1>4. ReleasePayload(s, k) = t
  BY <1>1, ReleasePayloadReplaces
<1>5. Replace(t, k, r2) = Replace(s, k, r2)
  <2>1. GivesBack(t, K, k, r2)
    BY <1>1, <1>3 DEF GivesBack, Unsettled, Request
  <2> HIDE DEF r2
  <2> QED BY <1>2, <2>1, ReplaceTwice
<1> DEFINE a == t.admitted_operations - GivenPermits(r1, r2)
           b == t.retained_payload_bytes - GivenBytes(r1, r2)
<1>6. Replace(t, k, r2) = [t EXCEPT !.requests[k] = r2, !.admitted_operations = a,
                                   !.retained_payload_bytes = b]
  BY ZenonT(60), <1>3 DEF Replace
<1>7. ReleaseRequestOwnership(s, k) =
        IF r1.admission_held
        THEN [t EXCEPT !.admitted_operations = t.admitted_operations - 1,
                       !.requests[k] = r2]
        ELSE t
  BY ZenonT(60), <1>3, <1>4 DEF ReleaseRequestOwnership
<1> SUFFICES ReleaseRequestOwnership(s, k) = Replace(t, k, r2)
  BY <1>1, <1>5
<1>8. CASE r1.admission_held
  <2>1. a = t.admitted_operations - 1 /\ b = t.retained_payload_bytes
    BY <1>1, <1>3, <1>8 DEF GivenPermits, GivenBytes, Ledger
  <2> HIDE DEF a, b, r2, t
  <2> QED BY ZenonT(60), <1>3, <1>6, <1>7, <1>8, <2>1 DEF Ledger
<1>9. CASE ~r1.admission_held
  <2>1. r2 = r1
    BY <1>1, <1>9 DEF Request
  <2>2. Replace(t, k, r2) = [t EXCEPT !.requests[k] = r1]
    <3>1. /\ r1.admission_held = t.requests[k].admission_held
          /\ r1.payload_held = t.requests[k].payload_held
      BY <1>3
    <3> HIDE DEF t, r2
    <3> QED BY <1>3, <2>1, <3>1, ReplaceKeep
  <2>3. [t EXCEPT !.requests[k] = r1] = t
    <3> HIDE DEF t
    <3> QED BY <1>3 DEF Ledger
  <2> QED BY <1>7, <1>9, <2>2, <2>3
<1> HIDE DEF t, r2
<1> QED BY <1>8, <1>9

-----------------------------------------------------------------------------
(* One call for request k, by what it may change.                          *)

Stripped(r) == [r EXCEPT !.payload_held = FALSE, !.admission_held = FALSE,
                         !.credit_obligation = FALSE]

\* A call that touches request k's record, the counters and the credits.
OneRequest(s, t, K, k) ==
  /\ Core(t, K)
  /\ t.requests = [s.requests EXCEPT ![k] = t.requests[k]]
  /\ t.async_index = s.async_index
  /\ t.unhealthy = s.unhealthy

\* The credits in hand and those reserved add up to the same.
CreditsMoved(s, t) ==
  t.available_credits + Reserved(t) = s.available_credits + Reserved(s)

\* Replacing a record by one that takes nothing back touches one request only.
LEMMA ReplaceOne ==
  ASSUME NEW K, NEW s, Core(s, K), NEW k, NEW r2, GivesBack(s, K, k, r2)
  PROVE  /\ OneRequest(s, Replace(s, k, r2), K, k)
         /\ Replace(s, k, r2).requests[k] = r2
         /\ Replace(s, k, r2).deadlines = s.deadlines
         /\ (Unsettled(r2) <=> Unsettled(s.requests[k])) =>
              CreditsMoved(s, Replace(s, k, r2))
<1> DEFINE t == Replace(s, k, r2)
<1>1. /\ Core(t, K)
      /\ Reserved(s) = Reserved(t) + GivenCredits(s.requests[k], r2)
      /\ Reserved(t) \in Nat
  BY CoreStep
<1>2. OnlyRecord(s, t, k, r2)
  BY ReplaceFields
<1>3. s.available_credits \in Nat
  BY LedgerAssumption DEF Core, Ledger
<1> HIDE DEF t
<1>4. OneRequest(s, t, K, k) /\ t.requests[k] = r2 /\ t.deadlines = s.deadlines
  BY <1>1, <1>2 DEF OnlyRecord, OneRequest
<1>5. ASSUME Unsettled(r2) <=> Unsettled(s.requests[k])
      PROVE  CreditsMoved(s, t)
  <2>1. GivenCredits(s.requests[k], r2) = 0
    BY <1>5 DEF GivenCredits
  <2>2. t.available_credits = s.available_credits
    BY <1>2 DEF OnlyRecord
  <2> QED BY <1>1, <1>3, <2>1, <2>2 DEF CreditsMoved
<1> QED BY <1>4, <1>5 DEF t

\* rollback returns a request's credits and ownership, or changes nothing.
LEMMA RollbackEffect ==
  ASSUME NEW K, NEW s, Core(s, K), NEW k \in K,
         ~s.requests[k].credit_response_seen
  PROVE  /\ OneRequest(s, Rollback(s, k), K, k)
         /\ Rollback(s, k).requests[k] \in {s.requests[k], Stripped(s.requests[k])}
         /\ Rollback(s, k).deadlines = s.deadlines
         /\ CreditsMoved(s, Rollback(s, k))
<1> DEFINE r == s.requests[k]
           r1 == [r EXCEPT !.credit_obligation = FALSE]
           av == s.available_credits + r.credit_charge
           pe == SatSub(s.pending_extra_credits, r.requested_extra_credits)
           t1 == Replace(s, k, r1)
           u == IF r.credit_obligation
                THEN [s EXCEPT !.available_credits = av, !.pending_extra_credits = pe,
                               !.requests[k] = r1]
                ELSE s
           r2 == Disowned(r1)
           t == Replace(u, k, r2)
<1>0. /\ s \in Ledger(K) /\ r \in Request /\ s.requests \in [K -> Request]
      /\ s.available_credits \in 0..CreditMax /\ s.pending_extra_credits \in 0..CreditMax
      /\ r.credit_charge \in Nat /\ r.requested_extra_credits \in Nat
      /\ CreditMax \in Nat
  BY LedgerAssumption DEF Core, Ledger, Request
<1>1. /\ r1 \in Request /\ r2 \in Request /\ r2 = Stripped(r)
      /\ r1.payload_bytes = r.payload_bytes /\ r1.credit_charge = r.credit_charge
      /\ r1.admission_held = r.admission_held /\ r1.payload_held = r.payload_held
      /\ ~Unsettled(r1) /\ ~Unsettled(r2)
      /\ r2.payload_bytes = r.payload_bytes /\ r2.credit_charge = r.credit_charge
      /\ ~r2.admission_held /\ ~r2.payload_held
      /\ ~r.credit_obligation => r1 = r
  BY ZenonT(60), <1>0 DEF Request, Stripped, Unsettled, Disowned, Unloaded
<1>2. Unsettled(r) <=> r.credit_obligation
  BY DEF Unsettled
<1>3. CASE \/ ~r.credit_obligation /\ ~r.admission_held
           \/ r.credit_obligation /\ av > CreditMax
  <2>1. Rollback(s, k) = s
    BY <1>3 DEF Rollback
  <2>2. OneRequest(s, s, K, k) /\ CreditsMoved(s, s)
    BY <1>0 DEF OneRequest, CreditsMoved
  <2> QED BY <2>1, <2>2
<1>4. CASE ~(\/ ~r.credit_obligation /\ ~r.admission_held
             \/ r.credit_obligation /\ av > CreditMax)
  <2>1. Rollback(s, k) = ReleaseRequestOwnership(u, k)
    BY <1>4 DEF Rollback
  <2>2. /\ Core(u, K) /\ u.requests = [s.requests EXCEPT ![k] = u.requests[k]]
        /\ u.requests[k] = r1
        /\ u.async_index = s.async_index /\ u.unhealthy = s.unhealthy
        /\ u.deadlines = s.deadlines
        /\ CreditsMoved(s, u)
    <3>1. CASE ~r.credit_obligation
      <4>1. u = s
        BY <3>1
      <4> QED BY <1>0, <1>1, <3>1, <4>1 DEF CreditsMoved
    <3>2. CASE r.credit_obligation
      <4>1. GivesBack(s, K, k, r1)
        BY <1>1 DEF GivesBack
      <4>2. /\ Core(t1, K) /\ t1 \in Ledger(K)
            /\ Reserved(s) = Reserved(t1) + GivenCredits(r, r1)
            /\ Reserved(t1) \in Nat
        <5>1. /\ Core(t1, K) /\ Reserved(t1) \in Nat
              /\ Reserved(s) = Reserved(t1) + GivenCredits(r, r1)
          BY <4>1, CoreStep
        <5> HIDE DEF t1
        <5> QED BY <5>1 DEF Core
      <4>3. t1 = [s EXCEPT !.requests[k] = r1]
        <5> HIDE DEF r1
        <5> QED BY <1>0, <1>1, ReplaceKeep
      <4>4. av \in 0..CreditMax /\ pe \in 0..CreditMax
        BY <1>0, <1>4, <3>2 DEF SatSub
      <4>5. u = [t1 EXCEPT !.available_credits = av, !.pending_extra_credits = pe]
        <5> HIDE DEF av, pe, r1, t1
        <5> QED BY ZenonT(60), <1>0, <3>2, <4>3 DEF Ledger
      <4>6. /\ u \in Ledger(K) /\ u.requests = t1.requests
            /\ u.next_message_id = t1.next_message_id
            /\ u.admitted_operations = t1.admitted_operations
            /\ u.retained_payload_bytes = t1.retained_payload_bytes
            /\ u.async_index = t1.async_index /\ u.unhealthy = t1.unhealthy
            /\ u.deadlines = t1.deadlines /\ u.available_credits = av
        <5> HIDE DEF av, pe, t1, u
        <5> QED BY ZenonT(60), <4>2, <4>4, <4>5 DEF Ledger
      <4>7. Core(u, K) /\ Reserved(u) = Reserved(t1)
        <5> HIDE DEF t1, u
        <5> QED BY <4>2, <4>6, CoreSame
      <4>8. OnlyRecord(s, t1, k, r1)
        BY <4>1, ReplaceFields
      <4>9. GivenCredits(r, r1) = r.credit_charge
        BY <1>1, <1>2, <3>2 DEF GivenCredits
      <4>10. CreditsMoved(s, u)
        <5> HIDE DEF t1, u, r1, r
        <5> QED BY <1>0, <4>2, <4>6, <4>7, <4>9 DEF CreditsMoved, av
      <4> HIDE DEF u, t1, r1
      <4> QED BY <4>6, <4>7, <4>8, <4>10 DEF OnlyRecord
    <3> QED BY <3>1, <3>2
  <2>3. ReleaseRequestOwnership(u, k) = t
    <3>1. r2 = Disowned(u.requests[k])
      BY <2>2
    <3> HIDE DEF u, r2
    <3> QED BY <2>2, <3>1, ReleaseOwnershipReplaces
  <2>4. GivesBack(u, K, k, r2)
    <3> HIDE DEF u, r1, r2
    <3> QED BY <1>1, <2>2 DEF GivesBack
  <2>5. /\ OneRequest(u, t, K, k) /\ t.requests[k] = r2 /\ t.deadlines = u.deadlines
        /\ CreditsMoved(u, t)
    <3>1. Unsettled(r2) <=> Unsettled(u.requests[k])
      <4> HIDE DEF u, r1, r2
      <4> QED BY <1>1, <2>2
    <3> HIDE DEF u, r2
    <3> QED BY <2>2, <2>4, <3>1, ReplaceOne
  <2> HIDE DEF u, t, r1, r2
  <2>6. OneRequest(s, t, K, k) /\ CreditsMoved(s, t) /\ t.deadlines = s.deadlines
    BY <1>0, <2>2, <2>5 DEF OneRequest, CreditsMoved
  <2> QED BY <1>1, <2>1, <2>3, <2>5, <2>6
<1> QED BY <1>3, <1>4

\* The record once an answer's credits are accounted for.
Answered(r) == Unloaded([ObserveResponseCommitment(r) EXCEPT
                           !.credit_response_seen = TRUE])

Spent(r) == IF r.credit_response_seen THEN 0 ELSE r.credit_charge

\* What the request has on the books: nothing once it was rolled back or answered.
Owed(r) == IF Unsettled(r) THEN r.credit_charge ELSE 0

\* response's accounting settles what is still on the books and touches one request.
LEMMA AccountEffect ==
  ASSUME NEW K, NEW s, Core(s, K), NEW k \in K, NEW grant \in 0..GrantMax
  PROVE  /\ OneRequest(s, AccountResponse(s, k, grant), K, k)
         /\ AccountResponse(s, k, grant).requests[k] = Answered(s.requests[k])
         /\ AccountResponse(s, k, grant).deadlines = s.deadlines
         /\ AccountResponse(s, k, grant).available_credits = s.available_credits
         /\ Reserved(s) = Reserved(AccountResponse(s, k, grant)) + Owed(s.requests[k])
         /\ Reserved(AccountResponse(s, k, grant)) \in Nat
<1> DEFINE r == s.requests[k]
           r0 == ObserveResponseCommitment(r)
           r1 == [r0 EXCEPT !.credit_response_seen = TRUE]
           r2 == Unloaded(r1)
           extra == IF r.credit_response_seen THEN 0 ELSE r.requested_extra_credits
           pe == SatSub(s.pending_extra_credits, extra)
           tot == SatAdd(SatSub(s.total_credits, Spent(r)), grant)
           t1 == Replace(s, k, r1)
           y == [s EXCEPT !.pending_extra_credits = pe, !.total_credits = tot,
                          !.requests[k] = r1]
           t == Replace(y, k, r2)
<1>0. /\ s \in Ledger(K) /\ r \in Request /\ s.requests \in [K -> Request]
      /\ s.total_credits \in 0..CreditMax /\ s.pending_extra_credits \in 0..CreditMax
      /\ r.credit_charge \in Nat /\ r.requested_extra_credits \in Nat
      /\ CreditMax \in Nat /\ GrantMax \in Nat
  BY LedgerAssumption DEF Core, Ledger, Request
<1>1. /\ r0 \in Request /\ r0.payload_bytes = r.payload_bytes
      /\ r0.credit_charge = r.credit_charge
      /\ r0.credit_obligation = r.credit_obligation
      /\ r0.admission_held = r.admission_held /\ r0.payload_held = r.payload_held
  BY <1>0 DEF ObserveResponseCommitment, Request, SendProgress
<1> HIDE DEF r0
<1>2. /\ r1 \in Request /\ r1.payload_bytes = r.payload_bytes
      /\ r1.credit_charge = r.credit_charge /\ r1.credit_response_seen
      /\ r1.admission_held = r.admission_held /\ r1.payload_held = r.payload_held
      /\ ~Unsettled(r1)
  BY ZenonT(60), <1>1 DEF Request, Unsettled
<1> HIDE DEF r1
<1>3. /\ r2 \in Request /\ r2.payload_bytes = r.payload_bytes
      /\ r2.credit_charge = r.credit_charge
      /\ r2.admission_held = r.admission_held /\ ~r2.payload_held
      /\ ~Unsettled(r2)
  BY ZenonT(60), <1>2 DEF Request, Unsettled, Unloaded
<1>4. r2 = Answered(r)
  BY DEF Answered, r1, r0
<1> HIDE DEF r2
<1>5. pe \in 0..CreditMax /\ tot \in 0..CreditMax
  BY <1>0 DEF SatSub, SatAdd, Spent
<1>6. GivesBack(s, K, k, r1)
  BY <1>2 DEF GivesBack
<1>7. /\ Core(t1, K) /\ Reserved(t1) \in Nat
      /\ Reserved(s) = Reserved(t1) + GivenCredits(r, r1)
      /\ OnlyRecord(s, t1, k, r1)
  BY <1>6, CoreStep, ReplaceFields
<1>8. t1 = [s EXCEPT !.requests[k] = r1]
  BY <1>0, <1>2, ReplaceKeep
<1>9. /\ y \in Ledger(K) /\ y.requests = t1.requests
      /\ y.next_message_id = t1.next_message_id
      /\ y.admitted_operations = t1.admitted_operations
      /\ y.retained_payload_bytes = t1.retained_payload_bytes
      /\ y.async_index = s.async_index /\ y.unhealthy = s.unhealthy
      /\ y.deadlines = s.deadlines /\ y.available_credits = s.available_credits
  <2>1. t1 \in Ledger(K)
    <3> HIDE DEF t1
    <3> QED BY <1>7 DEF Core
  <2>2. y = [t1 EXCEPT !.pending_extra_credits = pe, !.total_credits = tot]
    <3> HIDE DEF pe, tot, t1
    <3> QED BY ZenonT(60), <1>0, <1>8 DEF Ledger
  <2> HIDE DEF pe, tot, t1, y
  <2> QED BY ZenonT(60), <1>5, <1>7, <2>1, <2>2 DEF Ledger, OnlyRecord
<1> HIDE DEF t1, y
<1>10. Core(y, K) /\ Reserved(y) = Reserved(t1)
  BY <1>7, <1>9, CoreSame
<1>11. y.requests = [s.requests EXCEPT ![k] = r1] /\ y.requests[k] = r1
  BY <1>7, <1>9 DEF OnlyRecord
<1>12. AccountResponse(s, k, grant) = t
  <2>1. AccountResponse(s, k, grant) = ReleasePayload(y, k)
    BY DEF AccountResponse, Spent, y, r1, r0
  <2>2. ReleasePayload(y, k) = Replace(y, k, r2)
    <3>1. ReleasePayload(y, k) = Replace(y, k, Unloaded(y.requests[k]))
      BY <1>10, ReleasePayloadReplaces
    <3> QED BY <1>11, <3>1 DEF r2
  <2> QED BY <2>1, <2>2
<1>13. GivesBack(y, K, k, r2)
  BY <1>2, <1>3, <1>11 DEF GivesBack
<1>14. /\ Core(t, K) /\ Reserved(t) \in Nat
       /\ Reserved(y) = Reserved(t) + GivenCredits(r1, r2)
       /\ OnlyRecord(y, t, k, r2)
  <2>1. /\ Core(t, K) /\ Reserved(t) \in Nat
        /\ Reserved(y) = Reserved(t) + GivenCredits(y.requests[k], r2)
    BY <1>10, <1>13, CoreStep
  <2>2. OnlyRecord(y, t, k, r2)
    BY <1>10, <1>13, ReplaceFields
  <2> HIDE DEF t
  <2> QED BY <1>11, <2>1, <2>2
<1>15. GivenCredits(r1, r2) = 0 /\ GivenCredits(r, r1) = Owed(r)
  BY <1>2 DEF GivenCredits, Owed
<1> HIDE DEF t
<1>16. Reserved(s) = Reserved(t) + Owed(r)
  BY <1>7, <1>10, <1>14, <1>15
<1>17. /\ OneRequest(s, t, K, k) /\ t.requests[k] = r2
       /\ t.deadlines = s.deadlines /\ t.available_credits = s.available_credits
  BY <1>0, <1>9, <1>11, <1>14 DEF OneRequest, OnlyRecord
<1> QED BY <1>4, <1>12, <1>14, <1>16, <1>17

-----------------------------------------------------------------------------
(* The invariant of a ledger whose server counts w credits.                *)

TombstoneEntry(k, version) ==
  [key |-> k, kind |-> "Tombstone", version |-> version]

Armed(s, k) ==
  s.requests[k].tombstone =>
    \/ s.unhealthy
    \/ TombstoneEntry(k, s.requests[k].deadline_version) \in s.deadlines

\* The index holds the pending answers, and no async id is shared.
AsyncOK(s, K) ==
  /\ \A k \in K : s.requests[k].response \in AsyncIds =>
                    <<s.requests[k].response, k>> \in s.async_index
  /\ \A p \in s.async_index : p[2] \in K /\ s.requests[p[2]].response = p[1]
  /\ \A j, k \in K : /\ s.requests[j].response = s.requests[k].response
                     /\ s.requests[j].response \in AsyncIds
                     => j = k

Sound(s, K, w) ==
  /\ Core(s, K)
  /\ \A k \in K : RecordOK(s.requests[k])
  /\ \A k \in K : Armed(s, k)
  /\ \A d \in s.deadlines : d.key \in K
  /\ AsyncOK(s, K)
  /\ w \in Nat
  /\ s.unhealthy \/ s.available_credits + Reserved(s) = w

\* What OutcomeStands says of one record.
Stands(r, r2) == /\ r.caller # "Open" => r2.caller = r.caller
                 /\ r.response = "Final" => r2.response = "Final"

AllStand(s, t, K) == \A k \in K : Stands(s.requests[k], t.requests[k])

\* A call for request k that is not an answer.
Quiet(s, t, K, k) ==
  /\ OneRequest(s, t, K, k) /\ CreditsMoved(s, t)
  /\ RecordOK(t.requests[k]) /\ Stands(s.requests[k], t.requests[k])
  /\ t.requests[k].response = s.requests[k].response
  /\ s.deadlines \subseteq t.deadlines
  /\ \A d \in t.deadlines : d \in s.deadlines \/ d.key = k
  /\ t.requests[k].tombstone =>
       \/ /\ s.requests[k].tombstone
          /\ t.requests[k].deadline_version = s.requests[k].deadline_version
       \/ TombstoneEntry(k, t.requests[k].deadline_version) \in t.deadlines

\* A quiet call keeps the ledger sound and every outcome standing.
LEMMA QuietSound ==
  ASSUME NEW K, NEW s, NEW t, NEW w, Sound(s, K, w), NEW k \in K, Quiet(s, t, K, k)
  PROVE  Sound(t, K, w) /\ AllStand(s, t, K)
<1> DEFINE r2 == t.requests[k]
<1>1. /\ Core(s, K) /\ Core(t, K)
      /\ t.requests = [s.requests EXCEPT ![k] = r2]
      /\ t.async_index = s.async_index /\ t.unhealthy = s.unhealthy
  BY ZenonT(40) DEF Sound, Quiet, OneRequest
<1>2. s.requests \in [K -> Request]
  BY <1>1, ZenonT(40) DEF Core, Ledger
<1>3. \A j \in K : j # k => t.requests[j] = s.requests[j]
  BY ZenonT(40), <1>1, <1>2
<1>4. \A j \in K : RecordOK(t.requests[j])
  BY ZenonT(40), <1>3 DEF Sound, Quiet
<1>5. \A j \in K : Armed(t, j)
  BY ZenonT(40), <1>1, <1>3 DEF Sound, Quiet, Armed
<1>6. \A d \in t.deadlines : d.key \in K
  BY ZenonT(40) DEF Sound, Quiet
<1>7. AsyncOK(t, K)
  <2>1. \A j \in K : t.requests[j].response = s.requests[j].response
    BY ZenonT(40), <1>3 DEF Quiet
  <2> QED BY <1>1, <2>1 DEF AsyncOK, Sound
<1>8. w \in Nat /\ (t.unhealthy \/ t.available_credits + Reserved(t) = w)
  BY ZenonT(40), <1>1 DEF Sound, Quiet, CreditsMoved
<1>9. AllStand(s, t, K)
  BY ZenonT(40), <1>3 DEF AllStand, Stands, Quiet
<1> QED BY ZenonT(40), <1>1, <1>4, <1>5, <1>6, <1>7, <1>8, <1>9 DEF Sound

\* A call that only replaces the record.
LEMMA ReplaceQuiet ==
  ASSUME NEW K, NEW s, NEW w, Sound(s, K, w), NEW k, NEW r2,
         GivesBack(s, K, k, r2),
         Unsettled(r2) <=> Unsettled(s.requests[k]),
         RecordOK(r2), Stands(s.requests[k], r2),
         r2.response = s.requests[k].response,
         r2.tombstone => /\ s.requests[k].tombstone
                         /\ r2.deadline_version = s.requests[k].deadline_version
  PROVE  Quiet(s, Replace(s, k, r2), K, k)
<1> DEFINE t == Replace(s, k, r2)
<1>1. Core(s, K)
  BY ZenonT(40) DEF Sound
<1>2. /\ OneRequest(s, t, K, k) /\ t.requests[k] = r2 /\ t.deadlines = s.deadlines
      /\ CreditsMoved(s, t)
  BY <1>1, ReplaceOne
<1> HIDE DEF t
<1> QED BY ZenonT(40), <1>2 DEF Quiet, t

\* The record of an admitted request, with what Sound says of it.
LEMMA SoundRecord ==
  ASSUME NEW K, NEW s, NEW w, Sound(s, K, w), NEW k \in K
  PROVE  /\ Core(s, K) /\ s \in Ledger(K)
         /\ s.requests \in [K -> Request]
         /\ s.requests[k] \in Request /\ RecordOK(s.requests[k])
<1>1. Core(s, K) /\ RecordOK(s.requests[k])
  BY DEF Sound
<1>2. s \in Ledger(K)
  BY ZenonT(40), <1>1 DEF Core
<1> QED BY ZenonT(40), <1>1, <1>2 DEF Ledger

\* A record that only its send progress or its cancel flag tells from the old.
LEMMA SendQuiet ==
  ASSUME NEW K, NEW s, NEW w, Sound(s, K, w), NEW k \in K, NEW r2 \in Request,
         r2.caller = s.requests[k].caller, r2.response = s.requests[k].response,
         r2.tombstone = s.requests[k].tombstone,
         Committed(s.requests[k].send) => Committed(r2.send),
         r2.payload_bytes = s.requests[k].payload_bytes,
         r2.credit_charge = s.requests[k].credit_charge,
         r2.credit_response_seen = s.requests[k].credit_response_seen,
         r2.credit_obligation = s.requests[k].credit_obligation,
         r2.admission_held = s.requests[k].admission_held,
         r2.payload_held => s.requests[k].payload_held,
         r2.deadline_version = s.requests[k].deadline_version
  PROVE  Quiet(s, Replace(s, k, r2), K, k)
<1>1. s.requests[k] \in Request /\ RecordOK(s.requests[k])
  BY ZenonT(40), SoundRecord
<1>2. GivesBack(s, K, k, r2)
  BY ZenonT(40) DEF GivesBack, Unsettled
<1>3. Unsettled(r2) <=> Unsettled(s.requests[k])
  BY ZenonT(40) DEF Unsettled
<1>4. RecordOK(r2)
  BY ZenonT(40), <1>1 DEF RecordOK, Request
<1>5. Stands(s.requests[k], r2)
  BY ZenonT(40) DEF Stands
<1> QED BY ZenonT(40), <1>2, <1>3, <1>4, <1>5, ReplaceQuiet

\* Queued is a quiet call.
LEMMA QueuedQuiet ==
  ASSUME NEW K, NEW s, NEW w, Sound(s, K, w), NEW k \in K
  PROVE  Quiet(s, Queued(s, k), K, k)
<1> DEFINE r == s.requests[k]
           r2 == OnQueued(r)
<1>1. Core(s, K) /\ s \in Ledger(K) /\ r \in Request
  BY ZenonT(40), SoundRecord
<1>2. /\ r2 \in Request
      /\ r2.caller = r.caller /\ r2.response = r.response /\ r2.tombstone = r.tombstone
      /\ Committed(r.send) => Committed(r2.send)
      /\ r2.payload_bytes = r.payload_bytes /\ r2.credit_charge = r.credit_charge
      /\ r2.credit_response_seen = r.credit_response_seen
      /\ r2.credit_obligation = r.credit_obligation
      /\ r2.admission_held = r.admission_held /\ r2.payload_held = r.payload_held
      /\ r2.deadline_version = r.deadline_version
  BY ZenonT(40), <1>1 DEF OnQueued, Request, Committed, SendProgress
<1> HIDE DEF r2
<1>3. Queued(s, k) = Replace(s, k, r2)
  BY <1>1, <1>2, ReplaceKeep DEF Queued, r2
<1> QED BY ZenonT(40), <1>2, <1>3, SendQuiet

\* WriteProgress is a quiet call.
LEMMA WriteProgressQuiet ==
  ASSUME NEW K, NEW s, NEW w, Sound(s, K, w), NEW k \in K
  PROVE  Quiet(s, WriteProgress(s, k), K, k)
<1> DEFINE r == s.requests[k]
           r2 == OnWriteProgress(r)
<1>1. Core(s, K) /\ s \in Ledger(K) /\ r \in Request
  BY SoundRecord
<1>2. /\ r2 \in Request
      /\ r2.caller = r.caller /\ r2.response = r.response /\ r2.tombstone = r.tombstone
      /\ Committed(r.send) => Committed(r2.send)
      /\ r2.payload_bytes = r.payload_bytes /\ r2.credit_charge = r.credit_charge
      /\ r2.credit_response_seen = r.credit_response_seen
      /\ r2.credit_obligation = r.credit_obligation
      /\ r2.admission_held = r.admission_held /\ r2.payload_held = r.payload_held
      /\ r2.deadline_version = r.deadline_version
  BY ZenonT(40), <1>1 DEF OnWriteProgress, Request, Committed, SendProgress
<1> HIDE DEF r2
<1>3. WriteProgress(s, k) = Replace(s, k, r2)
  BY <1>1, <1>2, ReplaceKeep DEF WriteProgress, r2
<1> QED BY <1>2, <1>3, SendQuiet

\* WriteComplete is a quiet call: it gives back the payload, once.
LEMMA WriteCompleteQuiet ==
  ASSUME NEW K, NEW s, NEW w, Sound(s, K, w), NEW k \in K
  PROVE  Quiet(s, WriteComplete(s, k), K, k)
<1> DEFINE r == s.requests[k]
           r1 == OnWriteComplete(r)
           r2 == Unloaded(r1)
           t == Replace(s, k, r1)
<1>1. Core(s, K) /\ s \in Ledger(K) /\ r \in Request
  BY SoundRecord
<1>2. /\ r1 \in Request
      /\ r1.payload_bytes = r.payload_bytes /\ r1.credit_charge = r.credit_charge
      /\ r1.credit_response_seen = r.credit_response_seen
      /\ r1.credit_obligation = r.credit_obligation
      /\ r1.admission_held = r.admission_held /\ r1.payload_held = r.payload_held
  BY ZenonT(40), <1>1 DEF OnWriteComplete, Request, SendProgress
<1>3. /\ r2 \in Request
      /\ r2.caller = r.caller /\ r2.response = r.response /\ r2.tombstone = r.tombstone
      /\ Committed(r.send) => Committed(r2.send)
      /\ r2.payload_bytes = r.payload_bytes /\ r2.credit_charge = r.credit_charge
      /\ r2.credit_response_seen = r.credit_response_seen
      /\ r2.credit_obligation = r.credit_obligation
      /\ r2.admission_held = r.admission_held /\ ~r2.payload_held
      /\ r2.deadline_version = r.deadline_version
  BY ZenonT(60), <1>1 DEF OnWriteComplete, Unloaded, Request, Committed, SendProgress
<1> HIDE DEF r1
<1>4. GivesBack(s, K, k, r1)
  BY <1>2, ZenonT(40) DEF GivesBack, Unsettled
<1>5. /\ t = [s EXCEPT !.requests[k] = r1]
      /\ Core(t, K) /\ OnlyRecord(s, t, k, r1)
  BY <1>1, <1>2, <1>4, ReplaceKeep, CoreStep, ReplaceFields
<1>6. t.requests[k] = r1
  BY <1>5, ZenonT(40) DEF OnlyRecord
<1>7. WriteComplete(s, k) = ReleasePayload(t, k)
  BY <1>5, ZenonT(40) DEF WriteComplete, r1
<1> HIDE DEF t, r2
<1>8. ReleasePayload(t, k) = Replace(t, k, r2)
  BY ZenonT(60), <1>5, <1>6, ReleasePayloadReplaces DEF r2
<1>9. GivesBack(t, K, k, r2)
  BY <1>2, <1>3, <1>6, ZenonT(40) DEF GivesBack, Unsettled
<1>10. Replace(t, k, r2) = Replace(s, k, r2)
  BY <1>1, <1>4, <1>9, ReplaceTwice DEF t
<1> QED BY ZenonT(40), <1>3, <1>7, <1>8, <1>10, SendQuiet

-----------------------------------------------------------------------------
(* The events that end a request.                                          *)

\* Storing a record that owns what the old one owned.
LEMMA StoreRecord ==
  ASSUME NEW K, NEW s, Core(s, K), NEW k \in K, NEW r1 \in Request,
         r1.payload_bytes = s.requests[k].payload_bytes,
         r1.credit_charge = s.requests[k].credit_charge,
         r1.credit_response_seen = s.requests[k].credit_response_seen,
         r1.credit_obligation = s.requests[k].credit_obligation,
         r1.admission_held = s.requests[k].admission_held,
         r1.payload_held = s.requests[k].payload_held
  PROVE  /\ [s EXCEPT !.requests[k] = r1] = Replace(s, k, r1)
         /\ GivesBack(s, K, k, r1)
         /\ OneRequest(s, Replace(s, k, r1), K, k)
         /\ Replace(s, k, r1).requests[k] = r1
         /\ Replace(s, k, r1).deadlines = s.deadlines
         /\ CreditsMoved(s, Replace(s, k, r1))
<1>1. GivesBack(s, K, k, r1)
  BY ZenonT(40) DEF GivesBack, Unsettled
<1>2. Unsettled(r1) <=> Unsettled(s.requests[k])
  BY ZenonT(40) DEF Unsettled
<1>3. s \in Ledger(K)
  BY ZenonT(40) DEF Core
<1>4. [s EXCEPT !.requests[k] = r1] = Replace(s, k, r1)
  BY <1>3, ReplaceKeep
<1> QED BY <1>1, <1>2, <1>4, ReplaceOne

\* recovery_hint is a quiet call: it gives back permit and payload but not
\* the credits, which the server still counts.
LEMMA RecoveryHintQuiet ==
  ASSUME NEW K, NEW s, NEW w, Sound(s, K, w), NEW k \in K
  PROVE  Quiet(s, RecoveryHint(s, k), K, k)
<1> DEFINE r == s.requests[k]
           r1 == OnRecoveryHint(r)
           r2 == Disowned(r1)
           t == Replace(s, k, r1)
<1>1. Core(s, K) /\ s \in Ledger(K) /\ r \in Request /\ RecordOK(r)
  BY ZenonT(40), SoundRecord
<1>2. /\ r1 \in Request
      /\ r1.payload_bytes = r.payload_bytes /\ r1.credit_charge = r.credit_charge
      /\ r1.credit_response_seen = r.credit_response_seen
      /\ r1.credit_obligation = r.credit_obligation
      /\ r1.admission_held = r.admission_held /\ r1.payload_held = r.payload_held
      /\ r1.send = r.send /\ r1.response = r.response /\ ~r1.tombstone
      /\ r1.deadline_version = r.deadline_version
      /\ r1.caller = IF r.caller = "Open" THEN "SessionInvalidated" ELSE r.caller
  BY ZenonT(60), <1>1 DEF OnRecoveryHint, PublishOnce, Request, CallerOutcome, TerminalOutcome
<1> HIDE DEF r1
<1>3. /\ r2 \in Request
      /\ r2.payload_bytes = r.payload_bytes /\ r2.credit_charge = r.credit_charge
      /\ r2.credit_response_seen = r.credit_response_seen
      /\ r2.credit_obligation = r.credit_obligation
      /\ ~r2.admission_held /\ ~r2.payload_held
      /\ r2.send = r.send /\ r2.response = r.response /\ ~r2.tombstone
      /\ r2.deadline_version = r.deadline_version
      /\ r2.caller # "Open" /\ (r.caller # "Open" => r2.caller = r.caller)
  BY ZenonT(60), <1>2 DEF Disowned, Unloaded, Request
<1> HIDE DEF r2
<1>4. /\ [s EXCEPT !.requests[k] = r1] = t /\ GivesBack(s, K, k, r1)
      /\ OneRequest(s, t, K, k) /\ t.requests[k] = r1
  BY <1>1, <1>2, StoreRecord
<1>5. RecoveryHint(s, k) = ReleaseRequestOwnership(t, k)
  BY ZenonT(40), <1>4 DEF RecoveryHint, r1
<1>6. ReleaseRequestOwnership(t, k) = Replace(t, k, r2)
  <2>1. Core(t, K)
    BY ZenonT(40), <1>4 DEF OneRequest
  <2> HIDE DEF t
  <2> QED BY ZenonT(40), <1>4, <2>1, ReleaseOwnershipReplaces DEF r2
<1>7. GivesBack(t, K, k, r2)
  BY ZenonT(40), <1>2, <1>3, <1>4 DEF GivesBack, Unsettled
<1>8. Replace(t, k, r2) = Replace(s, k, r2) /\ GivesBack(s, K, k, r2)
  BY ZenonT(40), <1>1, <1>4, <1>7, ReplaceTwice
<1>9. Unsettled(r2) <=> Unsettled(r)
  BY ZenonT(40), <1>3 DEF Unsettled
<1>10. RecordOK(r2) /\ Stands(r, r2)
  BY ZenonT(40), <1>1, <1>3 DEF RecordOK, Stands, Request
<1>11. Quiet(s, Replace(s, k, r2), K, k)
  BY ZenonT(40), <1>3, <1>8, <1>9, <1>10, ReplaceQuiet
<1> QED BY ZenonT(40), <1>5, <1>6, <1>8, <1>11

\* Publishing the outcome of an unanswered request, then rolling it back
\* (nothing written) or burying it (something written).
LEMMA RollbackQuiet ==
  ASSUME NEW K, NEW s, NEW w, Sound(s, K, w), NEW k \in K, NEW r1 \in Request,
         ~Committed(s.requests[k].send),
         r1.payload_bytes = s.requests[k].payload_bytes,
         r1.credit_charge = s.requests[k].credit_charge,
         r1.credit_response_seen = s.requests[k].credit_response_seen,
         r1.credit_obligation = s.requests[k].credit_obligation,
         r1.admission_held = s.requests[k].admission_held,
         r1.payload_held = s.requests[k].payload_held,
         r1.send = s.requests[k].send, r1.response = s.requests[k].response,
         r1.tombstone = s.requests[k].tombstone,
         r1.deadline_version = s.requests[k].deadline_version,
         r1.caller # "Open",
         s.requests[k].caller # "Open" => r1.caller = s.requests[k].caller
  PROVE  Quiet(s, Rollback([s EXCEPT !.requests[k] = r1], k), K, k)
<1> DEFINE r == s.requests[k]
           t == Replace(s, k, r1)
           u == Rollback(t, k)
<1>1. Core(s, K) /\ s \in Ledger(K) /\ r \in Request /\ RecordOK(r)
      /\ s.requests \in [K -> Request]
  BY ZenonT(40), SoundRecord
<1>2. /\ [s EXCEPT !.requests[k] = r1] = t /\ OneRequest(s, t, K, k)
      /\ t.requests[k] = r1 /\ t.deadlines = s.deadlines /\ CreditsMoved(s, t)
  BY <1>1, StoreRecord
<1>3. Core(t, K) /\ ~t.requests[k].credit_response_seen
  BY ZenonT(40), <1>1, <1>2 DEF OneRequest, RecordOK, Request
<1>4. /\ OneRequest(t, u, K, k) /\ u.requests[k] \in {r1, Stripped(r1)}
      /\ u.deadlines = t.deadlines /\ CreditsMoved(t, u)
  <2> HIDE DEF t
  <2> QED BY <1>2, <1>3, RollbackEffect
<1> HIDE DEF t, u
<1>5. OneRequest(s, u, K, k) /\ CreditsMoved(s, u) /\ u.deadlines = s.deadlines
  BY <1>1, <1>2, <1>4 DEF OneRequest, CreditsMoved
<1>6. ASSUME NEW r2 \in {r1, Stripped(r1)}
      PROVE  /\ RecordOK(r2) /\ Stands(r, r2) /\ r2.response = r.response
             /\ ~r2.tombstone
  <2>1. /\ r2.response = r1.response /\ r2.caller = r1.caller /\ r2.send = r1.send
        /\ r2.tombstone = r1.tombstone /\ r2.deadline_version = r1.deadline_version
        /\ r2.credit_response_seen = r1.credit_response_seen
        /\ r2.admission_held => r1.admission_held
        /\ r2.payload_held => r1.payload_held
        /\ r2.credit_obligation => r1.credit_obligation
    BY ZenonT(60) DEF Stripped, Request
  <2>2. /\ ~r.tombstone /\ ~r.credit_response_seen
        /\ r.response # "Final" => r.deadline_version <= 2
        /\ r.response = "Final" => /\ ~r.admission_held /\ ~r.payload_held
                                   /\ ~r.credit_obligation
    BY ZenonT(40), <1>1 DEF RecordOK
  <2>3. Stands(r, r2) /\ r2.response = r.response /\ ~r2.tombstone
    BY ZenonT(40), <2>1, <2>2 DEF Stands
  <2>4. r2.caller # "Open" /\ ~r2.credit_response_seen
    BY ZenonT(40), <2>1, <2>2
  <2>5. r2.response # "Final" => r2.deadline_version <= 2
    BY ZenonT(40), <2>1, <2>2
  <2>6. r2.response = "Final" => /\ ~r2.admission_held /\ ~r2.payload_held
                                 /\ ~r2.credit_obligation
    BY ZenonT(40), <2>1, <2>2
  <2>7. RecordOK(r2)
    BY ZenonT(40), <2>3, <2>4, <2>5, <2>6 DEF RecordOK
  <2> QED BY ZenonT(40), <2>3, <2>7
<1>7. Quiet(s, u, K, k)
  <2>1. u.requests[k] \in {r1, Stripped(r1)}
    BY ZenonT(40), <1>4
  <2>2. /\ RecordOK(u.requests[k]) /\ Stands(r, u.requests[k])
        /\ u.requests[k].response = r.response /\ ~u.requests[k].tombstone
    BY ZenonT(40), <1>6, <2>1
  <2> QED BY ZenonT(40), <1>5, <2>2 DEF Quiet
<1> QED BY ZenonT(40), <1>2, <1>7 DEF u

\* A committed request whose caller leaves becomes an armed tombstone.
LEMMA BuryQuiet ==
  ASSUME NEW K, NEW s, NEW w, Sound(s, K, w), NEW k \in K, NEW r1 \in Request,
         Committed(s.requests[k].send), s.requests[k].caller = "Open",
         r1.payload_bytes = s.requests[k].payload_bytes,
         r1.credit_charge = s.requests[k].credit_charge,
         r1.credit_response_seen = s.requests[k].credit_response_seen,
         r1.credit_obligation = s.requests[k].credit_obligation,
         r1.admission_held = s.requests[k].admission_held,
         r1.payload_held = s.requests[k].payload_held,
         r1.send = s.requests[k].send, r1.response = s.requests[k].response,
         r1.deadline_version = s.requests[k].deadline_version,
         r1.caller # "Open"
  PROVE  Quiet(s, ScheduleTombstone([s EXCEPT !.requests[k] = r1], k), K, k)
<1> DEFINE r == s.requests[k]
           v == r1.deadline_version + 1
           e == TombstoneEntry(k, v)
           r2 == [r1 EXCEPT !.deadline_version = v]
           t == Replace(s, k, r2)
           u == [t EXCEPT !.deadlines = s.deadlines \cup {e}]
<1>1. Core(s, K) /\ s \in Ledger(K) /\ r \in Request /\ RecordOK(r)
      /\ s.requests \in [K -> Request] /\ s.deadlines \subseteq Deadlines
  BY SoundRecord DEF Ledger
<1>2. v \in 1..3 /\ v <= 2 /\ r.response # "Final" /\ r.admission_held
  BY <1>1 DEF RecordOK, Request
<1>3. e \in Deadlines
  BY ZenonT(40), <1>1, <1>2 DEF Core, Deadlines, TombstoneEntry
<1>4. /\ r2 \in Request
      /\ r2.payload_bytes = r.payload_bytes /\ r2.credit_charge = r.credit_charge
      /\ r2.credit_response_seen = r.credit_response_seen
      /\ r2.credit_obligation = r.credit_obligation
      /\ r2.admission_held = r.admission_held /\ r2.payload_held = r.payload_held
      /\ r2.send = r.send /\ r2.response = r.response /\ r2.caller = r1.caller
      /\ r2.deadline_version = v
  <2>1. v \in 0..3
    BY <1>2
  <2> HIDE DEF v
  <2> QED BY ZenonT(40), <2>1 DEF Request
<1>5. /\ [s EXCEPT !.requests[k] = r2] = t /\ GivesBack(s, K, k, r2)
      /\ OneRequest(s, t, K, k) /\ t.requests[k] = r2
      /\ t.deadlines = s.deadlines /\ CreditsMoved(s, t)
  <2> HIDE DEF r2
  <2> QED BY <1>1, <1>4, StoreRecord
<1>6. ScheduleTombstone([s EXCEPT !.requests[k] = r1], k) = u
  <2> DEFINE x == [s EXCEPT !.requests[k] = r1]
  <2>1. x.requests[k] = r1 /\ x.deadlines = s.deadlines
    BY ZenonT(40), <1>1 DEF Ledger
  <2>2. ScheduleTombstone(x, k) = [x EXCEPT !.requests[k] = r2,
                                            !.deadlines = s.deadlines \cup {e}]
    BY ZenonT(60), <2>1 DEF ScheduleTombstone, TombstoneEntry
  <2>3. u = [[s EXCEPT !.requests[k] = r2] EXCEPT !.deadlines = s.deadlines \cup {e}]
    BY ZenonT(60), <1>5
  <2> HIDE DEF r2, e
  <2>4. [[s EXCEPT !.requests[k] = r1] EXCEPT !.requests[k] = r2,
                                              !.deadlines = s.deadlines \cup {e}]
        = [[s EXCEPT !.requests[k] = r2] EXCEPT !.deadlines = s.deadlines \cup {e}]
    BY ZenonT(60), <1>1 DEF Ledger
  <2> HIDE DEF u
  <2> QED BY ZenonT(40), <2>2, <2>3, <2>4
<1>7. RecordOK(r2) /\ Stands(r, r2)
  BY ZenonT(60), <1>1, <1>2, <1>4 DEF RecordOK, Stands, Request
<1>8. /\ u \in Ledger(K) /\ u.requests = t.requests
      /\ u.next_message_id = t.next_message_id
      /\ u.admitted_operations = t.admitted_operations
      /\ u.retained_payload_bytes = t.retained_payload_bytes
      /\ u.async_index = t.async_index /\ u.unhealthy = t.unhealthy
      /\ u.available_credits = t.available_credits
      /\ u.deadlines = s.deadlines \cup {e}
  <2>1. t \in Ledger(K)
    BY ZenonT(40), <1>5 DEF OneRequest, Core
  <2> HIDE DEF t, e
  <2> QED BY ZenonT(40), <1>1, <1>3, <2>1 DEF Ledger
<1>9. Core(t, K)
  BY ZenonT(40), <1>5 DEF OneRequest
<1> HIDE DEF t, u, r2
<1>10. Core(u, K) /\ Reserved(u) = Reserved(t)
  BY ZenonT(40), <1>8, <1>9, CoreSame
<1>11. OneRequest(s, u, K, k) /\ CreditsMoved(s, u)
  BY ZenonT(40), <1>5, <1>8, <1>10 DEF OneRequest, CreditsMoved
<1>12. e.key = k /\ e = TombstoneEntry(k, u.requests[k].deadline_version)
  BY ZenonT(40), <1>4, <1>5, <1>8 DEF TombstoneEntry
<1> HIDE DEF e
<1> QED BY <1>4, <1>5, <1>6, <1>7, <1>8, <1>11, <1>12 DEF Quiet

\* What cancel and deadline leave of a request whose caller waits.
Settled(s, k, seen, uncommitted) ==
  SettleUnanswered(
    [s EXCEPT !.requests[k] =
       FinishWithoutResponse([s.requests[k] EXCEPT !.cancel_seen = seen], uncommitted)],
    k, Committed(s.requests[k].send))

\* What follows a cancel or a deadline is quiet, written or not.
LEMMA SettleQuiet ==
  ASSUME NEW K, NEW s, NEW w, Sound(s, K, w), NEW k \in K,
         s.requests[k].caller = "Open", NEW seen \in BOOLEAN,
         NEW uncommitted \in {"Cancelled", "TimedOut"}
  PROVE  Quiet(s, Settled(s, k, seen, uncommitted), K, k)
<1> DEFINE r == s.requests[k]
           r0 == [r EXCEPT !.cancel_seen = seen]
           r1 == FinishWithoutResponse(r0, uncommitted)
           x == [s EXCEPT !.requests[k] = r1]
<1>1. r \in Request /\ RecordOK(r)
  BY ZenonT(40), SoundRecord
<1>2. /\ r0 \in Request
      /\ r0.payload_bytes = r.payload_bytes /\ r0.credit_charge = r.credit_charge
      /\ r0.credit_response_seen = r.credit_response_seen
      /\ r0.credit_obligation = r.credit_obligation
      /\ r0.admission_held = r.admission_held /\ r0.payload_held = r.payload_held
      /\ r0.send = r.send /\ r0.response = r.response /\ r0.caller = "Open"
      /\ r0.deadline_version = r.deadline_version /\ r0.tombstone = r.tombstone
  BY ZenonT(40), <1>1 DEF Request
<1> HIDE DEF r0
<1>3. /\ r1 \in Request
      /\ r1.payload_bytes = r.payload_bytes /\ r1.credit_charge = r.credit_charge
      /\ r1.credit_response_seen = r.credit_response_seen
      /\ r1.credit_obligation = r.credit_obligation
      /\ r1.admission_held = r.admission_held /\ r1.payload_held = r.payload_held
      /\ r1.send = r.send /\ r1.response = r.response
      /\ r1.deadline_version = r.deadline_version
      /\ r1.caller # "Open"
      /\ ~Committed(r.send) => r1.tombstone = r.tombstone
  BY ZenonT(60), <1>2 DEF FinishWithoutResponse, PublishOnce, Request, CallerOutcome, TerminalOutcome
<1> HIDE DEF r1
<1>4. CASE Committed(r.send)
  <2>1. Quiet(s, ScheduleTombstone(x, k), K, k)
    BY <1>3, <1>4, BuryQuiet
  <2> QED BY <1>4, <2>1 DEF Settled, SettleUnanswered, r1, r0
<1>5. CASE ~Committed(r.send)
  <2>1. Quiet(s, Rollback(x, k), K, k)
    BY ZenonT(40), <1>3, <1>5, RollbackQuiet
  <2> QED BY ZenonT(40), <1>5, <2>1 DEF Settled, SettleUnanswered, r1, r0
<1> QED BY ZenonT(40), <1>4, <1>5

\* cancel is a quiet call, the first time and every later time.
LEMMA CancelQuiet ==
  ASSUME NEW K, NEW s, NEW w, Sound(s, K, w), NEW k \in K
  PROVE  Quiet(s, Cancel(s, k), K, k)
<1> DEFINE r == s.requests[k]
           seen == [r EXCEPT !.cancel_seen = TRUE]
<1>1. s \in Ledger(K) /\ r \in Request
  BY ZenonT(40), SoundRecord
<1>2. CASE r.cancel_seen \/ r.caller # "Open"
  <2>1. /\ seen \in Request
        /\ seen.caller = r.caller /\ seen.response = r.response
        /\ seen.tombstone = r.tombstone /\ seen.send = r.send
        /\ seen.payload_bytes = r.payload_bytes /\ seen.credit_charge = r.credit_charge
        /\ seen.credit_response_seen = r.credit_response_seen
        /\ seen.credit_obligation = r.credit_obligation
        /\ seen.admission_held = r.admission_held /\ seen.payload_held = r.payload_held
        /\ seen.deadline_version = r.deadline_version
    BY ZenonT(60), <1>1 DEF Request
  <2>2. Cancel(s, k) = [s EXCEPT !.requests[k] = seen]
    BY <1>2, ZenonT(40) DEF Cancel
  <2> HIDE DEF seen
  <2>3. Cancel(s, k) = Replace(s, k, seen)
    BY <1>1, <2>1, <2>2, ReplaceKeep
  <2>4. Committed(r.send) => Committed(seen.send)
    BY <2>1, ZenonT(40)
  <2> QED BY ZenonT(40), <2>1, <2>3, <2>4, SendQuiet
<1>3. CASE ~(r.cancel_seen \/ r.caller # "Open")
  <2>1. Cancel(s, k) = Settled(s, k, TRUE, "Cancelled")
    BY <1>3, ZenonT(40) DEF Cancel, OnCancel, Settled
  <2>2. Quiet(s, Settled(s, k, TRUE, "Cancelled"), K, k)
    BY ZenonT(60), <1>3, SettleQuiet
  <2> QED BY ZenonT(60), <2>1, <2>2
<1> QED BY <1>2, <1>3, ZenonT(40)

\* prepare_failed is a quiet call.
LEMMA PrepareFailedQuiet ==
  ASSUME NEW K, NEW s, NEW w, Sound(s, K, w), NEW k \in K
  PROVE  Quiet(s, PrepareFailed(s, k), K, k)
<1> DEFINE r == s.requests[k]
           r1 == PublishOnce(r, "PreparationFailed")
<1>1. Core(s, K) /\ s \in Ledger(K) /\ r \in Request /\ RecordOK(r)
      /\ s.requests \in [K -> Request]
  BY SoundRecord, ZenonT(40)
<1>2. CASE Committed(r.send)
  <2>1. PrepareFailed(s, k) = s
    BY <1>2, ZenonT(40) DEF PrepareFailed
  <2>2. OneRequest(s, s, K, k) /\ CreditsMoved(s, s)
    BY ZenonT(40), <1>1 DEF OneRequest, CreditsMoved
  <2>3. Quiet(s, s, K, k)
    BY ZenonT(40), <1>1, <2>2 DEF Quiet, Stands
  <2> QED BY <2>1, <2>3, ZenonT(40)
<1>3. CASE ~Committed(r.send)
  <2>1. /\ r1 \in Request
        /\ r1.payload_bytes = r.payload_bytes /\ r1.credit_charge = r.credit_charge
        /\ r1.credit_response_seen = r.credit_response_seen
        /\ r1.credit_obligation = r.credit_obligation
        /\ r1.admission_held = r.admission_held /\ r1.payload_held = r.payload_held
        /\ r1.send = r.send /\ r1.response = r.response
        /\ r1.tombstone = r.tombstone
        /\ r1.deadline_version = r.deadline_version
        /\ r1.caller # "Open" /\ (r.caller # "Open" => r1.caller = r.caller)
    BY <1>1 DEF PublishOnce, Request, CallerOutcome, TerminalOutcome
  <2> HIDE DEF r1
  <2>2. Quiet(s, Rollback([s EXCEPT !.requests[k] = r1], k), K, k)
    BY ZenonT(40), <1>3, <2>1, RollbackQuiet
  <2> QED BY ZenonT(40), <1>3, <2>2 DEF PrepareFailed, r1
<1> QED BY <1>2, <1>3, ZenonT(40)

\* A new deadline set and health flag over the same records.
WithDeadlines(s, D, h) == [s EXCEPT !.deadlines = D, !.unhealthy = h]

\* Dropping a deadline keeps the ledger sound if no live tombstone needs it
\* or the generation is condemned.
LEMMA DeadlinesSound ==
  ASSUME NEW K, NEW s, NEW w, Sound(s, K, w), NEW D, D \subseteq s.deadlines,
         NEW h \in BOOLEAN, s.unhealthy => h,
         \A j \in K : s.requests[j].tombstone =>
           h \/ TombstoneEntry(j, s.requests[j].deadline_version) \in D
  PROVE  /\ Sound(WithDeadlines(s, D, h), K, w)
         /\ WithDeadlines(s, D, h).requests = s.requests
         /\ AllStand(s, WithDeadlines(s, D, h), K)
<1> DEFINE t == WithDeadlines(s, D, h)
<1>1. Core(s, K) /\ s \in Ledger(K) /\ AsyncOK(s, K)
  BY ZenonT(60) DEF Sound, Core
<1>2. /\ t \in Ledger(K) /\ t.requests = s.requests /\ t.deadlines = D
      /\ t.unhealthy = h /\ t.async_index = s.async_index
      /\ t.next_message_id = s.next_message_id
      /\ t.admitted_operations = s.admitted_operations
      /\ t.retained_payload_bytes = s.retained_payload_bytes
      /\ t.available_credits = s.available_credits
  BY ZenonT(60), <1>1 DEF Ledger, WithDeadlines
<1> HIDE DEF t
<1>3. Core(t, K) /\ Reserved(t) = Reserved(s)
  BY ZenonT(40), <1>1, <1>2, CoreSame
<1>4. \A j \in K : RecordOK(t.requests[j]) /\ Armed(t, j)
  BY ZenonT(40), <1>2 DEF Armed, Sound
<1>5. AsyncOK(t, K)
  BY ZenonT(40), <1>1, <1>2 DEF AsyncOK
<1>6. /\ \A d \in t.deadlines : d.key \in K
      /\ w \in Nat /\ (t.unhealthy \/ t.available_credits + Reserved(t) = w)
  BY ZenonT(40), <1>2, <1>3 DEF Sound
<1>7. Sound(t, K, w)
  BY ZenonT(40), <1>3, <1>4, <1>5, <1>6 DEF Sound
<1>8. AllStand(s, t, K)
  BY ZenonT(40), <1>2 DEF AllStand, Stands
<1> QED BY ZenonT(40), <1>2, <1>7, <1>8 DEF t

\* One turn of advance_time keeps the ledger sound, for a stale entry, a
\* caller's deadline and a tombstone's drain deadline.
LEMMA FireDeadlineSound ==
  ASSUME NEW K, NEW s, NEW w, Sound(s, K, w), NEW entry \in s.deadlines
  PROVE  Sound(FireDeadline(s, entry), K, w) /\ AllStand(s, FireDeadline(s, entry), K)
<1> DEFINE k == entry.key
           r == s.requests[k]
           D == s.deadlines \ {entry}
           t == [s EXCEPT !.deadlines = D]
           f == FireDeadline(s, entry)
<1>1. k \in K /\ s \in Ledger(K)
  BY ZenonT(40) DEF Sound, Core
<1>2. entry \in Deadlines /\ s.unhealthy \in BOOLEAN /\ entry.kind \in {"Caller", "Tombstone"}
  BY ZenonT(40), <1>1 DEF Ledger, Deadlines
<1>3. r \in Request /\ RecordOK(r)
  BY ZenonT(40), <1>1, SoundRecord
<1> DEFINE condemn == /\ r.deadline_version = entry.version
                      /\ entry.kind = "Tombstone" /\ r.tombstone
<1>4. \A j \in K : s.requests[j].tombstone /\ ~s.unhealthy /\ ~condemn =>
        TombstoneEntry(j, s.requests[j].deadline_version) \in D
  <2> SUFFICES ASSUME NEW j \in K, s.requests[j].tombstone, ~s.unhealthy, ~condemn
               PROVE  TombstoneEntry(j, s.requests[j].deadline_version) \in D
    BY ZenonT(40)
  <2>1. TombstoneEntry(j, s.requests[j].deadline_version) \in s.deadlines
    BY ZenonT(40) DEF Sound, Armed
  <2>2. TombstoneEntry(j, s.requests[j].deadline_version) # entry
    BY DEF TombstoneEntry
  <2> QED BY ZenonT(40), <2>1, <2>2
<1>5. CASE condemn
  <2>1. FireDeadline(s, entry) = [t EXCEPT !.unhealthy = TRUE]
    BY <1>3, <1>5, ZenonT(40) DEF FireDeadline, RecordOK
  <2>2. [t EXCEPT !.unhealthy = TRUE] = WithDeadlines(s, D, TRUE)
    <3> HIDE DEF D
    <3> QED BY <1>1, ZenonT(40) DEF Ledger, WithDeadlines
  <2>3. D \subseteq s.deadlines
    OBVIOUS
  <2> HIDE DEF D
  <2>4. /\ Sound(WithDeadlines(s, D, TRUE), K, w)
        /\ AllStand(s, WithDeadlines(s, D, TRUE), K)
    BY ZenonT(60), <2>3, DeadlinesSound
  <2> HIDE DEF t
  <2> QED BY ZenonT(60), <2>1, <2>2, <2>4
<1>6. CASE ~condemn
  <2>1. t = WithDeadlines(s, D, s.unhealthy)
    <3> HIDE DEF D
    <3> QED BY ZenonT(60), <1>1 DEF Ledger, WithDeadlines
  <2>2. D \subseteq s.deadlines
    OBVIOUS
  <2>3. \A j \in K : s.requests[j].tombstone =>
           s.unhealthy \/ TombstoneEntry(j, s.requests[j].deadline_version) \in D
    BY ZenonT(40), <1>4, <1>6
  <2>4. Sound(t, K, w) /\ t.requests = s.requests /\ AllStand(s, t, K)
    <3> HIDE DEF D, t
    <3> QED BY <1>2, <2>1, <2>2, <2>3, DeadlinesSound
  <2>5. CASE /\ r.deadline_version = entry.version
             /\ entry.kind = "Caller" /\ r.caller = "Open"
    <3> DEFINE u == Settled(t, k, r.cancel_seen, "TimedOut")
    <3>1. [r EXCEPT !.cancel_seen = r.cancel_seen] = r /\ r.cancel_seen \in BOOLEAN
      BY ZenonT(40), <1>3 DEF Request
    <3>2. FireDeadline(s, entry) = u
      <4>1. FireDeadline(s, entry) =
              SettleUnanswered([t EXCEPT !.requests[k] =
                                  FinishWithoutResponse(r, "TimedOut")],
                               k, Committed(r.send))
        BY ZenonT(40), <2>5 DEF FireDeadline, OnDeadline
      <4> HIDE DEF t
      <4> QED BY ZenonT(40), <2>4, <3>1, <4>1 DEF Settled
    <3>3. Quiet(t, u, K, k)
      <4>1. t.requests[k].caller = "Open"
        BY ZenonT(40), <2>4, <2>5
      <4> HIDE DEF t
      <4> QED BY ZenonT(40), <1>1, <2>4, <3>1, <4>1, SettleQuiet
    <3> HIDE DEF u, t
    <3>4. Sound(u, K, w) /\ AllStand(t, u, K)
      BY ZenonT(40), <1>1, <2>4, <3>3, QuietSound
    <3> QED BY ZenonT(40), <2>4, <3>2, <3>4 DEF AllStand
  <2>6. CASE ~(/\ r.deadline_version = entry.version
               /\ entry.kind = "Caller" /\ r.caller = "Open")
    <3>1. FireDeadline(s, entry) = t
      BY ZenonT(40), <1>2, <1>6, <2>6 DEF FireDeadline
    <3> QED BY ZenonT(40), <2>4, <3>1
  <2> QED BY <2>5, <2>6, ZenonT(40)
<1> QED BY ZenonT(40), <1>5, <1>6
=============================================================================
