------------------------ MODULE SecurePipelineProofs ------------------------
(***************************************************************************)
(* Theorems about SecurePipeline, then about Reseeding and, in the last    *)
(* part, about SequentialDemo, which drives it: for every number of        *)
(* tenants, replicas, requests and seedings, every workload and every      *)
(* fault budget.                                                           *)
(*                                                                         *)
(* Money is counted in single lookups: Units(q, S) has one element for     *)
(* each lookup the requests of S name, when q says what each request is.   *)
(* The rows, the provider's books and the holds are all cardinalities of   *)
(* such sets, so that "the bill stays within what was authorised" becomes  *)
(* an inclusion of sets.                                                   *)
(***************************************************************************)
EXTENDS SequentialDemo, Counting

Units(q, S) ==
  {u \in Requests \X (1..MaxLookups) : u[1] \in S /\ u[2] <= q[u[1]].lookups}

-----------------------------------------------------------------------------
(* Counting lookups *)

(* A set of requests names finitely many lookups. *)
LEMMA UnitsFinite ==
  ASSUME NEW q, NEW S
  PROVE  /\ IsFiniteSet(Units(q, S))
         /\ Cardinality(Units(q, S)) \in Nat
<1>1. IsFiniteSet(Requests) /\ MaxLookups \in Nat
  BY PipelineAssumption
<1>2. IsFiniteSet(1..MaxLookups)
  BY <1>1, FS_Interval
<1>3. IsFiniteSet(Requests \X (1..MaxLookups))
  BY <1>1, <1>2, FS_Product
<1>4. Units(q, S) \in SUBSET (Requests \X (1..MaxLookups))
  BY DEF Units
<1>5. IsFiniteSet(Units(q, S))
  BY <1>3, <1>4, FS_Subset
<1>6. QED
  BY <1>5, FS_CardinalityType

(* One request names as many lookups as its descriptor says. *)
LEMMA UnitsOfOne ==
  ASSUME NEW q \in [Requests -> Workload], NEW r \in Requests
  PROVE  Cardinality(Units(q, {r})) = q[r].lookups
<1> DEFINE n == q[r].lookups
           f == [i \in 1..n |-> <<r, i>>]
<1>1. n \in 0..MaxLookups /\ MaxLookups \in Nat
  BY PipelineAssumption DEF Descriptor
<1>2. n \in Nat
  BY <1>1
<1>3. Units(q, {r}) = {<<r, i>> : i \in 1..n}
  BY <1>1 DEF Units
<1>4. f \in Bijection(1..n, Units(q, {r}))
  <2>1. f \in [1..n -> Units(q, {r})]
    BY <1>3
  <2>2. \A i, j \in 1..n : f[i] = f[j] => i = j
    OBVIOUS
  <2>3. \A u \in Units(q, {r}) : \E i \in 1..n : f[i] = u
    BY <1>3
  <2>4. QED
    BY <2>1, <2>2, <2>3 DEF Bijection, Injection, Surjection, IsInjective
<1>5. ExistsBijection(1..n, Units(q, {r}))
  BY <1>4 DEF ExistsBijection
<1>6. QED
  BY <1>2, <1>5, FS_CountingElements

(* Lookups of disjoint sets of requests add up. *)
LEMMA UnitsAdd ==
  ASSUME NEW q \in [Requests -> Workload], NEW S \in SUBSET Requests,
         NEW r \in Requests, r \notin S
  PROVE  Cardinality(Units(q, S \cup {r})) = Cardinality(Units(q, S)) + q[r].lookups
<1>1. Units(q, S \cup {r}) = Units(q, S) \cup Units(q, {r})
  BY DEF Units
<1>2. Units(q, S) \cap Units(q, {r}) = {}
  BY DEF Units
<1>3. IsFiniteSet(Units(q, S)) /\ IsFiniteSet(Units(q, {r}))
  BY UnitsFinite
<1>4. Cardinality(Units(q, S) \cap Units(q, {r})) = 0
  BY <1>2, FS_EmptySet
<1>5. Cardinality(Units(q, S) \cup Units(q, {r}))
        = Cardinality(Units(q, S)) + Cardinality(Units(q, {r})) - 0
  BY <1>3, <1>4, FS_Union
<1>6. Cardinality(Units(q, S)) \in Nat /\ Cardinality(Units(q, {r})) \in Nat
  BY UnitsFinite
<1>7. Cardinality(Units(q, {r})) = q[r].lookups
  BY UnitsOfOne
<1>8. Cardinality(Units(q, S)) + Cardinality(Units(q, {r})) - 0
        = Cardinality(Units(q, S)) + q[r].lookups
  BY <1>6, <1>7
<1>9. QED
  BY <1>1, <1>5, <1>8

(* More requests never name fewer lookups. *)
LEMMA UnitsMonotone ==
  ASSUME NEW q, NEW S, NEW T, S \subseteq T
  PROVE  Cardinality(Units(q, S)) <= Cardinality(Units(q, T))
<1>1. Units(q, S) \in SUBSET Units(q, T)
  BY DEF Units
<1>2. QED
  BY <1>1, UnitsFinite, FS_Subset

(* Only the descriptors of the requests in the set matter. *)
LEMMA UnitsLocal ==
  ASSUME NEW q1, NEW q2, NEW S, \A r \in S : q1[r] = q2[r]
  PROVE  Units(q1, S) = Units(q2, S)
BY DEF Units

(* No requests, no lookups. *)
LEMMA UnitsNone ==
  ASSUME NEW q
  PROVE  Cardinality(Units(q, {})) = 0
<1>1. Units(q, {}) = {}
  BY DEF Units
<1>2. QED
  BY <1>1, FS_EmptySet

-----------------------------------------------------------------------------
(* What a set of requests is worth *)

W(q, S) == Price * Cardinality(Units(q, S))

(* The worth of a set is a number, and one more request adds its own cents. *)
LEMMA WorthAdd ==
  ASSUME NEW q \in [Requests -> Workload], NEW S \in SUBSET Requests,
         NEW r \in Requests, r \notin S
  PROVE  /\ W(q, S) \in Nat
         /\ Price * q[r].lookups \in Nat
         /\ W(q, S \cup {r}) = W(q, S) + Price * q[r].lookups
<1> DEFINE a == Cardinality(Units(q, S))
           n == q[r].lookups
<1>1. Price \in Nat /\ n \in Nat
  BY PipelineAssumption DEF Descriptor
<1>2. a \in Nat
  BY UnitsFinite
<1>3. Cardinality(Units(q, S \cup {r})) = a + n
  BY UnitsAdd
<1> HIDE DEF a, n
<1>4. /\ Price * a \in Nat
      /\ Price * n \in Nat
      /\ Price * (a + n) = Price * a + Price * n
  BY <1>1, <1>2
<1>5. QED
  BY <1>3, <1>4 DEF W, a, n

(* A larger set is worth no less. *)
LEMMA WorthMonotone ==
  ASSUME NEW q, NEW S, NEW T, S \subseteq T
  PROVE  W(q, S) <= W(q, T)
<1> DEFINE a == Cardinality(Units(q, S))
           b == Cardinality(Units(q, T))
<1>1. a \in Nat /\ b \in Nat /\ a <= b /\ Price \in Nat
  BY UnitsFinite, UnitsMonotone, PipelineAssumption
<1> HIDE DEF a, b
<1>2. Price * a <= Price * b
  BY <1>1
<1>3. QED
  BY <1>2 DEF W, a, b

(* The worth the specification speaks of is this one. *)
LEMMA WorthIsW ==
  /\ \A S : Worth(S) = W(req, S)
BY DEF Worth, Lookups, W, Units

(* What the type invariant says of a request's descriptor. *)
LEMMA DescriptorFacts ==
  ASSUME TypeOK, NEW r \in Requests
  PROVE  /\ Tenant(r) \in Tenants
         /\ req[r].replica \in Replicas
         /\ req[r].lookups \in Nat
         /\ Cents(r) \in Nat
         /\ Cents(r) = Price * req[r].lookups
<1>1. req[r] \in Descriptor
  BY PipelineAssumption DEF TypeOK
<1>2. req[r].lookups \in Nat /\ Price \in Nat
  BY <1>1, PipelineAssumption DEF Descriptor
<1>3. Price * req[r].lookups \in Nat
  BY <1>2
<1>4. QED
  BY <1>1, <1>2, <1>3 DEF Descriptor, Tenant, Cents

-----------------------------------------------------------------------------
(* The inductive invariant *)

(* Where a request stands fixes what the rows may carry for it. *)
Shape ==
  \A r \in Requests :
    /\ attempted[r] <=> call[r] # "unsent"
    /\ hold[r] \in {"none", "released"} => ~attempted[r]
    /\ phase[r] \in {"absent", "arrived"} => hold[r] = "none"
    /\ phase[r] = "reserved" => hold[r] = "held" /\ ~attempted[r]
    /\ phase[r] \in {"calling", "answered", "stored"} => hold[r] = "held" /\ attempted[r]
    /\ phase[r] = "unwinding" => hold[r] = "held" \/ (hold[r] = "charged" /\ attempted[r])

(* The rows stay within their ceilings. *)
Ceilings ==
  /\ \A t \in Tenants : account[t].committed + account[t].reserved <= Allowance
  /\ period.committed + period.reserved <= Cap

(* The provider's books list the billed calls, tenant by tenant. *)
BilledTo(t) == {r \in Requests : call[r] = "billed" /\ Tenant(r) = t}
Books == \A t \in Tenants : ledger[t] = Cardinality(Units(req, BilledTo(t)))

IInv ==
  /\ TypeOK
  /\ Shape
  /\ SlotsMatchCalls
  /\ RowsMatchHolds
  /\ Ceilings
  /\ Books

-----------------------------------------------------------------------------
(* Money: how the sets of holds move, and the rows with them *)

Twice   == {"charged_twice"}
Open    == {"held"}
Charged == {"charged", "charged_twice"}

(* The rows, spelled out by W. *)
MoneyOf(t) ==
  /\ account[t].reserved + W(req, Of(t, Twice)) = W(req, Of(t, Open))
  /\ account[t].committed = W(req, Of(t, Charged)) + W(req, Of(t, Twice))
  /\ account[t].committed = Price * account[t].lookups
MoneyOfAll ==
  /\ period.reserved + W(req, HoldsOf(Twice)) = W(req, HoldsOf(Open))
  /\ period.committed = W(req, HoldsOf(Charged)) + W(req, HoldsOf(Twice))

LEMMA RowsAreMoney ==
  RowsMatchHolds <=> (\A t \in Tenants : MoneyOf(t)) /\ MoneyOfAll
BY WorthIsW DEF RowsMatchHolds, MoneyOf, MoneyOfAll, Twice, Open, Charged

LEMMA RowsAreMoneyNext ==
  RowsMatchHolds' <=> (\A t \in Tenants : MoneyOf(t)') /\ MoneyOfAll'
BY DEF RowsMatchHolds, MoneyOf, MoneyOfAll, Twice, Open, Charged, Worth, Lookups, W, Units

(* Nothing that the rows are compared with changes. *)
LEMMA MoneyStable ==
  ASSUME RowsMatchHolds, UNCHANGED <<storeVars, req>>
  PROVE  RowsMatchHolds'
<1>1. account' = account /\ period' = period /\ hold' = hold /\ req' = req
  BY DEF storeVars
<1>2. \A K : HoldsOf(K)' = HoldsOf(K) /\ \A t : Of(t, K)' = Of(t, K)
  BY <1>1 DEF HoldsOf, Of, Tenant
<1>3. (\A t \in Tenants : MoneyOf(t)) /\ MoneyOfAll
  BY RowsAreMoney
<1>4. \A t \in Tenants : MoneyOf(t)'
  BY <1>1, <1>2, <1>3 DEF MoneyOf
<1>5. MoneyOfAll'
  BY <1>1, <1>2, <1>3 DEF MoneyOfAll
<1>6. QED
  BY <1>4, <1>5, RowsAreMoneyNext

(* A request that arrives holds nothing yet, so no set it could be in moves. *)
LEMMA MoneyArrive ==
  ASSUME TypeOK, Shape, RowsMatchHolds, NEW r \in Requests, Arrive(r)
  PROVE  RowsMatchHolds'
<1>1. hold[r] = "none" /\ hold' = hold /\ account' = account /\ period' = period
  BY DEF Arrive, Shape, storeVars
<1>2. \A x \in Requests : x # r => req'[x] = req[x]
  BY DEF Arrive, TypeOK
<1>3. ASSUME NEW K, "none" \notin K
      PROVE  /\ HoldsOf(K)' = HoldsOf(K)
             /\ W(req', HoldsOf(K)) = W(req, HoldsOf(K))
             /\ \A t : Of(t, K)' = Of(t, K) /\ W(req', Of(t, K)) = W(req, Of(t, K))
  <2>1. HoldsOf(K)' = HoldsOf(K) /\ r \notin HoldsOf(K)
    BY <1>1, <1>3 DEF HoldsOf
  <2>2. \A x \in HoldsOf(K) : req'[x] = req[x]
    BY <1>2, <2>1 DEF HoldsOf
  <2>3. \A t : Of(t, K)' = Of(t, K)
    BY <2>1, <2>2 DEF Of, Tenant
  <2>4. Units(req', HoldsOf(K)) = Units(req, HoldsOf(K))
    BY <2>2, UnitsLocal
  <2>5. ASSUME NEW t
        PROVE  Units(req', Of(t, K)) = Units(req, Of(t, K))
    <3>1. \A x \in Of(t, K) : req'[x] = req[x]
      BY <2>2 DEF Of
    <3>2. QED
      BY <3>1, UnitsLocal
  <2>6. QED
    BY <2>1, <2>3, <2>4, <2>5 DEF W
<1>4. "none" \notin Twice /\ "none" \notin Open /\ "none" \notin Charged
  BY DEF Twice, Open, Charged
<1>5. \A t \in Tenants : MoneyOf(t)
  BY RowsAreMoney
<1>6. MoneyOfAll
  BY RowsAreMoney
<1>7. ASSUME NEW t \in Tenants
      PROVE  MoneyOf(t)'
  <2>1. /\ W(req', Of(t, Twice)') = W(req, Of(t, Twice))
        /\ W(req', Of(t, Open)') = W(req, Of(t, Open))
        /\ W(req', Of(t, Charged)') = W(req, Of(t, Charged))
    BY <1>3, <1>4
  <2>2. QED
    BY <1>1, <1>5, <2>1 DEF MoneyOf
<1>8. /\ W(req', HoldsOf(Twice)') = W(req, HoldsOf(Twice))
      /\ W(req', HoldsOf(Open)') = W(req, HoldsOf(Open))
      /\ W(req', HoldsOf(Charged)') = W(req, HoldsOf(Charged))
  BY <1>3, <1>4
<1>9. MoneyOfAll'
  BY <1>1, <1>6, <1>8 DEF MoneyOfAll
<1>10. QED
  BY <1>7, <1>9, RowsAreMoneyNext

(* The holds of one kind when request r, of tenant t0, moves to hold "new". *)
LEMMA HoldMoves ==
  ASSUME TypeOK, NEW r \in Requests, NEW new, req' = req,
         hold' = [hold EXCEPT ![r] = new], NEW K, NEW t0, t0 = Tenant(r)
  PROVE  /\ new \in K /\ hold[r] \notin K =>
              /\ r \notin HoldsOf(K) /\ r \notin Of(t0, K)
              /\ HoldsOf(K)' = HoldsOf(K) \cup {r}
              /\ Of(t0, K)' = Of(t0, K) \cup {r}
         /\ new \notin K /\ hold[r] \in K =>
              /\ r \notin HoldsOf(K)' /\ r \notin Of(t0, K)'
              /\ HoldsOf(K) = HoldsOf(K)' \cup {r}
              /\ Of(t0, K) = Of(t0, K)' \cup {r}
         /\ (new \in K <=> hold[r] \in K) =>
              /\ HoldsOf(K)' = HoldsOf(K)
              /\ Of(t0, K)' = Of(t0, K)
<1>1. \A x \in Requests : hold'[x] = IF x = r THEN new ELSE hold[x]
  BY DEF TypeOK
<1>2. \A x \in Requests : x \in HoldsOf(K)' <=> IF x = r THEN new \in K ELSE hold[x] \in K
  BY <1>1 DEF HoldsOf
<1>3. \A x : x \in HoldsOf(K) <=> x \in Requests /\ hold[x] \in K
  BY DEF HoldsOf
<1>4. HoldsOf(K)' \subseteq Requests
  BY DEF HoldsOf
<1>5. \A t : /\ Of(t, K) = {x \in HoldsOf(K) : Tenant(x) = t}
             /\ Of(t, K)' = {x \in HoldsOf(K)' : Tenant(x) = t}
  BY DEF Of, Tenant
<1>7. ASSUME HoldsOf(K)' = HoldsOf(K) \cup {r}
      PROVE  Of(t0, K)' = Of(t0, K) \cup {r}
  BY <1>5, <1>7
<1>8. ASSUME HoldsOf(K) = HoldsOf(K)' \cup {r}
      PROVE  Of(t0, K) = Of(t0, K)' \cup {r}
  BY <1>5, <1>8
<1>9. ASSUME HoldsOf(K)' = HoldsOf(K)
      PROVE  Of(t0, K)' = Of(t0, K)
  BY <1>5, <1>9
<1>10. new \in K /\ hold[r] \notin K =>
         r \notin HoldsOf(K) /\ HoldsOf(K)' = HoldsOf(K) \cup {r}
  BY <1>2, <1>3, <1>4
<1>11. new \notin K /\ hold[r] \in K =>
         r \notin HoldsOf(K)' /\ HoldsOf(K) = HoldsOf(K)' \cup {r}
  BY <1>2, <1>3, <1>4
<1>12. (new \in K <=> hold[r] \in K) => HoldsOf(K)' = HoldsOf(K)
  BY <1>2, <1>3, <1>4
<1>13. /\ r \notin HoldsOf(K) => r \notin Of(t0, K)
       /\ r \notin HoldsOf(K)' => r \notin Of(t0, K)'
  BY <1>5
<1>14. QED
  BY <1>7, <1>8, <1>9, <1>10, <1>11, <1>12, <1>13

(* Another tenant's holds do not move. *)
LEMMA OthersUnmoved ==
  ASSUME TypeOK, NEW r \in Requests, NEW new, req' = req,
         hold' = [hold EXCEPT ![r] = new], NEW K, NEW t, t # Tenant(r)
  PROVE  Of(t, K)' = Of(t, K)
<1>1. \A x \in Requests : hold'[x] = IF x = r THEN new ELSE hold[x]
  BY DEF TypeOK
<1>2. QED
  BY <1>1 DEF Of, HoldsOf, Tenant

(* Every set of holds is a set of requests, before and after. *)
LEMMA HoldsAreRequests ==
  /\ \A K : HoldsOf(K) \in SUBSET Requests /\ \A t : Of(t, K) \in SUBSET Requests
  /\ \A K : HoldsOf(K)' \in SUBSET Requests /\ \A t : Of(t, K)' \in SUBSET Requests
BY DEF HoldsOf, Of

(* The worth of any set of requests is a number of cents. *)
LEMMA WorthIsNat ==
  ASSUME NEW q, NEW S
  PROVE  W(q, S) \in Nat
<1>1. Cardinality(Units(q, S)) \in Nat
  BY UnitsFinite
<1>2. Price \in Nat
  BY PipelineAssumption
<1>3. QED
  BY <1>1, <1>2 DEF W

(* In worth: a kind that the request enters gains its cents ... *)
LEMMA WorthEnters ==
  ASSUME TypeOK, NEW r \in Requests, NEW new, req' = req,
         hold' = [hold EXCEPT ![r] = new], NEW K, NEW t0, t0 = Tenant(r),
         new \in K, hold[r] \notin K
  PROVE  /\ W(req, HoldsOf(K)') = W(req, HoldsOf(K)) + Cents(r)
         /\ W(req, Of(t0, K)') = W(req, Of(t0, K)) + Cents(r)
<1>1. /\ r \notin HoldsOf(K) /\ r \notin Of(t0, K)
      /\ HoldsOf(K)' = HoldsOf(K) \cup {r}
      /\ Of(t0, K)' = Of(t0, K) \cup {r}
  <2>1. new \in K /\ hold[r] \notin K =>
          /\ r \notin HoldsOf(K) /\ r \notin Of(t0, K)
          /\ HoldsOf(K)' = HoldsOf(K) \cup {r}
          /\ Of(t0, K)' = Of(t0, K) \cup {r}
    BY HoldMoves, ZenonT(60)
  <2>2. QED
    BY <2>1
<1>2. /\ HoldsOf(K) \in SUBSET Requests /\ HoldsOf(K)' \in SUBSET Requests
      /\ Of(t0, K) \in SUBSET Requests /\ Of(t0, K)' \in SUBSET Requests
  BY HoldsAreRequests
<1>3. req \in [Requests -> Workload] /\ Cents(r) = Price * req[r].lookups
  BY DescriptorFacts DEF TypeOK
<1>4. \A S \in SUBSET Requests : r \notin S => W(req, S \cup {r}) = W(req, S) + Cents(r)
  BY <1>3, WorthAdd
<1>5. QED
  BY <1>1, <1>2, <1>4

(* ... a kind that it leaves loses them ... *)
LEMMA WorthLeaves ==
  ASSUME TypeOK, NEW r \in Requests, NEW new, req' = req,
         hold' = [hold EXCEPT ![r] = new], NEW K, NEW t0, t0 = Tenant(r),
         new \notin K, hold[r] \in K
  PROVE  /\ W(req, HoldsOf(K)) = W(req, HoldsOf(K)') + Cents(r)
         /\ W(req, Of(t0, K)) = W(req, Of(t0, K)') + Cents(r)
<1>1. /\ r \notin HoldsOf(K)' /\ r \notin Of(t0, K)'
      /\ HoldsOf(K) = HoldsOf(K)' \cup {r}
      /\ Of(t0, K) = Of(t0, K)' \cup {r}
  <2>1. new \notin K /\ hold[r] \in K =>
          /\ r \notin HoldsOf(K)' /\ r \notin Of(t0, K)'
          /\ HoldsOf(K) = HoldsOf(K)' \cup {r}
          /\ Of(t0, K) = Of(t0, K)' \cup {r}
    BY HoldMoves, ZenonT(60)
  <2>2. QED
    BY <2>1
<1>2. /\ HoldsOf(K) \in SUBSET Requests /\ HoldsOf(K)' \in SUBSET Requests
      /\ Of(t0, K) \in SUBSET Requests /\ Of(t0, K)' \in SUBSET Requests
  BY HoldsAreRequests
<1>3. req \in [Requests -> Workload] /\ Cents(r) = Price * req[r].lookups
  BY DescriptorFacts DEF TypeOK
<1>4. \A S \in SUBSET Requests : r \notin S => W(req, S \cup {r}) = W(req, S) + Cents(r)
  BY <1>3, WorthAdd
<1>5. QED
  BY <1>1, <1>2, <1>4

(* ... and any other kind keeps its worth. *)
LEMMA WorthStays ==
  ASSUME TypeOK, NEW r \in Requests, NEW new, req' = req,
         hold' = [hold EXCEPT ![r] = new], NEW K, NEW t0, t0 = Tenant(r),
         new \in K <=> hold[r] \in K
  PROVE  /\ W(req, HoldsOf(K)') = W(req, HoldsOf(K))
         /\ W(req, Of(t0, K)') = W(req, Of(t0, K))
<1>1. HoldsOf(K)' = HoldsOf(K) /\ Of(t0, K)' = Of(t0, K)
  BY HoldMoves, ZenonT(30)
<1>2. QED
  BY <1>1


(* A reservation adds the request's cents to what is held, in both rows. *)
LEMMA MoneyReserve ==
  ASSUME TypeOK, RowsMatchHolds, NEW r \in Requests, req' = req,
         hold[r] = "none", ReserveRows(r)
  PROVE  RowsMatchHolds'
<1>1. PICK t0 : t0 = Tenant(r) /\ t0 \in Tenants
  BY DescriptorFacts
<1>2. PICK c : c = Cents(r) /\ c \in Nat
  BY DescriptorFacts
<1>3. PICK new : new = "held" /\ hold' = [hold EXCEPT ![r] = new]
  BY DEF ReserveRows
<1>4. /\ W(req, HoldsOf(Twice)') = W(req, HoldsOf(Twice))
      /\ W(req, Of(t0, Twice)') = W(req, Of(t0, Twice))
  <2>1. new \in Twice <=> hold[r] \in Twice
    BY <1>3 DEF Twice
  <2>2. QED
    BY <1>1, <1>2, <1>3, <2>1, WorthStays, ZenonT(30)
<1>5. /\ W(req, HoldsOf(Open)') = W(req, HoldsOf(Open)) + c
      /\ W(req, Of(t0, Open)') = W(req, Of(t0, Open)) + c
  <2>1. new \in Open /\ hold[r] \notin Open
    BY <1>3 DEF Open
  <2>2. QED
    BY <1>1, <1>2, <1>3, <2>1, WorthEnters, ZenonT(30)
<1>6. /\ W(req, HoldsOf(Charged)') = W(req, HoldsOf(Charged))
      /\ W(req, Of(t0, Charged)') = W(req, Of(t0, Charged))
  <2>1. new \in Charged <=> hold[r] \in Charged
    BY <1>3 DEF Charged
  <2>2. QED
    BY <1>1, <1>2, <1>3, <2>1, WorthStays, ZenonT(30)
<1>7. ASSUME NEW t, t # t0
      PROVE  /\ Of(t, Twice)' = Of(t, Twice)
             /\ Of(t, Open)' = Of(t, Open)
             /\ Of(t, Charged)' = Of(t, Charged)
  BY <1>1, <1>3, <1>7, OthersUnmoved, ZenonT(30)
<1>8. /\ W(req, Of(t0, Twice)) \in Nat /\ W(req, Of(t0, Twice)') \in Nat
      /\ W(req, Of(t0, Open)) \in Nat /\ W(req, Of(t0, Open)') \in Nat
      /\ W(req, Of(t0, Charged)) \in Nat /\ W(req, Of(t0, Charged)') \in Nat
      /\ W(req, HoldsOf(Twice)) \in Nat /\ W(req, HoldsOf(Twice)') \in Nat
      /\ W(req, HoldsOf(Open)) \in Nat /\ W(req, HoldsOf(Open)') \in Nat
      /\ W(req, HoldsOf(Charged)) \in Nat /\ W(req, HoldsOf(Charged)') \in Nat
  BY WorthIsNat, ZenonT(30)
<1>9. (\A t \in Tenants : MoneyOf(t)) /\ MoneyOfAll
  BY RowsAreMoney
<1>10. /\ account'[t0].reserved = account[t0].reserved + c
       /\ account'[t0].committed = account[t0].committed
       /\ account'[t0].lookups = account[t0].lookups
       /\ account[t0].reserved \in Nat /\ account[t0].committed \in Nat
       /\ \A t \in Tenants : t # t0 => account'[t] = account[t]
  BY <1>1, <1>2 DEF ReserveRows, TypeOK
<1>11. /\ period'.reserved = period.reserved + c /\ period'.committed = period.committed
       /\ period.reserved \in Nat /\ period.committed \in Nat
  BY <1>2 DEF ReserveRows, TypeOK
<1>12. ASSUME NEW t \in Tenants
       PROVE  MoneyOf(t)'
  <2>1. CASE t = t0
    <3>1. /\ account'[t0].reserved + W(req, Of(t0, Twice)') = W(req, Of(t0, Open)')
          /\ account'[t0].committed = W(req, Of(t0, Charged)') + W(req, Of(t0, Twice)')
          /\ account'[t0].committed = Price * account'[t0].lookups
      <4>1. /\ account[t0].reserved + W(req, Of(t0, Twice)) = W(req, Of(t0, Open))
            /\ account[t0].committed = W(req, Of(t0, Charged)) + W(req, Of(t0, Twice))
            /\ account[t0].committed = Price * account[t0].lookups
        BY <1>1, <1>9 DEF MoneyOf
      <4>2. account'[t0].reserved + W(req, Of(t0, Twice)') = W(req, Of(t0, Open)')
        BY <1>2, <1>4, <1>5, <1>8, <1>10, <4>1
      <4>3. account'[t0].committed = W(req, Of(t0, Charged)') + W(req, Of(t0, Twice)')
        BY <1>4, <1>6, <1>10, <4>1
      <4>4. account'[t0].committed = Price * account'[t0].lookups
        BY <1>10, <4>1
      <4>5. QED
        BY <4>2, <4>3, <4>4
    <3>2. QED
      BY <2>1, <3>1 DEF MoneyOf
  <2>2. CASE t # t0
    BY <1>7, <1>9, <1>10, <2>2 DEF MoneyOf
  <2>3. QED
    BY <2>1, <2>2
<1>13. MoneyOfAll'
  <2>1. /\ period.reserved + W(req, HoldsOf(Twice)) = W(req, HoldsOf(Open))
        /\ period.committed = W(req, HoldsOf(Charged)) + W(req, HoldsOf(Twice))
    BY <1>9 DEF MoneyOfAll
  <2>2. period'.reserved + W(req, HoldsOf(Twice)') = W(req, HoldsOf(Open)')
    BY <1>2, <1>4, <1>5, <1>8, <1>11, <2>1
  <2>3. period'.committed = W(req, HoldsOf(Charged)') + W(req, HoldsOf(Twice)')
    BY <1>4, <1>6, <1>11, <2>1
  <2>4. QED
    BY <2>2, <2>3 DEF MoneyOfAll
<1>14. QED
  BY <1>12, <1>13, RowsAreMoneyNext

(* A release takes the request's cents out of what is held, in both rows. *)
LEMMA MoneyRelease ==
  ASSUME TypeOK, RowsMatchHolds, NEW r \in Requests, req' = req,
         hold[r] = "held", ReleaseRows(r)
  PROVE  RowsMatchHolds'
<1>1. PICK t0 : t0 = Tenant(r) /\ t0 \in Tenants
  BY DescriptorFacts
<1>2. PICK c : c = Cents(r) /\ c \in Nat
  BY DescriptorFacts
<1>3. PICK new : new = "released" /\ hold' = [hold EXCEPT ![r] = new]
  BY DEF ReleaseRows
<1>4. /\ W(req, HoldsOf(Twice)') = W(req, HoldsOf(Twice))
      /\ W(req, Of(t0, Twice)') = W(req, Of(t0, Twice))
  <2>1. new \in Twice <=> hold[r] \in Twice
    BY <1>3 DEF Twice
  <2>2. QED
    BY <1>1, <1>2, <1>3, <2>1, WorthStays, ZenonT(30)
<1>5. /\ W(req, HoldsOf(Open)) = W(req, HoldsOf(Open)') + c
      /\ W(req, Of(t0, Open)) = W(req, Of(t0, Open)') + c
  <2>1. new \notin Open /\ hold[r] \in Open
    BY <1>3 DEF Open
  <2>2. QED
    BY <1>1, <1>2, <1>3, <2>1, WorthLeaves, ZenonT(30)
<1>6. /\ W(req, HoldsOf(Charged)') = W(req, HoldsOf(Charged))
      /\ W(req, Of(t0, Charged)') = W(req, Of(t0, Charged))
  <2>1. new \in Charged <=> hold[r] \in Charged
    BY <1>3 DEF Charged
  <2>2. QED
    BY <1>1, <1>2, <1>3, <2>1, WorthStays, ZenonT(30)
<1>7. ASSUME NEW t, t # t0
      PROVE  /\ Of(t, Twice)' = Of(t, Twice)
             /\ Of(t, Open)' = Of(t, Open)
             /\ Of(t, Charged)' = Of(t, Charged)
  BY <1>1, <1>3, <1>7, OthersUnmoved, ZenonT(30)
<1>8. /\ W(req, Of(t0, Twice)) \in Nat /\ W(req, Of(t0, Twice)') \in Nat
      /\ W(req, Of(t0, Open)) \in Nat /\ W(req, Of(t0, Open)') \in Nat
      /\ W(req, Of(t0, Charged)) \in Nat /\ W(req, Of(t0, Charged)') \in Nat
      /\ W(req, HoldsOf(Twice)) \in Nat /\ W(req, HoldsOf(Twice)') \in Nat
      /\ W(req, HoldsOf(Open)) \in Nat /\ W(req, HoldsOf(Open)') \in Nat
      /\ W(req, HoldsOf(Charged)) \in Nat /\ W(req, HoldsOf(Charged)') \in Nat
  BY WorthIsNat, ZenonT(30)
<1>9. (\A t \in Tenants : MoneyOf(t)) /\ MoneyOfAll
  BY RowsAreMoney
<1>10. /\ account[t0].reserved = account'[t0].reserved + c /\ account'[t0].reserved \in Nat
       /\ account'[t0].committed = account[t0].committed
       /\ account'[t0].lookups = account[t0].lookups
       /\ account[t0].reserved \in Nat /\ account[t0].committed \in Nat
       /\ \A t \in Tenants : t # t0 => account'[t] = account[t]
  BY <1>1, <1>2 DEF ReleaseRows, CanSettle, TypeOK
<1>11. /\ period.reserved = period'.reserved + c /\ period'.reserved \in Nat /\ period'.committed = period.committed
       /\ period.reserved \in Nat /\ period.committed \in Nat
  BY <1>2 DEF ReleaseRows, CanSettle, TypeOK
<1>12. ASSUME NEW t \in Tenants
       PROVE  MoneyOf(t)'
  <2>1. CASE t = t0
    <3>1. /\ account'[t0].reserved + W(req, Of(t0, Twice)') = W(req, Of(t0, Open)')
          /\ account'[t0].committed = W(req, Of(t0, Charged)') + W(req, Of(t0, Twice)')
          /\ account'[t0].committed = Price * account'[t0].lookups
      <4>1. /\ account[t0].reserved + W(req, Of(t0, Twice)) = W(req, Of(t0, Open))
            /\ account[t0].committed = W(req, Of(t0, Charged)) + W(req, Of(t0, Twice))
            /\ account[t0].committed = Price * account[t0].lookups
        BY <1>1, <1>9 DEF MoneyOf
      <4>2. account'[t0].reserved + W(req, Of(t0, Twice)') = W(req, Of(t0, Open)')
        <5>1. /\ account'[t0].reserved \in Nat /\ account[t0].reserved \in Nat
              /\ account[t0].reserved = account'[t0].reserved + c
          BY <1>10
        <5>2. W(req, Of(t0, Open)) = W(req, Of(t0, Open)') + c
          BY <1>5
        <5>3. W(req, Of(t0, Twice)') = W(req, Of(t0, Twice))
          BY <1>4
        <5>4. W(req, Of(t0, Open)') \in Nat /\ W(req, Of(t0, Twice)) \in Nat
          BY <1>8
        <5>5. QED
          BY <1>2, <4>1, <5>1, <5>2, <5>3, <5>4
      <4>3. account'[t0].committed = W(req, Of(t0, Charged)') + W(req, Of(t0, Twice)')
        BY <1>4, <1>6, <1>10, <4>1
      <4>4. account'[t0].committed = Price * account'[t0].lookups
        BY <1>10, <4>1
      <4>5. QED
        BY <4>2, <4>3, <4>4
    <3>2. QED
      BY <2>1, <3>1 DEF MoneyOf
  <2>2. CASE t # t0
    BY <1>7, <1>9, <1>10, <2>2 DEF MoneyOf
  <2>3. QED
    BY <2>1, <2>2
<1>13. MoneyOfAll'
  <2>1. /\ period.reserved + W(req, HoldsOf(Twice)) = W(req, HoldsOf(Open))
        /\ period.committed = W(req, HoldsOf(Charged)) + W(req, HoldsOf(Twice))
    BY <1>9 DEF MoneyOfAll
  <2>2. period'.reserved + W(req, HoldsOf(Twice)') = W(req, HoldsOf(Open)')
    BY <1>2, <1>4, <1>5, <1>8, <1>11, <2>1
  <2>3. period'.committed = W(req, HoldsOf(Charged)') + W(req, HoldsOf(Twice)')
    BY <1>4, <1>6, <1>11, <2>1
  <2>4. QED
    BY <2>2, <2>3 DEF MoneyOfAll
<1>14. QED
  BY <1>12, <1>13, RowsAreMoneyNext

(* A settle turns the hold of the request into a charge, in both rows. *)
LEMMA MoneyCharge ==
  ASSUME TypeOK, RowsMatchHolds, NEW r \in Requests, req' = req,
         hold[r] = "held", ChargeRows(r)
  PROVE  RowsMatchHolds'
<1>1. PICK t0 : t0 = Tenant(r) /\ t0 \in Tenants
  BY DescriptorFacts
<1>2. PICK c : c = Cents(r) /\ c \in Nat
  BY DescriptorFacts
<1>3. PICK new : new = "charged" /\ hold' = [hold EXCEPT ![r] = new]
  BY DEF ChargeRows
<1>4. /\ W(req, HoldsOf(Twice)') = W(req, HoldsOf(Twice))
      /\ W(req, Of(t0, Twice)') = W(req, Of(t0, Twice))
  <2>1. new \in Twice <=> hold[r] \in Twice
    BY <1>3 DEF Twice
  <2>2. QED
    BY <1>1, <1>2, <1>3, <2>1, WorthStays, ZenonT(30)
<1>5. /\ W(req, HoldsOf(Open)) = W(req, HoldsOf(Open)') + c
      /\ W(req, Of(t0, Open)) = W(req, Of(t0, Open)') + c
  <2>1. new \notin Open /\ hold[r] \in Open
    BY <1>3 DEF Open
  <2>2. QED
    BY <1>1, <1>2, <1>3, <2>1, WorthLeaves, ZenonT(30)
<1>6. /\ W(req, HoldsOf(Charged)') = W(req, HoldsOf(Charged)) + c
      /\ W(req, Of(t0, Charged)') = W(req, Of(t0, Charged)) + c
  <2>1. new \in Charged /\ hold[r] \notin Charged
    BY <1>3 DEF Charged
  <2>2. QED
    BY <1>1, <1>2, <1>3, <2>1, WorthEnters, ZenonT(30)
<1>7. ASSUME NEW t, t # t0
      PROVE  /\ Of(t, Twice)' = Of(t, Twice)
             /\ Of(t, Open)' = Of(t, Open)
             /\ Of(t, Charged)' = Of(t, Charged)
  BY <1>1, <1>3, <1>7, OthersUnmoved, ZenonT(30)
<1>8. /\ W(req, Of(t0, Twice)) \in Nat /\ W(req, Of(t0, Twice)') \in Nat
      /\ W(req, Of(t0, Open)) \in Nat /\ W(req, Of(t0, Open)') \in Nat
      /\ W(req, Of(t0, Charged)) \in Nat /\ W(req, Of(t0, Charged)') \in Nat
      /\ W(req, HoldsOf(Twice)) \in Nat /\ W(req, HoldsOf(Twice)') \in Nat
      /\ W(req, HoldsOf(Open)) \in Nat /\ W(req, HoldsOf(Open)') \in Nat
      /\ W(req, HoldsOf(Charged)) \in Nat /\ W(req, HoldsOf(Charged)') \in Nat
  BY WorthIsNat, ZenonT(30)
<1>9. (\A t \in Tenants : MoneyOf(t)) /\ MoneyOfAll
  BY RowsAreMoney
<1>10. /\ account[t0].reserved = account'[t0].reserved + c /\ account'[t0].reserved \in Nat
       /\ account'[t0].committed = account[t0].committed + c
       /\ account'[t0].lookups = account[t0].lookups + req[r].lookups
       /\ account[t0].reserved \in Nat /\ account[t0].committed \in Nat
       /\ account[t0].lookups \in Nat
       /\ \A t \in Tenants : t # t0 => account'[t] = account[t]
  BY <1>1, <1>2 DEF ChargeRows, CanSettle, TypeOK
<1>11. /\ period.reserved = period'.reserved + c /\ period'.reserved \in Nat
       /\ period'.committed = period.committed + c
       /\ period.reserved \in Nat /\ period.committed \in Nat
  BY <1>2 DEF ChargeRows, CanSettle, TypeOK
<1>12. ASSUME NEW t \in Tenants
       PROVE  MoneyOf(t)'
  <2>1. CASE t = t0
    <3>1. /\ account'[t0].reserved + W(req, Of(t0, Twice)') = W(req, Of(t0, Open)')
          /\ account'[t0].committed = W(req, Of(t0, Charged)') + W(req, Of(t0, Twice)')
          /\ account'[t0].committed = Price * account'[t0].lookups
      <4>1. /\ account[t0].reserved + W(req, Of(t0, Twice)) = W(req, Of(t0, Open))
            /\ account[t0].committed = W(req, Of(t0, Charged)) + W(req, Of(t0, Twice))
            /\ account[t0].committed = Price * account[t0].lookups
        BY <1>1, <1>9 DEF MoneyOf
      <4>2. account'[t0].reserved + W(req, Of(t0, Twice)') = W(req, Of(t0, Open)')
        <5>1. /\ account'[t0].reserved \in Nat /\ account[t0].reserved \in Nat
              /\ account[t0].reserved = account'[t0].reserved + c
          BY <1>10
        <5>2. QED
          BY <1>2, <1>4, <1>5, <1>8, <4>1, <5>1
      <4>3. account'[t0].committed = W(req, Of(t0, Charged)') + W(req, Of(t0, Twice)')
        <5>1. account'[t0].committed = account[t0].committed + c
          BY <1>10
        <5>2. QED
          BY <1>2, <1>4, <1>6, <1>8, <4>1, <5>1
      <4>4. account'[t0].committed = Price * account'[t0].lookups
        <5>1. /\ Price \in Nat /\ req[r].lookups \in Nat
              /\ c = Price * req[r].lookups
          BY <1>2, DescriptorFacts, PipelineAssumption
        <5>2. \A m, n \in Nat : Price * (m + n) = Price * m + Price * n
          BY <5>1
        <5>3. QED
          BY <1>10, <4>1, <5>1, <5>2
      <4>5. QED
        BY <4>2, <4>3, <4>4
    <3>2. QED
      BY <2>1, <3>1 DEF MoneyOf
  <2>2. CASE t # t0
    BY <1>7, <1>9, <1>10, <2>2 DEF MoneyOf
  <2>3. QED
    BY <2>1, <2>2
<1>13. MoneyOfAll'
  <2>1. /\ period.reserved + W(req, HoldsOf(Twice)) = W(req, HoldsOf(Open))
        /\ period.committed = W(req, HoldsOf(Charged)) + W(req, HoldsOf(Twice))
    BY <1>9 DEF MoneyOfAll
  <2>2. period'.reserved + W(req, HoldsOf(Twice)') = W(req, HoldsOf(Open)')
    BY <1>2, <1>4, <1>5, <1>8, <1>11, <2>1
  <2>3. period'.committed = W(req, HoldsOf(Charged)') + W(req, HoldsOf(Twice)')
    BY <1>2, <1>4, <1>6, <1>8, <1>11, <2>1
  <2>4. QED
    BY <2>2, <2>3 DEF MoneyOfAll
<1>14. QED
  BY <1>12, <1>13, RowsAreMoneyNext

(* A settle repeated on a charge takes the cents out of somebody else's hold. *)
LEMMA MoneyChargeAgain ==
  ASSUME TypeOK, RowsMatchHolds, NEW r \in Requests, req' = req,
         hold[r] = "charged", ChargeRows(r)
  PROVE  RowsMatchHolds'
<1>1. PICK t0 : t0 = Tenant(r) /\ t0 \in Tenants
  BY DescriptorFacts
<1>2. PICK c : c = Cents(r) /\ c \in Nat
  BY DescriptorFacts
<1>3. PICK new : new = "charged_twice" /\ hold' = [hold EXCEPT ![r] = new]
  BY DEF ChargeRows
<1>4. /\ W(req, HoldsOf(Twice)') = W(req, HoldsOf(Twice)) + c
      /\ W(req, Of(t0, Twice)') = W(req, Of(t0, Twice)) + c
  <2>1. new \in Twice /\ hold[r] \notin Twice
    BY <1>3 DEF Twice
  <2>2. QED
    BY <1>1, <1>2, <1>3, <2>1, WorthEnters, ZenonT(30)
<1>5. /\ W(req, HoldsOf(Open)') = W(req, HoldsOf(Open))
      /\ W(req, Of(t0, Open)') = W(req, Of(t0, Open))
  <2>1. new \in Open <=> hold[r] \in Open
    BY <1>3 DEF Open
  <2>2. QED
    BY <1>1, <1>2, <1>3, <2>1, WorthStays, ZenonT(30)
<1>6. /\ W(req, HoldsOf(Charged)') = W(req, HoldsOf(Charged))
      /\ W(req, Of(t0, Charged)') = W(req, Of(t0, Charged))
  <2>1. new \in Charged <=> hold[r] \in Charged
    BY <1>3 DEF Charged
  <2>2. QED
    BY <1>1, <1>2, <1>3, <2>1, WorthStays, ZenonT(30)
<1>7. ASSUME NEW t, t # t0
      PROVE  /\ Of(t, Twice)' = Of(t, Twice)
             /\ Of(t, Open)' = Of(t, Open)
             /\ Of(t, Charged)' = Of(t, Charged)
  BY <1>1, <1>3, <1>7, OthersUnmoved, ZenonT(30)
<1>8. /\ W(req, Of(t0, Twice)) \in Nat /\ W(req, Of(t0, Twice)') \in Nat
      /\ W(req, Of(t0, Open)) \in Nat /\ W(req, Of(t0, Open)') \in Nat
      /\ W(req, Of(t0, Charged)) \in Nat /\ W(req, Of(t0, Charged)') \in Nat
      /\ W(req, HoldsOf(Twice)) \in Nat /\ W(req, HoldsOf(Twice)') \in Nat
      /\ W(req, HoldsOf(Open)) \in Nat /\ W(req, HoldsOf(Open)') \in Nat
      /\ W(req, HoldsOf(Charged)) \in Nat /\ W(req, HoldsOf(Charged)') \in Nat
  BY WorthIsNat, ZenonT(30)
<1>9. (\A t \in Tenants : MoneyOf(t)) /\ MoneyOfAll
  BY RowsAreMoney
<1>10. /\ account[t0].reserved = account'[t0].reserved + c /\ account'[t0].reserved \in Nat
       /\ account'[t0].committed = account[t0].committed + c
       /\ account'[t0].lookups = account[t0].lookups + req[r].lookups
       /\ account[t0].reserved \in Nat /\ account[t0].committed \in Nat
       /\ account[t0].lookups \in Nat
       /\ \A t \in Tenants : t # t0 => account'[t] = account[t]
  BY <1>1, <1>2 DEF ChargeRows, CanSettle, TypeOK
<1>11. /\ period.reserved = period'.reserved + c /\ period'.reserved \in Nat
       /\ period'.committed = period.committed + c
       /\ period.reserved \in Nat /\ period.committed \in Nat
  BY <1>2 DEF ChargeRows, CanSettle, TypeOK
<1>12. ASSUME NEW t \in Tenants
       PROVE  MoneyOf(t)'
  <2>1. CASE t = t0
    <3>1. /\ account'[t0].reserved + W(req, Of(t0, Twice)') = W(req, Of(t0, Open)')
          /\ account'[t0].committed = W(req, Of(t0, Charged)') + W(req, Of(t0, Twice)')
          /\ account'[t0].committed = Price * account'[t0].lookups
      <4>1. /\ account[t0].reserved + W(req, Of(t0, Twice)) = W(req, Of(t0, Open))
            /\ account[t0].committed = W(req, Of(t0, Charged)) + W(req, Of(t0, Twice))
            /\ account[t0].committed = Price * account[t0].lookups
        BY <1>1, <1>9 DEF MoneyOf
      <4>2. account'[t0].reserved + W(req, Of(t0, Twice)') = W(req, Of(t0, Open)')
        <5>1. /\ account'[t0].reserved \in Nat /\ account[t0].reserved \in Nat
              /\ account[t0].reserved = account'[t0].reserved + c
          BY <1>10
        <5>2. QED
          BY <1>2, <1>4, <1>5, <1>8, <4>1, <5>1
      <4>3. account'[t0].committed = W(req, Of(t0, Charged)') + W(req, Of(t0, Twice)')
        <5>1. account'[t0].committed = account[t0].committed + c
          BY <1>10
        <5>2. QED
          BY <1>2, <1>4, <1>6, <1>8, <4>1, <5>1
      <4>4. account'[t0].committed = Price * account'[t0].lookups
        <5>1. /\ Price \in Nat /\ req[r].lookups \in Nat
              /\ c = Price * req[r].lookups
          BY <1>2, DescriptorFacts, PipelineAssumption
        <5>2. \A m, n \in Nat : Price * (m + n) = Price * m + Price * n
          BY <5>1
        <5>3. QED
          BY <1>10, <4>1, <5>1, <5>2
      <4>5. QED
        BY <4>2, <4>3, <4>4
    <3>2. QED
      BY <2>1, <3>1 DEF MoneyOf
  <2>2. CASE t # t0
    BY <1>7, <1>9, <1>10, <2>2 DEF MoneyOf
  <2>3. QED
    BY <2>1, <2>2
<1>13. MoneyOfAll'
  <2>1. /\ period.reserved + W(req, HoldsOf(Twice)) = W(req, HoldsOf(Open))
        /\ period.committed = W(req, HoldsOf(Charged)) + W(req, HoldsOf(Twice))
    BY <1>9 DEF MoneyOfAll
  <2>2. period'.reserved + W(req, HoldsOf(Twice)') = W(req, HoldsOf(Open)')
    BY <1>2, <1>4, <1>5, <1>8, <1>11, <2>1
  <2>3. period'.committed = W(req, HoldsOf(Charged)') + W(req, HoldsOf(Twice)')
    BY <1>2, <1>4, <1>6, <1>8, <1>11, <2>1
  <2>4. QED
    BY <2>2, <2>3 DEF MoneyOfAll
<1>14. QED
  BY <1>12, <1>13, RowsAreMoneyNext

-----------------------------------------------------------------------------
(* What each step does to the rows and to the slots *)

(* The rows change in four ways only: nothing that they depend on moves, a
   request arrives, reserves, is charged, or gives its hold back.           *)
LEMMA RowSteps ==
  ASSUME TypeOK, Next
  PROVE  \/ UNCHANGED <<storeVars, req>>
         \/ \E r \in Requests : Arrive(r)
         \/ \E r \in Requests :
              /\ req' = req
              /\ \/ /\ ReserveRows(r) /\ TenantHasRoom(r) /\ PeriodHasRoom(r)
                    /\ phase[r] = "arrived"
                 \/ /\ ChargeRows(r)
                    /\ phase[r] = "stored" \/ (phase[r] = "unwinding" /\ attempted[r])
                 \/ /\ ReleaseRows(r)
                    /\ phase[r] = "unwinding" /\ ~attempted[r]
<1> DEFINE Kept == UNCHANGED <<storeVars, req>>
<1>1. ASSUME NEW r \in Requests, Reserve(r) \/ ReserveAckLost(r)
      PROVE  /\ req' = req /\ ReserveRows(r) /\ TenantHasRoom(r) /\ PeriodHasRoom(r)
             /\ phase[r] = "arrived"
  BY <1>1 DEF Reserve, ReserveAckLost
<1>2. ASSUME NEW r \in Requests, Settle(r) \/ SettleAckLost(r)
      PROVE  req' = req /\ ChargeRows(r) /\ phase[r] = "stored"
  BY <1>2 DEF Settle, SettleAckLost
<1>3. ASSUME NEW r \in Requests, Unwind(r) \/ UnwindAckLost(r)
      PROVE  /\ req' = req /\ phase[r] = "unwinding"
             /\ \/ ChargeRows(r) /\ attempted[r]
                \/ ReleaseRows(r) /\ ~attempted[r]
  BY <1>3 DEF Unwind, UnwindAckLost, UnwindRows
<1>4. ASSUME NEW r \in Requests, RefuseBatch(r) \/ RefuseAllowance(r) \/ ReserveFails(r)
      PROVE  Kept
  BY <1>4 DEF RefuseBatch, RefuseAllowance, ReserveFails
<1>5. ASSUME NEW r \in Requests, Calling(r)
      PROVE  Kept
  BY <1>5 DEF Calling, TakeSlot, Shed, Answer, CallFails, Deadline, LeaveSlot
<1>6. ASSUME NEW r \in Requests, Upsert(r) \/ SettleViolatesCheck(r) \/ CompletionFails(r)
      PROVE  Kept
  BY <1>6 DEF Upsert, SettleViolatesCheck, CompletionFails
<1>7. ASSUME NEW r \in Requests, InsertJob(r) \/ InsertJobFails(r)
      PROVE  Kept
  BY <1>7 DEF InsertJob, InsertJobFails
<1>8. ASSUME NEW r \in Requests, UnwindFails(r) \/ UnwindViolatesCheck(r)
      PROVE  Kept
  BY <1>8 DEF UnwindFails, UnwindViolatesCheck
<1>9. ASSUME NEW r \in Requests, Provider(r)
      PROVE  Kept
  BY <1>9 DEF Provider, AcceptCall, RefuseCall, ChargeCall, ProviderMoves
<1>10. ASSUME NEW p \in Replicas, Crash(p)
      PROVE  Kept
  BY <1>10 DEF Crash
<1>11. CASE Rest
  BY <1>11 DEF Rest, vars, storeVars
<1>12. QED
  BY <1>1, <1>2, <1>3, <1>4, <1>5, <1>6, <1>7, <1>8, <1>9, <1>10, <1>11
     DEF Next, Handler, Fault, Admission, Completion, Unwinding

(* The guards and Shape say in which state of its hold a request does each. *)
LEMMA StoreSteps ==
  ASSUME TypeOK, Shape, Next
  PROVE  \/ UNCHANGED <<storeVars, req>>
         \/ \E r \in Requests : Arrive(r)
         \/ \E r \in Requests :
              /\ req' = req
              /\ \/ /\ ReserveRows(r) /\ TenantHasRoom(r) /\ PeriodHasRoom(r)
                    /\ hold[r] = "none"
                 \/ ChargeRows(r) /\ hold[r] \in {"held", "charged"}
                 \/ ReleaseRows(r) /\ hold[r] = "held"
BY RowSteps DEF Shape

(* What the rows say stays what the requests did. *)
LEMMA MoneyStep ==
  ASSUME TypeOK, Shape, RowsMatchHolds, Next
  PROVE  RowsMatchHolds'
<1>1. CASE UNCHANGED <<storeVars, req>>
  BY <1>1, MoneyStable
<1>2. ASSUME NEW r \in Requests, Arrive(r)
      PROVE  RowsMatchHolds'
  BY <1>2, MoneyArrive
<1>3. ASSUME NEW r \in Requests, req' = req, ReserveRows(r), hold[r] = "none"
      PROVE  RowsMatchHolds'
  BY <1>3, MoneyReserve
<1>4. ASSUME NEW r \in Requests, req' = req, ChargeRows(r), hold[r] \in {"held", "charged"}
      PROVE  RowsMatchHolds'
  <2>1. CASE hold[r] = "held"
    BY <1>4, <2>1, MoneyCharge
  <2>2. CASE hold[r] = "charged"
    BY <1>4, <2>2, MoneyChargeAgain
  <2>3. QED
    BY <1>4, <2>1, <2>2
<1>5. ASSUME NEW r \in Requests, req' = req, ReleaseRows(r), hold[r] = "held"
      PROVE  RowsMatchHolds'
  BY <1>5, MoneyRelease
<1>6. QED
  BY <1>1, <1>2, <1>3, <1>4, <1>5, StoreSteps

(* The rows stay well-typed, and within their ceilings: a reservation has been
   checked against both, and a settle or a release adds to neither sum.      *)
LEMMA RowsStep ==
  ASSUME TypeOK, Ceilings, Next
  PROVE  /\ account' \in [Tenants -> [reserved: Nat, committed: Nat, lookups: Nat]]
         /\ period' \in [reserved: Nat, committed: Nat]
         /\ hold' \in [Requests -> Holds]
         /\ Ceilings'
<1> DEFINE Goal ==
      /\ account' \in [Tenants -> [reserved: Nat, committed: Nat, lookups: Nat]]
      /\ period' \in [reserved: Nat, committed: Nat]
      /\ hold' \in [Requests -> Holds]
      /\ Ceilings'
<1>1. ASSUME account' = account, period' = period, hold' = hold
      PROVE  Goal
  BY <1>1 DEF TypeOK, Ceilings
<1>2. ASSUME NEW r \in Requests, ReserveRows(r), TenantHasRoom(r), PeriodHasRoom(r)
      PROVE  Goal
  <2>1. /\ Tenant(r) \in Tenants /\ Cents(r) \in Nat
        /\ Allowance \in Nat /\ Cap \in Nat
    BY DescriptorFacts, PipelineAssumption
  <2>2. hold' \in [Requests -> Holds]
    BY <1>2 DEF ReserveRows, TypeOK, Holds
  <2>3. account' \in [Tenants -> [reserved: Nat, committed: Nat, lookups: Nat]]
    BY <1>2, <2>1 DEF ReserveRows, TypeOK
  <2>4. period' \in [reserved: Nat, committed: Nat]
    BY <1>2, <2>1 DEF ReserveRows, TypeOK
  <2>5. \A t \in Tenants : account'[t].committed + account'[t].reserved <= Allowance
    BY <1>2, <2>1 DEF ReserveRows, TenantHasRoom, TypeOK, Ceilings
  <2>6. period'.committed + period'.reserved <= Cap
    BY <1>2, <2>1 DEF ReserveRows, PeriodHasRoom, TypeOK, Ceilings
  <2>7. QED
    BY <2>2, <2>3, <2>4, <2>5, <2>6 DEF Ceilings
<1>3. ASSUME NEW r \in Requests, ChargeRows(r)
      PROVE  Goal
  <2>1. /\ Tenant(r) \in Tenants /\ Cents(r) \in Nat /\ req[r].lookups \in Nat
        /\ Allowance \in Nat /\ Cap \in Nat
    BY DescriptorFacts, PipelineAssumption
  <2>2. hold' \in [Requests -> Holds]
    BY <1>3 DEF ChargeRows, TypeOK, Holds
  <2>3. account' \in [Tenants -> [reserved: Nat, committed: Nat, lookups: Nat]]
    BY <1>3, <2>1 DEF ChargeRows, CanSettle, TypeOK
  <2>4. period' \in [reserved: Nat, committed: Nat]
    BY <1>3, <2>1 DEF ChargeRows, CanSettle, TypeOK
  <2>5. \A t \in Tenants : account'[t].committed + account'[t].reserved <= Allowance
    BY <1>3, <2>1 DEF ChargeRows, CanSettle, TypeOK, Ceilings
  <2>6. period'.committed + period'.reserved <= Cap
    BY <1>3, <2>1 DEF ChargeRows, CanSettle, TypeOK, Ceilings
  <2>7. QED
    BY <2>2, <2>3, <2>4, <2>5, <2>6 DEF Ceilings
<1>4. ASSUME NEW r \in Requests, ReleaseRows(r)
      PROVE  Goal
  <2>1. /\ Tenant(r) \in Tenants /\ Cents(r) \in Nat
        /\ Allowance \in Nat /\ Cap \in Nat
    BY DescriptorFacts, PipelineAssumption
  <2>2. hold' \in [Requests -> Holds]
    BY <1>4 DEF ReleaseRows, TypeOK, Holds
  <2>3. account' \in [Tenants -> [reserved: Nat, committed: Nat, lookups: Nat]]
    BY <1>4, <2>1 DEF ReleaseRows, CanSettle, TypeOK
  <2>4. period' \in [reserved: Nat, committed: Nat]
    BY <1>4, <2>1 DEF ReleaseRows, CanSettle, TypeOK
  <2>5. \A t \in Tenants : account'[t].committed + account'[t].reserved <= Allowance
    BY <1>4, <2>1 DEF ReleaseRows, CanSettle, TypeOK, Ceilings
  <2>6. period'.committed + period'.reserved <= Cap
    BY <1>4, <2>1 DEF ReleaseRows, CanSettle, TypeOK, Ceilings
  <2>7. QED
    BY <2>2, <2>3, <2>4, <2>5, <2>6 DEF Ceilings
<1>5. QED
  BY <1>1, <1>2, <1>3, <1>4, RowSteps DEF storeVars, Arrive

(* The handlers' own variables stay well-typed. A slot is given back only by a
   caller, so the limiter never goes below zero.                            *)
LEMMA HandlersTyped ==
  ASSUME TypeOK, SlotsMatchCalls, Next
  PROVE  /\ jobs' \subseteq Requests
         /\ req' \in [Requests -> Workload]
         /\ phase' \in [Requests -> Phases]
         /\ attempted' \in [Requests -> BOOLEAN]
         /\ call' \in [Requests -> Calls]
         /\ errors' \in 0..MaxErrors /\ lostAcks' \in 0..MaxLostAcks
         /\ crashes' \in 0..MaxCrashes
<1> DEFINE Goal ==
      /\ jobs' \subseteq Requests
      /\ req' \in [Requests -> Workload]
      /\ phase' \in [Requests -> Phases]
      /\ attempted' \in [Requests -> BOOLEAN]
      /\ call' \in [Requests -> Calls]
      /\ errors' \in 0..MaxErrors /\ lostAcks' \in 0..MaxLostAcks
      /\ crashes' \in 0..MaxCrashes
<1>0. MaxErrors \in Nat /\ MaxLostAcks \in Nat /\ MaxCrashes \in Nat
  BY PipelineAssumption
<1>1. ASSUME NEW r \in Requests, Arrive(r)
      PROVE  Goal
  BY <1>1, <1>0 DEF Arrive, TypeOK, Phases, InPerform, Outcomes, Calls, Goto,
     storeVars, providerVars, faultVars
<1>2. ASSUME NEW r \in Requests, RefuseBatch(r) \/ RefuseAllowance(r) \/ ReserveFails(r)
      PROVE  Goal
  BY <1>2, <1>0 DEF RefuseBatch, RefuseAllowance, ReserveFails, DatabaseError, TypeOK, Phases, InPerform, Outcomes, Calls, Goto,
     storeVars, providerVars, faultVars
<1>3. ASSUME NEW r \in Requests, Reserve(r) \/ ReserveAckLost(r)
      PROVE  Goal
  BY <1>3, <1>0 DEF Reserve, ReserveAckLost, LostAck, TypeOK, Phases, InPerform, Outcomes, Calls, Goto,
     storeVars, providerVars, faultVars
<1>4. ASSUME NEW r \in Requests, TakeSlot(r)
      PROVE  Goal
  BY <1>4, <1>0 DEF TakeSlot, TypeOK, Phases, InPerform, Outcomes, Calls, Goto,
     storeVars, providerVars, faultVars
<1>5. ASSUME NEW r \in Requests, Shed(r)
      PROVE  Goal
  BY <1>5, <1>0 DEF Shed, TypeOK, Phases, InPerform, Outcomes, Calls, Goto,
     storeVars, providerVars, faultVars
<1>6. ASSUME NEW r \in Requests, NEW place \in {"answered", "unwinding"}, LeaveSlot(r, place)
      PROVE  Goal
  BY <1>6, <1>0 DEF LeaveSlot, TypeOK, Phases, InPerform, Outcomes, Calls, Goto,
     storeVars, providerVars, faultVars
<1>7. ASSUME NEW r \in Requests, Upsert(r) \/ SettleViolatesCheck(r) \/ CompletionFails(r)
      PROVE  Goal
  BY <1>7, <1>0 DEF Upsert, SettleViolatesCheck, CompletionFails, DatabaseError, TypeOK, Phases, InPerform, Outcomes, Calls, Goto,
     storeVars, providerVars, faultVars
<1>8. ASSUME NEW r \in Requests, Settle(r) \/ SettleAckLost(r)
      PROVE  Goal
  BY <1>8, <1>0 DEF Settle, SettleAckLost, LostAck, TypeOK, Phases, InPerform, Outcomes, Calls, Goto,
     storeVars, providerVars, faultVars
<1>9. ASSUME NEW r \in Requests, InsertJob(r) \/ InsertJobFails(r)
      PROVE  Goal
  BY <1>9, <1>0 DEF InsertJob, InsertJobFails, DatabaseError, LostAck, TypeOK, Phases, InPerform, Outcomes, Calls, Goto,
     storeVars, providerVars, faultVars
<1>10. ASSUME NEW r \in Requests, Unwind(r) \/ UnwindAckLost(r)
      PROVE  Goal
  BY <1>10, <1>0 DEF Unwind, UnwindAckLost, LostAck, TypeOK, Phases, InPerform, Outcomes, Calls, Goto,
     storeVars, providerVars, faultVars
<1>11. ASSUME NEW r \in Requests, UnwindFails(r) \/ UnwindViolatesCheck(r)
      PROVE  Goal
  BY <1>11, <1>0 DEF UnwindFails, UnwindViolatesCheck, DatabaseError, TypeOK, Phases, InPerform, Outcomes, Calls, Goto,
     storeVars, providerVars, faultVars
<1>12. ASSUME NEW r \in Requests, Provider(r)
      PROVE  Goal
  BY <1>12, <1>0 DEF Provider, AcceptCall, RefuseCall, ChargeCall, ProviderMoves, TypeOK, Phases, InPerform, Outcomes, Calls, Goto,
     storeVars, providerVars, faultVars
<1>13. ASSUME NEW p \in Replicas, Crash(p)
      PROVE  Goal
  BY <1>13, <1>0 DEF Crash, TypeOK, Phases, Outcomes, storeVars, providerVars
<1>14. CASE Rest
  BY <1>14 DEF Rest, vars, TypeOK
<1>15. QED
  BY <1>1, <1>2, <1>3, <1>4, <1>5, <1>6, <1>7, <1>8, <1>9, <1>10, <1>11, <1>12, <1>13, <1>14
     DEF Next, Handler, Fault, Admission, Calling, Answer, CallFails, Deadline,
         Completion, Unwinding

(* Where a request stands keeps deciding what the rows carry for it. *)
LEMMA ShapeStep ==
  ASSUME TypeOK, Shape, Next
  PROVE  Shape'
<1>1. ASSUME NEW r \in Requests, Arrive(r)
      PROVE  Shape'
  BY <1>1 DEF Arrive, Shape, TypeOK, Goto, storeVars, providerVars, faultVars,
     ReserveRows, ChargeRows, ReleaseRows
<1>2. ASSUME NEW r \in Requests, RefuseBatch(r) \/ RefuseAllowance(r) \/ ReserveFails(r)
      PROVE  Shape'
  BY <1>2 DEF RefuseBatch, RefuseAllowance, ReserveFails, DatabaseError, Shape, TypeOK, Goto, storeVars, providerVars, faultVars,
     ReserveRows, ChargeRows, ReleaseRows
<1>3. ASSUME NEW r \in Requests, Reserve(r) \/ ReserveAckLost(r)
      PROVE  Shape'
  BY <1>3 DEF Reserve, ReserveAckLost, LostAck, Shape, TypeOK, Goto, storeVars, providerVars, faultVars,
     ReserveRows, ChargeRows, ReleaseRows
<1>4. ASSUME NEW r \in Requests, TakeSlot(r)
      PROVE  Shape'
  BY <1>4 DEF TakeSlot, Shape, TypeOK, Goto, storeVars, providerVars, faultVars,
     ReserveRows, ChargeRows, ReleaseRows
<1>5. ASSUME NEW r \in Requests, Shed(r)
      PROVE  Shape'
  BY <1>5 DEF Shed, Shape, TypeOK, Goto, storeVars, providerVars, faultVars,
     ReserveRows, ChargeRows, ReleaseRows
<1>6. ASSUME NEW r \in Requests, NEW place \in {"answered", "unwinding"}, LeaveSlot(r, place)
      PROVE  Shape'
  BY <1>6 DEF LeaveSlot, Shape, TypeOK, Goto, storeVars, providerVars, faultVars,
     ReserveRows, ChargeRows, ReleaseRows
<1>7. ASSUME NEW r \in Requests, Upsert(r) \/ SettleViolatesCheck(r) \/ CompletionFails(r)
      PROVE  Shape'
  BY <1>7 DEF Upsert, SettleViolatesCheck, CompletionFails, DatabaseError, Shape, TypeOK, Goto, storeVars, providerVars, faultVars,
     ReserveRows, ChargeRows, ReleaseRows
<1>8. ASSUME NEW r \in Requests, Settle(r) \/ SettleAckLost(r)
      PROVE  Shape'
  BY <1>8 DEF Settle, SettleAckLost, LostAck, Shape, TypeOK, Goto, storeVars, providerVars, faultVars,
     ReserveRows, ChargeRows, ReleaseRows
<1>9. ASSUME NEW r \in Requests, InsertJob(r) \/ InsertJobFails(r)
      PROVE  Shape'
  BY <1>9 DEF InsertJob, InsertJobFails, DatabaseError, LostAck, Shape, TypeOK, Goto, storeVars, providerVars, faultVars,
     ReserveRows, ChargeRows, ReleaseRows
<1>10. ASSUME NEW r \in Requests, Unwind(r) \/ UnwindAckLost(r)
      PROVE  Shape'
  BY <1>10 DEF Unwind, UnwindAckLost, LostAck, Shape, TypeOK, Goto, storeVars, providerVars, faultVars,
     ReserveRows, ChargeRows, ReleaseRows, UnwindRows
<1>11. ASSUME NEW r \in Requests, UnwindFails(r) \/ UnwindViolatesCheck(r)
      PROVE  Shape'
  BY <1>11 DEF UnwindFails, UnwindViolatesCheck, DatabaseError, Shape, TypeOK, Goto, storeVars, providerVars, faultVars,
     ReserveRows, ChargeRows, ReleaseRows
<1>12. ASSUME NEW r \in Requests, Provider(r)
      PROVE  Shape'
  BY <1>12 DEF Provider, AcceptCall, RefuseCall, ChargeCall, ProviderMoves, Shape, TypeOK, Goto, storeVars, providerVars, faultVars,
     ReserveRows, ChargeRows, ReleaseRows
<1>13. ASSUME NEW p \in Replicas, Crash(p)
      PROVE  Shape'
  BY <1>13 DEF Crash, Shape, TypeOK, storeVars, providerVars
<1>14. CASE Rest
  BY <1>14 DEF Rest, vars, Shape
<1>15. QED
  BY <1>1, <1>2, <1>3, <1>4, <1>5, <1>6, <1>7, <1>8, <1>9, <1>10, <1>11, <1>12, <1>13, <1>14
     DEF Next, Handler, Fault, Admission, Calling, Answer, CallFails, Deadline,
         Completion, Unwinding

(* The handlers of replica p that wait for the provider. *)
Callers(p) == {r \in Requests : phase[r] = "calling" /\ req[r].replica = p}

(* Only taking a slot, leaving one and a crash touch a limiter or its callers. *)
LEMMA SlotSteps ==
  ASSUME TypeOK, Next
  PROVE  \/ inFlight' = inFlight /\ \A p \in Replicas : Callers(p)' = Callers(p)
         \/ \E r \in Requests : TakeSlot(r)
         \/ \E r \in Requests, place \in {"answered", "unwinding"} : LeaveSlot(r, place)
         \/ \E p \in Replicas : Crash(p)
<1> DEFINE Kept == inFlight' = inFlight /\ \A p \in Replicas : Callers(p)' = Callers(p)
<1>1. ASSUME NEW r \in Requests, Arrive(r)
      PROVE  Kept
  BY <1>1 DEF Arrive, Goto, TypeOK, Callers
<1>2. ASSUME NEW r \in Requests, RefuseBatch(r) \/ RefuseAllowance(r) \/ ReserveFails(r)
      PROVE  Kept
  BY <1>2 DEF RefuseBatch, RefuseAllowance, ReserveFails, DatabaseError, Goto, TypeOK, Callers
<1>3. ASSUME NEW r \in Requests, Reserve(r) \/ ReserveAckLost(r)
      PROVE  Kept
  BY <1>3 DEF Reserve, ReserveAckLost, LostAck, Goto, TypeOK, Callers
<1>4. ASSUME NEW r \in Requests, Shed(r)
      PROVE  Kept
  BY <1>4 DEF Shed, Goto, TypeOK, Callers
<1>5. ASSUME NEW r \in Requests, Upsert(r) \/ SettleViolatesCheck(r) \/ CompletionFails(r)
      PROVE  Kept
  BY <1>5 DEF Upsert, SettleViolatesCheck, CompletionFails, DatabaseError, Goto, TypeOK, Callers
<1>6. ASSUME NEW r \in Requests, Settle(r) \/ SettleAckLost(r)
      PROVE  Kept
  BY <1>6 DEF Settle, SettleAckLost, LostAck, Goto, TypeOK, Callers
<1>7. ASSUME NEW r \in Requests, InsertJob(r) \/ InsertJobFails(r)
      PROVE  Kept
  BY <1>7 DEF InsertJob, InsertJobFails, DatabaseError, LostAck, Goto, TypeOK, Callers
<1>8. ASSUME NEW r \in Requests, Unwind(r) \/ UnwindAckLost(r)
      PROVE  Kept
  BY <1>8 DEF Unwind, UnwindAckLost, LostAck, Goto, TypeOK, Callers
<1>9. ASSUME NEW r \in Requests, UnwindFails(r) \/ UnwindViolatesCheck(r)
      PROVE  Kept
  BY <1>9 DEF UnwindFails, UnwindViolatesCheck, DatabaseError, Goto, TypeOK, Callers
<1>10. ASSUME NEW r \in Requests, Provider(r)
      PROVE  Kept
  BY <1>10 DEF Provider, AcceptCall, RefuseCall, ChargeCall, ProviderMoves, Goto, TypeOK, Callers
<1>11. CASE Rest
  BY <1>11 DEF Rest, vars, Callers
<1>12. QED
  BY <1>1, <1>2, <1>3, <1>4, <1>5, <1>6, <1>7, <1>8, <1>9, <1>10, <1>11
     DEF Next, Handler, Fault, Admission, Calling, Answer, CallFails, Deadline,
         Completion, Unwinding

(* A limiter keeps counting its callers, and never passes its cap. *)
LEMMA SlotsStep ==
  ASSUME TypeOK, SlotsMatchCalls, Next
  PROVE  SlotsMatchCalls' /\ inFlight' \in [Replicas -> Nat]
<1> DEFINE Goal == SlotsMatchCalls' /\ inFlight' \in [Replicas -> Nat]
<1>1. \A p \in Replicas :
        /\ inFlight[p] = Cardinality(Callers(p))
        /\ inFlight[p] <= MaxInFlight
        /\ inFlight[p] \in Nat
  BY DEF SlotsMatchCalls, Callers, TypeOK
<1>2. \A p : IsFiniteSet(Callers(p)) /\ Cardinality(Callers(p)) \in Nat
  <2>1. \A p : Callers(p) \in SUBSET Requests
    BY DEF Callers
  <2>2. IsFiniteSet(Requests)
    BY PipelineAssumption
  <2>3. QED
    BY <2>1, <2>2, FS_Subset, FS_CardinalityType
<1>3. MaxInFlight \in Nat
  BY PipelineAssumption
<1>4. ASSUME inFlight' \in [Replicas -> Nat],
             \A p \in Replicas : inFlight'[p] = Cardinality(Callers(p)') /\ inFlight'[p] <= MaxInFlight
      PROVE  Goal
  BY <1>4 DEF SlotsMatchCalls, Callers
<1>5. CASE inFlight' = inFlight /\ \A p \in Replicas : Callers(p)' = Callers(p)
  <2>1. inFlight' \in [Replicas -> Nat]
    BY <1>5 DEF TypeOK
  <2>2. QED
    BY <1>1, <1>4, <1>5, <2>1
<1>6. ASSUME NEW r \in Requests, TakeSlot(r)
      PROVE  Goal
  <2>1. PICK p0 : p0 = req[r].replica /\ p0 \in Replicas
    BY DescriptorFacts
  <2>2. /\ r \notin Callers(p0)
        /\ Callers(p0)' = Callers(p0) \cup {r}
        /\ \A p \in Replicas : p # p0 => Callers(p)' = Callers(p)
    BY <1>6, <2>1 DEF TakeSlot, Goto, TypeOK, Callers
  <2>3. Cardinality(Callers(p0) \cup {r}) = Cardinality(Callers(p0)) + 1
    BY <1>2, <2>2, FS_AddElement
  <2>4. /\ inFlight' \in [Replicas -> Nat]
        /\ inFlight'[p0] = inFlight[p0] + 1 /\ inFlight[p0] < MaxInFlight
        /\ \A p \in Replicas : p # p0 => inFlight'[p] = inFlight[p]
    BY <1>6, <2>1 DEF TakeSlot, TypeOK
  <2>5. inFlight'[p0] = Cardinality(Callers(p0)') /\ inFlight'[p0] <= MaxInFlight
    BY <1>1, <1>3, <2>1, <2>2, <2>3, <2>4
  <2>6. QED
    BY <1>1, <1>4, <2>2, <2>4, <2>5
<1>7. ASSUME NEW r \in Requests, NEW place \in {"answered", "unwinding"}, LeaveSlot(r, place)
      PROVE  Goal
  <2>1. PICK p0 : p0 = req[r].replica /\ p0 \in Replicas
    BY DescriptorFacts
  <2>2. /\ r \in Callers(p0)
        /\ Callers(p0)' = Callers(p0) \ {r}
        /\ \A p \in Replicas : p # p0 => Callers(p)' = Callers(p)
    BY <1>7, <2>1 DEF LeaveSlot, Goto, TypeOK, Callers
  <2>3. Cardinality(Callers(p0) \ {r}) = Cardinality(Callers(p0)) - 1
    BY <1>2, <2>2, FS_RemoveElement
  <2>4. Cardinality(Callers(p0)) # 0
    BY <1>2, <2>2, FS_EmptySet
  <2>5. /\ inFlight'[p0] = inFlight[p0] - 1
        /\ \A p \in Replicas : p # p0 => inFlight'[p] = inFlight[p]
        /\ inFlight' = [inFlight EXCEPT ![p0] = inFlight[p0] - 1]
    BY <1>7, <2>1 DEF LeaveSlot, TypeOK
  <2>6. inFlight[p0] - 1 \in Nat
    BY <1>1, <1>2, <2>1, <2>4
  <2>7. inFlight' \in [Replicas -> Nat]
    BY <2>1, <2>5, <2>6 DEF TypeOK
  <2>8. inFlight'[p0] = Cardinality(Callers(p0)') /\ inFlight'[p0] <= MaxInFlight
    BY <1>1, <1>3, <2>1, <2>2, <2>3, <2>5, <2>6
  <2>9. QED
    BY <1>1, <1>4, <2>2, <2>5, <2>7, <2>8
<1>8. ASSUME NEW p0 \in Replicas, Crash(p0)
      PROVE  Goal
  <2>1. /\ inFlight' \in [Replicas -> Nat]
        /\ inFlight'[p0] = 0
        /\ \A p \in Replicas : p # p0 => inFlight'[p] = inFlight[p]
    BY <1>8 DEF Crash, TypeOK
  <2>2. /\ Callers(p0)' = {}
        /\ \A p \in Replicas : p # p0 => Callers(p)' = Callers(p)
    BY <1>8 DEF Crash, Active, Outcomes, Callers
  <2>3. Cardinality(Callers(p0)') = 0
    BY <2>2, FS_EmptySet
  <2>4. QED
    BY <1>1, <1>3, <1>4, <2>1, <2>2, <2>3
<1>9. QED
  BY <1>5, <1>6, <1>7, <1>8, SlotSteps

(* Only an arrival and the provider's charge touch what the books depend on. *)
LEMMA BillSteps ==
  ASSUME TypeOK, Shape, Next
  PROVE  \/ req' = req /\ ledger' = ledger /\ \A t : BilledTo(t)' = BilledTo(t)
         \/ \E r \in Requests : Arrive(r) \/ ChargeCall(r)
<1> DEFINE Kept == req' = req /\ ledger' = ledger /\ \A t : BilledTo(t)' = BilledTo(t)
<1>1. ASSUME NEW r \in Requests, RefuseBatch(r) \/ RefuseAllowance(r) \/ ReserveFails(r)
      PROVE  Kept
  BY <1>1 DEF RefuseBatch, RefuseAllowance, ReserveFails, DatabaseError, providerVars, BilledTo, Tenant, TypeOK, Shape
<1>2. ASSUME NEW r \in Requests, Reserve(r) \/ ReserveAckLost(r)
      PROVE  Kept
  BY <1>2 DEF Reserve, ReserveAckLost, LostAck, providerVars, BilledTo, Tenant, TypeOK, Shape
<1>3. ASSUME NEW r \in Requests, TakeSlot(r)
      PROVE  Kept
  BY <1>3 DEF TakeSlot, providerVars, BilledTo, Tenant, TypeOK, Shape
<1>4. ASSUME NEW r \in Requests, Shed(r)
      PROVE  Kept
  BY <1>4 DEF Shed, providerVars, BilledTo, Tenant, TypeOK, Shape
<1>5. ASSUME NEW r \in Requests, NEW place \in {"answered", "unwinding"}, LeaveSlot(r, place)
      PROVE  Kept
  BY <1>5 DEF LeaveSlot, providerVars, BilledTo, Tenant, TypeOK, Shape
<1>6. ASSUME NEW r \in Requests, Upsert(r) \/ SettleViolatesCheck(r) \/ CompletionFails(r)
      PROVE  Kept
  BY <1>6 DEF Upsert, SettleViolatesCheck, CompletionFails, DatabaseError, providerVars, BilledTo, Tenant, TypeOK, Shape
<1>7. ASSUME NEW r \in Requests, Settle(r) \/ SettleAckLost(r)
      PROVE  Kept
  BY <1>7 DEF Settle, SettleAckLost, LostAck, providerVars, BilledTo, Tenant, TypeOK, Shape
<1>8. ASSUME NEW r \in Requests, InsertJob(r) \/ InsertJobFails(r)
      PROVE  Kept
  BY <1>8 DEF InsertJob, InsertJobFails, DatabaseError, LostAck, providerVars, BilledTo, Tenant, TypeOK, Shape
<1>9. ASSUME NEW r \in Requests, Unwind(r) \/ UnwindAckLost(r)
      PROVE  Kept
  BY <1>9 DEF Unwind, UnwindAckLost, LostAck, providerVars, BilledTo, Tenant, TypeOK, Shape
<1>10. ASSUME NEW r \in Requests, UnwindFails(r) \/ UnwindViolatesCheck(r)
      PROVE  Kept
  BY <1>10 DEF UnwindFails, UnwindViolatesCheck, DatabaseError, providerVars, BilledTo, Tenant, TypeOK, Shape
<1>11. ASSUME NEW r \in Requests, AcceptCall(r) \/ RefuseCall(r)
      PROVE  Kept
  BY <1>11 DEF AcceptCall, RefuseCall, ProviderMoves, providerVars, BilledTo, Tenant, TypeOK, Shape
<1>12. ASSUME NEW p \in Replicas, Crash(p)
      PROVE  Kept
  BY <1>12 DEF Crash, providerVars, BilledTo, Tenant
<1>13. CASE Rest
  BY <1>13 DEF Rest, vars, BilledTo, Tenant
<1>14. QED
  BY <1>1, <1>2, <1>3, <1>4, <1>5, <1>6, <1>7, <1>8, <1>9, <1>10, <1>11, <1>12, <1>13
     DEF Next, Handler, Provider, Fault, Admission, Calling, Answer, CallFails,
         Deadline, Completion, Unwinding

(* The books keep listing the billed calls. *)
LEMMA BooksStep ==
  ASSUME TypeOK, Shape, Books, Next
  PROVE  Books' /\ ledger' \in [Tenants -> Nat]
<1> DEFINE Listed == \A t \in Tenants : ledger'[t] = Cardinality(Units(req', BilledTo(t)'))
<1>1. CASE req' = req /\ ledger' = ledger /\ \A t : BilledTo(t)' = BilledTo(t)
  <2>1. Listed
    BY <1>1 DEF Books
  <2>2. QED
    BY <1>1, <2>1 DEF Books, BilledTo, Tenant, Units, TypeOK
<1>2. ASSUME NEW r \in Requests, Arrive(r)
      PROVE  Books' /\ ledger' \in [Tenants -> Nat]
  <2>1. call' = call /\ ledger' = ledger /\ call[r] = "unsent"
    BY <1>2 DEF Arrive, Shape, providerVars, TypeOK
  <2>2. \A x \in Requests : x # r => req'[x] = req[x]
    BY <1>2 DEF Arrive, TypeOK
  <2>3. \A t : BilledTo(t)' = BilledTo(t)
    BY <2>1, <2>2 DEF BilledTo, Tenant
  <2>4. ASSUME NEW t \in Tenants
        PROVE  Units(req', BilledTo(t)) = Units(req, BilledTo(t))
    <3>1. \A x \in BilledTo(t) : req'[x] = req[x]
      BY <2>1, <2>2 DEF BilledTo
    <3>2. QED
      BY <3>1, UnitsLocal
  <2>5. Listed
    BY <2>1, <2>3, <2>4 DEF Books
  <2>6. QED
    BY <2>1, <2>5 DEF Books, BilledTo, Tenant, Units, TypeOK
<1>3. ASSUME NEW r \in Requests, ChargeCall(r)
      PROVE  Books' /\ ledger' \in [Tenants -> Nat]
  <2>1. PICK t0 : t0 = Tenant(r) /\ t0 \in Tenants
    BY DescriptorFacts
  <2>2. req' = req /\ req \in [Requests -> Workload] /\ req[r].lookups \in Nat
    BY <1>3, DescriptorFacts DEF ChargeCall, ProviderMoves, TypeOK
  <2>3. /\ r \notin BilledTo(t0)
        /\ BilledTo(t0)' = BilledTo(t0) \cup {r}
        /\ \A t \in Tenants : t # t0 => BilledTo(t)' = BilledTo(t)
    BY <1>3, <2>1 DEF ChargeCall, ProviderMoves, BilledTo, Tenant, TypeOK
  <2>4. /\ ledger' \in [Tenants -> Nat]
        /\ ledger'[t0] = ledger[t0] + req[r].lookups
        /\ \A t \in Tenants : t # t0 => ledger'[t] = ledger[t]
    BY <1>3, <2>1, <2>2 DEF ChargeCall, TypeOK
  <2>5. Cardinality(Units(req, BilledTo(t0) \cup {r}))
          = Cardinality(Units(req, BilledTo(t0))) + req[r].lookups
    <3>1. BilledTo(t0) \in SUBSET Requests
      BY DEF BilledTo
    <3>2. QED
      BY <2>2, <2>3, <3>1, UnitsAdd
  <2>6. ledger'[t0] = Cardinality(Units(req', BilledTo(t0)'))
    <3>1. ledger[t0] = Cardinality(Units(req, BilledTo(t0)))
      BY <2>1 DEF Books
    <3>2. QED
      BY <2>2, <2>3, <2>4, <2>5, <3>1
  <2>7. Listed
    BY <2>2, <2>3, <2>4, <2>6 DEF Books
  <2>8. QED
    BY <2>4, <2>7 DEF Books, BilledTo, Tenant, Units
<1>4. QED
  BY <1>1, <1>2, <1>3, BillSteps

-----------------------------------------------------------------------------
(* The invariant is inductive *)

(* Before anything has arrived. *)
LEMMA InvariantInit ==
  ASSUME Init
  PROVE  IInv
<1>1. TypeOK
  <2>1. req \in [Requests -> Workload]
    BY PipelineAssumption DEF Init
  <2>2. MaxErrors \in Nat /\ MaxLostAcks \in Nat /\ MaxCrashes \in Nat
    BY PipelineAssumption
  <2>3. QED
    BY <2>1, <2>2 DEF Init, TypeOK, Phases, Calls, Holds
<1>2. Shape
  BY DEF Init, Shape
<1>3. SlotsMatchCalls
  <2>1. \A p : {r \in Requests : phase[r] = "calling" /\ req[r].replica = p} = {}
    BY DEF Init
  <2>2. QED
    BY <2>1, FS_EmptySet, PipelineAssumption DEF Init, SlotsMatchCalls
<1>4. RowsMatchHolds
  <2>1. \A K : "none" \notin K => HoldsOf(K) = {} /\ \A t : Of(t, K) = {}
    BY DEF Init, HoldsOf, Of
  <2>2. W(req, {}) = 0
    <3>1. Cardinality(Units(req, {})) = 0
      BY UnitsNone
    <3>2. QED
      BY <3>1, PipelineAssumption DEF W
  <2>3. /\ HoldsOf(Twice) = {} /\ HoldsOf(Open) = {} /\ HoldsOf(Charged) = {}
        /\ \A t : Of(t, Twice) = {} /\ Of(t, Open) = {} /\ Of(t, Charged) = {}
    BY <2>1 DEF Twice, Open, Charged
  <2>4. Price * 0 = 0
    BY PipelineAssumption
  <2>5. ASSUME NEW t \in Tenants
        PROVE  MoneyOf(t)
    <3>1. account[t].reserved = 0 /\ account[t].committed = 0 /\ account[t].lookups = 0
      BY DEF Init
    <3>2. /\ W(req, Of(t, Twice)) = 0 /\ W(req, Of(t, Open)) = 0
          /\ W(req, Of(t, Charged)) = 0
      BY <2>2, <2>3
    <3>3. QED
      BY <2>4, <3>1, <3>2 DEF MoneyOf
  <2>6. MoneyOfAll
    BY <2>2, <2>3 DEF Init, MoneyOfAll
  <2>7. QED
    BY <2>5, <2>6, RowsAreMoney
<1>5. Ceilings
  BY PipelineAssumption DEF Init, Ceilings
<1>6. Books
  <2>1. \A t : BilledTo(t) = {}
    BY DEF Init, BilledTo
  <2>2. QED
    BY <2>1, UnitsNone DEF Init, Books
<1>7. QED
  BY <1>1, <1>2, <1>3, <1>4, <1>5, <1>6 DEF IInv

(* A step that leaves the rows, the requests and the bill alone keeps it. *)
LEMMA InvariantAside ==
  ASSUME IInv,
         UNCHANGED <<account, period, hold, call, ledger, jobs, inFlight, req, phase, attempted,
                     lostAcks>>,
         errors' \in 0..MaxErrors, crashes' \in 0..MaxCrashes
  PROVE  IInv'
<1>1. TypeOK /\ Shape /\ SlotsMatchCalls /\ RowsMatchHolds /\ Ceilings /\ Books
  BY DEF IInv
<1>2. TypeOK' /\ Shape' /\ SlotsMatchCalls' /\ Ceilings'
  BY <1>1 DEF TypeOK, Shape, SlotsMatchCalls, Ceilings
<1>3. RowsMatchHolds'
  BY <1>1, MoneyStable DEF storeVars
<1>4. Books'
  <2>1. \A t : BilledTo(t)' = BilledTo(t)
    BY DEF BilledTo, Tenant
  <2>2. \A t \in Tenants : ledger'[t] = Cardinality(Units(req', BilledTo(t)'))
    BY <1>1, <2>1 DEF Books
  <2>3. QED
    BY <2>2 DEF Books, BilledTo, Tenant, Units
<1>5. QED
  BY <1>2, <1>3, <1>4 DEF IInv

(* Every step keeps it. *)
LEMMA InvariantStep ==
  ASSUME IInv, [Next]_vars
  PROVE  IInv'
<1>1. TypeOK /\ Shape /\ SlotsMatchCalls /\ RowsMatchHolds /\ Ceilings /\ Books
  BY DEF IInv
<1>2. CASE UNCHANGED vars
  BY <1>1, <1>2, InvariantAside DEF vars, TypeOK
<1>3. CASE Next
  <2>1. TypeOK'
    BY <1>1, <1>3, RowsStep, HandlersTyped, SlotsStep, BooksStep DEF TypeOK
  <2>2. Shape'
    BY <1>1, <1>3, ShapeStep
  <2>3. SlotsMatchCalls'
    BY <1>1, <1>3, SlotsStep
  <2>4. RowsMatchHolds'
    BY <1>1, <1>3, MoneyStep
  <2>5. Ceilings'
    BY <1>1, <1>3, RowsStep
  <2>6. Books'
    BY <1>1, <1>3, BooksStep
  <2>7. QED
    BY <2>1, <2>2, <2>3, <2>4, <2>5, <2>6 DEF IInv
<1>4. QED
  BY <1>2, <1>3

(* Every behaviour keeps it. *)
THEOREM Invariant == Spec => []IInv
<1>1. Init => IInv
  BY InvariantInit
<1>2. IInv /\ [Next]_vars => IInv'
  BY InvariantStep
<1>3. QED
  BY <1>1, <1>2, PTL DEF Spec

-----------------------------------------------------------------------------
(* What follows from it *)

(* Two sets of requests together are worth at most the sum. *)
LEMMA WorthUnion ==
  ASSUME NEW q, NEW S, NEW T
  PROVE  W(q, S \cup T) <= W(q, S) + W(q, T)
<1> DEFINE a == Cardinality(Units(q, S))
           b == Cardinality(Units(q, T))
           c == Cardinality(Units(q, S) \cap Units(q, T))
           u == Cardinality(Units(q, S \cup T))
<1>1. Units(q, S \cup T) = Units(q, S) \cup Units(q, T)
  BY DEF Units
<1>2. IsFiniteSet(Units(q, S)) /\ IsFiniteSet(Units(q, T))
  BY UnitsFinite
<1>3. Cardinality(Units(q, S) \cup Units(q, T)) = a + b - c
  BY <1>2, FS_Union
<1>4. a \in Nat /\ b \in Nat /\ u \in Nat /\ Price \in Nat
  BY UnitsFinite, PipelineAssumption
<1>5. c \in Nat
  <2>1. IsFiniteSet(Units(q, S) \cap Units(q, T))
    BY <1>2, FS_Intersection
  <2>2. QED
    BY <2>1, FS_CardinalityType
<1>6. u = a + b - c
  BY <1>1, <1>3
<1> HIDE DEF a, b, c, u
<1>7. u <= a + b
  BY <1>4, <1>5, <1>6
<1>8. Price * u <= Price * (a + b) /\ Price * (a + b) = Price * a + Price * b
  BY <1>4, <1>7
<1>9. /\ Price * u \in Nat /\ Price * a \in Nat /\ Price * b \in Nat
  BY <1>4
<1>10. Price * u <= Price * a + Price * b
  BY <1>8
<1>11. QED
  BY <1>10 DEF W, a, b, u

(* Whatever the provider billed is still held or charged in the rows. *)
LEMMA BillIsBacked ==
  ASSUME IInv, NEW t \in Tenants
  PROVE  Price * ledger[t] <= account[t].committed + account[t].reserved
<1>1. TypeOK /\ Shape /\ RowsMatchHolds /\ Books
  BY DEF IInv
<1>2. BilledTo(t) \subseteq Of(t, Open) \cup Of(t, Charged)
  BY <1>1 DEF TypeOK, Shape, Holds, BilledTo, Of, HoldsOf, Open, Charged
<1>3. Price * ledger[t] = W(req, BilledTo(t))
  BY <1>1 DEF Books, W
<1>4. W(req, BilledTo(t)) <= W(req, Of(t, Open) \cup Of(t, Charged))
  BY <1>2, WorthMonotone
<1>5. W(req, Of(t, Open) \cup Of(t, Charged)) <= W(req, Of(t, Open)) + W(req, Of(t, Charged))
  BY WorthUnion
<1>6. MoneyOf(t)
  BY <1>1, RowsAreMoney
<1>7. /\ W(req, BilledTo(t)) \in Nat
      /\ W(req, Of(t, Open) \cup Of(t, Charged)) \in Nat
      /\ W(req, Of(t, Open)) \in Nat /\ W(req, Of(t, Charged)) \in Nat
      /\ W(req, Of(t, Twice)) \in Nat
  BY WorthIsNat
<1>8. account[t].committed \in Nat /\ account[t].reserved \in Nat
  BY <1>1 DEF TypeOK
<1>9. account[t].committed + account[t].reserved
        = W(req, Of(t, Open)) + W(req, Of(t, Charged))
  BY <1>6, <1>7, <1>8 DEF MoneyOf
<1>10. QED
  BY <1>3, <1>4, <1>5, <1>7, <1>9

(* Every variable keeps its type, the counters never going below zero. *)
THEOREM TypeCorrect == Spec => []TypeOK
<1>1. IInv => TypeOK
  BY DEF IInv
<1>2. QED
  BY <1>1, Invariant, PTL

(* Each limiter counts exactly the calls its replica's handlers wait for, and
   stays within its cap.                                                    *)
THEOREM SlotsAreCalls == Spec => []SlotsMatchCalls
<1>1. IInv => SlotsMatchCalls
  BY DEF IInv
<1>2. QED
  BY <1>1, Invariant, PTL

(* The rows say what the requests did, however COMMITs were answered. *)
THEOREM RowsFollowHolds == Spec => []RowsMatchHolds
<1>1. IInv => RowsMatchHolds
  BY DEF IInv
<1>2. QED
  BY <1>1, Invariant, PTL

(* The provider's bill for a tenant stays within what the rows hold and have
   charged for it, that within its partition, and all of it within the cap.  *)
THEOREM BillStaysAuthorised == Spec => []BillWithinAuthorisation
<1>1. IInv => BillWithinAuthorisation
  BY BillIsBacked DEF IInv, Ceilings, BillWithinAuthorisation
<1>2. QED
  BY <1>1, Invariant, PTL

-----------------------------------------------------------------------------
(* What else follows: the jobs a client may poll, the CHECK constraints as a
   backstop, the reconciliation of quiet tenants, that nobody is refused
   because of a neighbour, and that the pipeline keeps the promise of
   SpendPartition. IInv says what the rows carry for a request. To it Paths
   adds how a request got to where it stands.                                *)

Paths ==
  \A r \in Requests :
    /\ hold[r] \in {"charged", "charged_twice"} => attempted[r]
    /\ phase[r] \in {"answered", "stored", "settled"} => call[r] = "billed"
    /\ phase[r] = "settled" => req[r].op = "import" /\ hold[r] = "charged"
    /\ r \in jobs => /\ phase[r] \in Outcomes
                     /\ req[r].op = "import" /\ call[r] = "billed" /\ hold[r] = "charged"
    /\ lostAcks = 0 => /\ hold[r] # "charged_twice"
                       /\ phase[r] = "unwinding" => hold[r] = "held"
    /\ NoFaults /\ hold[r] = "held" => Active(r)

-----------------------------------------------------------------------------
(* Room for one's own hold *)

(* Under a hold nobody else has taken from, both rows carry its cents. *)
LEMMA OwnHoldIsThere ==
  ASSUME IInv, Paths, lostAcks = 0, NEW r \in Requests, hold[r] = "held"
  PROVE  CanSettle(r)
<1>1. TypeOK /\ RowsMatchHolds
  BY DEF IInv
<1>2. PICK t : t = Tenant(r) /\ t \in Tenants
  BY <1>1, DescriptorFacts
<1>3. HoldsOf(Twice) = {} /\ Of(t, Twice) = {}
  BY DEF Paths, HoldsOf, Of, Twice
<1>4. W(req, {}) = 0
  <2>1. Cardinality(Units(req, {})) = 0 /\ Price \in Nat
    BY UnitsNone, PipelineAssumption
  <2>2. QED
    BY <2>1 DEF W
<1>5. {r} \subseteq HoldsOf(Open) /\ {r} \subseteq Of(t, Open)
  BY <1>2 DEF HoldsOf, Of, Open
<1>6. W(req, {r}) <= W(req, HoldsOf(Open)) /\ W(req, {r}) <= W(req, Of(t, Open))
  BY <1>5, WorthMonotone
<1>7. W(req, {r}) = Cents(r)
  <2>1. Cardinality(Units(req, {r})) = req[r].lookups
    BY <1>1, UnitsOfOne DEF TypeOK
  <2>2. QED
    BY <2>1 DEF W, Cents
<1>8. MoneyOf(t) /\ MoneyOfAll
  BY <1>1, <1>2, RowsAreMoney
<1>9. account[t].reserved \in Nat /\ period.reserved \in Nat
  BY <1>1, <1>2 DEF TypeOK
<1>10. account[t].reserved = W(req, Of(t, Open))
  BY <1>3, <1>4, <1>8, <1>9 DEF MoneyOf
<1>11. period.reserved = W(req, HoldsOf(Open))
  BY <1>3, <1>4, <1>8, <1>9 DEF MoneyOfAll
<1>12. QED
  BY <1>2, <1>6, <1>7, <1>10, <1>11 DEF CanSettle

-----------------------------------------------------------------------------
(* Paths is an invariant *)

LEMMA PathsInit ==
  ASSUME Init
  PROVE  Paths
BY DEF Init, Paths

(* One step of one handler, of the provider, or of a fault. *)
LEMMA PathsStep ==
  ASSUME IInv, Paths, Next
  PROVE  Paths'
<1> USE DEF Paths, Goto, NoFaults, Active, Outcomes, storeVars, providerVars, faultVars
<1>0. TypeOK /\ Shape
  BY DEF IInv
<1>f. errors \in Nat /\ lostAcks \in Nat /\ crashes \in Nat
  BY <1>0, PipelineAssumption DEF TypeOK
<1>1. ASSUME NEW r \in Requests, Arrive(r)
      PROVE  Paths'
  BY <1>0, <1>f, <1>1 DEF Arrive, TypeOK, Shape
<1>2. ASSUME NEW r \in Requests, RefuseBatch(r) \/ RefuseAllowance(r) \/ ReserveFails(r)
      PROVE  Paths'
  BY <1>0, <1>f, <1>2 DEF RefuseBatch, RefuseAllowance, ReserveFails, DatabaseError, TypeOK, Shape
<1>3. ASSUME NEW r \in Requests, Reserve(r) \/ ReserveAckLost(r)
      PROVE  Paths'
  BY <1>0, <1>f, <1>3 DEF Reserve, ReserveAckLost, ReserveRows, LostAck, TypeOK, Shape
<1>4. ASSUME NEW r \in Requests, TakeSlot(r) \/ Shed(r)
      PROVE  Paths'
  <2>1. ASSUME TakeSlot(r)
        PROVE  Paths'
    BY <1>0, <1>f, <2>1 DEF TakeSlot, TypeOK, Shape
  <2>2. ASSUME Shed(r)
        PROVE  Paths'
    BY <1>0, <1>f, <2>2 DEF Shed, TypeOK, Shape
  <2>3. QED
    BY <1>4, <2>1, <2>2
<1>5. ASSUME NEW r \in Requests, Answer(r) \/ CallFails(r) \/ Deadline(r)
      PROVE  Paths'
  BY <1>0, <1>f, <1>5 DEF Answer, CallFails, Deadline, LeaveSlot, TypeOK, Shape
<1>6. ASSUME NEW r \in Requests, Upsert(r) \/ SettleViolatesCheck(r) \/ CompletionFails(r)
      PROVE  Paths'
  <2>1. ASSUME Upsert(r)
        PROVE  Paths'
    BY <1>0, <1>f, <2>1 DEF Upsert, TypeOK, Shape
  <2>2. ASSUME SettleViolatesCheck(r)
        PROVE  Paths'
    BY <1>0, <1>f, <2>2 DEF SettleViolatesCheck, TypeOK, Shape
  <2>3. ASSUME CompletionFails(r)
        PROVE  Paths'
    BY <1>0, <1>f, <2>3 DEF CompletionFails, DatabaseError, TypeOK, Shape
  <2>4. QED
    BY <1>6, <2>1, <2>2, <2>3
<1>7. ASSUME NEW r \in Requests, Settle(r) \/ SettleAckLost(r)
      PROVE  Paths'
  <2>1. req[r].op \in {"enrich", "import"}
    BY <1>0, PipelineAssumption DEF TypeOK, Descriptor
  <2>2. QED
    BY <1>0, <1>f, <1>7, <2>1 DEF Settle, SettleAckLost, ChargeRows, LostAck, TypeOK, Shape
<1>8. ASSUME NEW r \in Requests, InsertJob(r) \/ InsertJobFails(r)
      PROVE  Paths'
  BY <1>0, <1>f, <1>8 DEF InsertJob, InsertJobFails, DatabaseError, LostAck, TypeOK, Shape
<1>9. ASSUME NEW r \in Requests, Unwind(r) \/ UnwindAckLost(r)
      PROVE  Paths'
  BY <1>0, <1>f, <1>9 DEF Unwind, UnwindAckLost, UnwindRows, ChargeRows, ReleaseRows, LostAck,
     TypeOK, Shape
<1>10. ASSUME NEW r \in Requests, UnwindFails(r)
       PROVE  Paths'
  BY <1>0, <1>f, <1>10 DEF UnwindFails, DatabaseError, TypeOK, Shape
<1>11. ASSUME NEW r \in Requests, UnwindViolatesCheck(r)
       PROVE  Paths'
  <2>1. lostAcks # 0
    BY <1>11, OwnHoldIsThere DEF UnwindViolatesCheck
  <2>2. QED
    BY <1>0, <1>f, <1>11, <2>1 DEF UnwindViolatesCheck, TypeOK, Shape
<1>12. ASSUME NEW r \in Requests, Provider(r)
       PROVE  Paths'
  BY <1>0, <1>f, <1>12 DEF Provider, AcceptCall, RefuseCall, ChargeCall, ProviderMoves, TypeOK, Shape
<1>13. ASSUME NEW p \in Replicas, Crash(p)
       PROVE  Paths'
  BY <1>0, <1>f, <1>13 DEF Crash, TypeOK, Shape
<1>14. CASE Rest
  BY <1>14 DEF Rest, vars
<1>15. QED
  BY <1>1, <1>2, <1>3, <1>4, <1>5, <1>6, <1>7, <1>8, <1>9, <1>10, <1>11, <1>12, <1>13, <1>14
     DEF Next, Handler, Fault, Admission, Calling, Completion, Unwinding

(* Every behaviour keeps both. *)
THEOREM PathsInvariant == Spec => [](IInv /\ Paths)
<1>1. Init => IInv /\ Paths
  BY InvariantInit, PathsInit
<1>2. IInv /\ Paths /\ [Next]_vars => (IInv /\ Paths)'
  <2>1. ASSUME IInv, Paths, Next
        PROVE  Paths'
    BY <2>1, PathsStep
  <2>2. ASSUME Paths, UNCHANGED vars
        PROVE  Paths'
    BY <2>2 DEF Paths, vars, NoFaults, Active
  <2>3. QED
    BY <2>1, <2>2, InvariantStep
<1>3. QED
  BY <1>1, <1>2, PTL DEF Spec

-----------------------------------------------------------------------------
(* What follows in every state *)

(* The job a client may poll speaks of lookups that were billed and charged. *)
THEOREM JobsAreCharged == Spec => []JobsWereCharged
<1>1. IInv /\ Paths => JobsWereCharged
  BY DEF IInv, TypeOK, Paths, JobsWereCharged
<1>2. QED
  BY <1>1, PathsInvariant, PTL

(* As long as every COMMIT was answered, no settle and no release meets a CHECK. *)
THEOREM ChecksAreABackstop == Spec => []ChecksNeverReached
<1>1. ASSUME IInv, Paths
      PROVE  ChecksNeverReached
  <2>1. SUFFICES ASSUME lostAcks = 0, NEW r \in Requests, phase[r] \in {"stored", "unwinding"}
                 PROVE  CanSettle(r)
    BY DEF ChecksNeverReached
  <2>2. hold[r] = "held"
    BY <1>1, <2>1 DEF IInv, Shape, Paths
  <2>3. QED
    BY <1>1, <2>1, <2>2, OwnHoldIsThere
<1>2. QED
  BY <1>1, PathsInvariant, PTL

(* Without faults a tenant that has gone quiet holds nothing and was charged for
   exactly the requests that reached the provider.                           *)
THEOREM QuietTenantsAreSettled == Spec => []QuietTenantsReconcile
<1>1. ASSUME IInv, Paths
      PROVE  QuietTenantsReconcile
  <2>1. SUFFICES ASSUME NoFaults, NEW t \in Tenants,
                        \A r \in Requests : Active(r) => Tenant(r) # t
                 PROVE  /\ account[t].reserved = 0
                        /\ account[t].committed
                             = Worth({r \in Requests : attempted[r] /\ Tenant(r) = t})
                        /\ Price * ledger[t] <= account[t].committed
    BY DEF QuietTenantsReconcile
  <2>2. TypeOK /\ Shape /\ RowsMatchHolds
    BY <1>1 DEF IInv
  <2>3. lostAcks = 0
    BY <2>1, <2>2, PipelineAssumption DEF NoFaults, TypeOK
  <2>4. Of(t, Open) = {}
    BY <1>1, <2>1 DEF Paths, Of, HoldsOf, Open
  <2>5. Of(t, Twice) = {}
    BY <1>1, <2>3 DEF Paths, Of, HoldsOf, Twice
  <2>6. Of(t, Charged) = {r \in Requests : attempted[r] /\ Tenant(r) = t}
    <3>1. ASSUME NEW r \in Requests, Tenant(r) = t
          PROVE  hold[r] \in Charged <=> attempted[r]
      <4>1. hold[r] \in Holds /\ attempted[r] \in BOOLEAN
        BY <2>2 DEF TypeOK
      <4>2. hold[r] # "held"
        BY <2>4, <3>1 DEF Of, HoldsOf, Open
      <4>3. QED
        BY <1>1, <2>2, <4>1, <4>2 DEF Holds, Charged, Shape, Paths
    <3>2. QED
      BY <3>1 DEF Of, HoldsOf
  <2>7. W(req, {}) = 0
    <3>1. Cardinality(Units(req, {})) = 0 /\ Price \in Nat
      BY UnitsNone, PipelineAssumption
    <3>2. QED
      BY <3>1 DEF W
  <2>8. MoneyOf(t)
    BY <2>2, RowsAreMoney
  <2>9. /\ account[t].reserved \in Nat /\ account[t].committed \in Nat
        /\ W(req, Of(t, Charged)) \in Nat
    BY <2>2, WorthIsNat DEF TypeOK
  <2>10. account[t].reserved = 0 /\ account[t].committed = W(req, Of(t, Charged))
    BY <2>4, <2>5, <2>7, <2>8, <2>9 DEF MoneyOf
  <2>11. Price * ledger[t] <= account[t].committed + account[t].reserved
    BY <1>1, BillIsBacked
  <2>12. Price * ledger[t] <= account[t].committed
    BY <2>9, <2>10, <2>11
  <2>13. account[t].committed = Worth({r \in Requests : attempted[r] /\ Tenant(r) = t})
    BY <2>6, <2>10, WorthIsW
  <2>14. QED
    BY <2>10, <2>12, <2>13
<1>2. QED
  BY <1>1, PathsInvariant, PTL

-----------------------------------------------------------------------------
(* What follows for every step *)

(* No charge is refunded, and a hold is given back only for a call that never
   started.                                                                  *)
THEOREM NoRefunds == Spec => ReleasedMeansNeverCalled
<1> DEFINE Step ==
      /\ \A t \in Tenants : account'[t].committed >= account[t].committed
      /\ \A r \in Requests : hold'[r] = "released" => call'[r] = "unsent"
<1>1. ASSUME IInv, IInv', [Next]_vars
      PROVE  [Step]_vars
  <2>1. \A r \in Requests : hold'[r] = "released" => call'[r] = "unsent"
    BY <1>1 DEF IInv, Shape, TypeOK
  <2>2. TypeOK /\ Shape
    BY <1>1 DEF IInv
  <2>3. \A t \in Tenants : account[t].committed \in Nat
    BY <2>2 DEF TypeOK
  <2>4. ASSUME account' = account
        PROVE  \A t \in Tenants : account'[t].committed >= account[t].committed
    BY <2>3, <2>4
  <2>5. ASSUME NEW r \in Requests, ReserveRows(r) \/ ChargeRows(r) \/ ReleaseRows(r)
        PROVE  \A t \in Tenants : account'[t].committed >= account[t].committed
    <3>1. Cents(r) \in Nat /\ Tenant(r) \in Tenants
      BY <2>2, DescriptorFacts
    <3>2. QED
      BY <2>2, <2>3, <2>5, <3>1 DEF ReserveRows, ChargeRows, ReleaseRows, TypeOK
  <2>6. CASE Next
    BY <2>1, <2>2, <2>4, <2>5, <2>6, StoreSteps DEF Arrive, storeVars
  <2>7. QED
    BY <1>1, <2>6
<1>2. QED
  BY <1>1, Invariant, PTL DEF Spec, ReleasedMeansNeverCalled

(* The pipeline implements the promise: every step authorises, gives back or
   bills within SpendPartition's guards, or leaves its three figures alone.  *)
THEOREM ImplementsPartition == Spec => KeepsPartition
<1> DEFINE Authorised == [t \in Tenants |-> account[t].committed + account[t].reserved]
           Pool == period.committed + period.reserved
           Bill == [t \in Tenants |-> Price * ledger[t]]
<1>1. Init => Partition!Init
  <2>1. Price * 0 = 0
    BY PipelineAssumption
  <2>2. QED
    BY <2>1 DEF Init, Partition!Init
<1>2. ASSUME IInv, BillWithinAuthorisation', [Next]_vars
      PROVE  [Partition!Next]_Partition!partitionVars
  <2>1. TypeOK /\ Shape
    BY <1>2 DEF IInv
  <2>2. Allowance \in Nat /\ Cap \in Nat /\ Price \in Nat
    BY PipelineAssumption
  <2>3. /\ \A t \in Tenants : /\ account[t].committed \in Nat /\ account[t].reserved \in Nat
                              /\ ledger[t] \in Nat
        /\ period.committed \in Nat /\ period.reserved \in Nat
    BY <2>1 DEF TypeOK
  <2>4. \A t \in Tenants : Price * ledger'[t] <= account'[t].committed + account'[t].reserved
    BY <1>2 DEF BillWithinAuthorisation
  <2>5. ASSUME UNCHANGED <<account, period, ledger>>
        PROVE  UNCHANGED Partition!partitionVars
    BY <2>5 DEF Partition!partitionVars
  <2>6. ASSUME NEW r \in Requests, ChargeCall(r)
        PROVE  Partition!Next
    <3>1. PICK t \in Tenants : t = Tenant(r)
      BY <2>1, DescriptorFacts
    <3>2. PICK cents \in Nat : cents = Price * req[r].lookups
      BY <2>1, DescriptorFacts
    <3>3. /\ account' = account /\ period' = period
          /\ ledger' = [ledger EXCEPT ![t] = @ + req[r].lookups]
      BY <2>6, <3>1 DEF ChargeCall, ProviderMoves, storeVars
    <3>4. req[r].lookups \in Nat
      BY <2>1, DescriptorFacts
    <3>5. ledger'[t] = ledger[t] + req[r].lookups
      BY <2>1, <3>3 DEF TypeOK
    <3>6. Price * ledger'[t] = Price * ledger[t] + cents
      BY <2>2, <2>3, <3>2, <3>4, <3>5
    <3>7. Price * ledger[t] + cents <= account[t].committed + account[t].reserved
      BY <2>4, <3>3, <3>6
    <3>8. account[t].committed + account[t].reserved <= Allowance
      BY <1>2 DEF IInv, Ceilings
    <3>9. Price * ledger[t] \in Nat
      BY <2>2, <2>3
    <3>10. cents \in 0..Allowance
      BY <2>2, <2>3, <3>7, <3>8, <3>9
    <3>11. Bill' = [Bill EXCEPT ![t] = @ + cents]
      BY <2>1, <3>3, <3>6 DEF TypeOK
    <3>12. Partition!Bill(t, cents)
      BY <3>3, <3>7, <3>11 DEF Partition!Bill
    <3>13. QED
      BY <3>10, <3>12 DEF Partition!Next
  <2>7. ASSUME NEW r \in Requests, ReserveRows(r), TenantHasRoom(r), PeriodHasRoom(r), ledger' = ledger
        PROVE  Partition!Next
    <3>1. PICK t \in Tenants : t = Tenant(r)
      BY <2>1, DescriptorFacts
    <3>2. PICK cents \in Nat : cents = Cents(r)
      BY <2>1, DescriptorFacts
    <3>3. /\ account' = [account EXCEPT ![t].reserved = @ + cents]
          /\ period' = [period EXCEPT !.reserved = @ + cents]
      BY <2>7, <3>1, <3>2 DEF ReserveRows
    <3>4. /\ account[t].committed + account[t].reserved + cents <= Allowance
          /\ period.committed + period.reserved + cents <= Cap
      BY <2>7, <3>1, <3>2 DEF TenantHasRoom, PeriodHasRoom
    <3>5. cents \in 0..Allowance
      BY <2>2, <2>3, <3>4
    <3>6. Authorised' = [Authorised EXCEPT ![t] = @ + cents]
      <4>1. \A u \in Tenants :
              account'[u].committed + account'[u].reserved
                = IF u = t THEN account[u].committed + account[u].reserved + cents
                           ELSE account[u].committed + account[u].reserved
        BY <2>1, <2>3, <3>3 DEF TypeOK
      <4>2. QED
        BY <4>1
    <3>7. Pool' = Pool + cents
      BY <2>1, <2>3, <3>3 DEF TypeOK
    <3>8. Partition!Authorise(t, cents)
      BY <2>7, <3>4, <3>6, <3>7 DEF Partition!Authorise
    <3>9. QED
      BY <3>5, <3>8 DEF Partition!Next
  <2>8. ASSUME NEW r \in Requests, ReleaseRows(r), ledger' = ledger
        PROVE  Partition!Next
    <3>1. PICK t \in Tenants : t = Tenant(r)
      BY <2>1, DescriptorFacts
    <3>2. PICK cents \in Nat : cents = Cents(r)
      BY <2>1, DescriptorFacts
    <3>3. /\ account' = [account EXCEPT ![t].reserved = @ - cents]
          /\ period' = [period EXCEPT !.reserved = @ - cents]
          /\ account[t].reserved >= cents /\ period.reserved >= cents
      BY <2>8, <3>1, <3>2 DEF ReleaseRows, CanSettle
    <3>4. account'[t].committed = account[t].committed
          /\ account'[t].reserved = account[t].reserved - cents
      BY <2>1, <3>3 DEF TypeOK
    <3>5. Price * ledger[t] + cents <= account[t].committed + account[t].reserved
      <4>1. Price * ledger[t] <= account[t].committed + (account[t].reserved - cents)
        BY <2>4, <2>8, <3>4
      <4>2. Price * ledger[t] \in Nat
        BY <2>2, <2>3
      <4>3. QED
        BY <2>3, <4>1, <4>2
    <3>6. account[t].committed + account[t].reserved <= Allowance
      BY <1>2 DEF IInv, Ceilings
    <3>7. Price * ledger[t] \in Nat
      BY <2>2, <2>3
    <3>8. cents \in 0..Allowance
      BY <2>2, <2>3, <3>5, <3>6, <3>7
    <3>9. Authorised' = [Authorised EXCEPT ![t] = @ - cents]
      <4>1. \A u \in Tenants :
              account'[u].committed + account'[u].reserved
                = IF u = t THEN (account[u].committed + account[u].reserved) - cents
                           ELSE account[u].committed + account[u].reserved
        BY <2>1, <2>3, <3>3 DEF TypeOK
      <4>2. QED
        BY <4>1
    <3>10. Pool' = Pool - cents /\ cents <= Pool
      BY <2>1, <2>3, <3>3 DEF TypeOK
    <3>11. Partition!Return(t, cents)
      BY <2>8, <3>5, <3>9, <3>10 DEF Partition!Return
    <3>12. QED
      BY <3>8, <3>11 DEF Partition!Next
  <2>9. ASSUME NEW r \in Requests, ChargeRows(r), ledger' = ledger
        PROVE  UNCHANGED Partition!partitionVars
    <3>1. Cents(r) \in Nat /\ Tenant(r) \in Tenants
      BY <2>1, DescriptorFacts
    <3>2. Authorised' = Authorised
      BY <2>1, <2>3, <2>9, <3>1 DEF ChargeRows, CanSettle, TypeOK
    <3>3. Pool' = Pool
      BY <2>1, <2>3, <2>9, <3>1 DEF ChargeRows, CanSettle, TypeOK
    <3>4. QED
      BY <2>9, <3>2, <3>3 DEF Partition!partitionVars
  <2>10. ASSUME Next
         PROVE  [Partition!Next]_Partition!partitionVars
    <3>1. CASE \E r \in Requests : Arrive(r) \/ ChargeCall(r)
      BY <2>5, <2>6, <3>1 DEF Arrive, storeVars, providerVars
    <3>2. CASE ledger' = ledger
      BY <2>1, <2>5, <2>7, <2>8, <2>9, <2>10, <3>1, <3>2, StoreSteps DEF storeVars
    <3>3. QED
      BY <2>1, <2>10, <3>1, <3>2, BillSteps
  <2>11. QED
    BY <1>2, <2>5, <2>10 DEF vars
<1>3. QED
  BY <1>1, <1>2, Invariant, BillStaysAuthorised, PTL DEF Spec, KeepsPartition, Partition!Spec

-----------------------------------------------------------------------------
(* Nobody is refused because of a neighbour *)

(* A set has no more members than a product with an interval that each of its
   classes fits into: here the cents of a set of requests, tenant by tenant.  *)
LEMMA TenantsAddUp ==
  ASSUME IsFiniteSet(Tenants), NEW q \in [Requests -> Workload], NEW S \in SUBSET Requests,
         \A t \in Tenants : W(q, {r \in S : q[r].tenant = t}) <= Allowance
  PROVE  W(q, S) <= Cardinality(Tenants) * Allowance
<1> DEFINE Own(t) == {r \in S : q[r].tenant = t}
           Coins(T) == Units(q, T) \X (1..Price)
           n(t) == Cardinality(Coins(Own(t)))
           Slots == Tenants \X (1..Allowance)
           D == {x \in Slots : x[2] <= n(x[1])}
           bij == [t \in Tenants |-> CHOOSE f : f \in Bijection(1..n(t), Coins(Own(t)))]
           g == [x \in D |-> bij[x[1]][x[2]]]
<1>1. Price \in Nat /\ Allowance \in Nat
  BY PipelineAssumption
<1>2. ASSUME NEW T
      PROVE  IsFiniteSet(Coins(T)) /\ Cardinality(Coins(T)) = W(q, T)
  <2>1. IsFiniteSet(Units(q, T)) /\ Cardinality(Units(q, T)) \in Nat
    BY UnitsFinite
  <2>2. IsFiniteSet(1..Price) /\ Cardinality(1..Price) = Price
    <3>1. 1 \in Int /\ Price \in Int
      BY <1>1
    <3>2. IsFiniteSet(1..Price) /\ Cardinality(1..Price) = IF 1 > Price THEN 0 ELSE Price - 1 + 1
      BY <3>1, FS_Interval
    <3>3. QED
      BY <1>1, <3>2
  <2>3. IsFiniteSet(Coins(T))
        /\ Cardinality(Coins(T)) = Cardinality(Units(q, T)) * Cardinality(1..Price)
    BY <2>1, <2>2, FS_Product
  <2>4. PICK k \in Nat : k = Cardinality(Units(q, T))
    BY <2>1
  <2>5. k * Price = Price * k
    BY <1>1
  <2>6. QED
    BY <2>2, <2>3, <2>4, <2>5 DEF W
<1>3. ASSUME NEW t \in Tenants
      PROVE  /\ n(t) \in Nat /\ n(t) <= Allowance
             /\ bij[t] \in Bijection(1..n(t), Coins(Own(t)))
  <2>1. IsFiniteSet(Coins(Own(t))) /\ n(t) = W(q, Own(t))
    BY <1>2
  <2>2. n(t) \in Nat /\ ExistsBijection(1..n(t), Coins(Own(t)))
    BY <2>1, FS_CardinalityType
  <2>3. n(t) <= Allowance
    BY <2>1
  <2>4. \E f : f \in Bijection(1..n(t), Coins(Own(t)))
    BY <2>2 DEF ExistsBijection
  <2>5. QED
    BY <2>2, <2>3, <2>4
<1>4. IsFiniteSet(Slots) /\ Cardinality(Slots) = Cardinality(Tenants) * Allowance
  <2>1. IsFiniteSet(1..Allowance) /\ Cardinality(1..Allowance) = Allowance
    <3>1. 1 \in Int /\ Allowance \in Int
      BY <1>1
    <3>2. IsFiniteSet(1..Allowance)
          /\ Cardinality(1..Allowance) = IF 1 > Allowance THEN 0 ELSE Allowance - 1 + 1
      BY <3>1, FS_Interval
    <3>3. QED
      BY <1>1, <3>2
  <2>2. QED
    BY <2>1, FS_Product
<1>5. IsFiniteSet(D) /\ Cardinality(D) <= Cardinality(Slots)
  BY <1>4, FS_Subset
<1>6. g \in Surjection(D, Coins(S))
  <2>1. ASSUME NEW x \in D
        PROVE  g[x] \in Coins(S)
    <3>0. PICK t \in Tenants, i \in 1..Allowance : x = <<t, i>>
      OBVIOUS
    <3>1. i <= n(t)
      BY <3>0
    <3>2. g[x] = bij[t][i] /\ i \in 1..n(t)
      <4>1. n(t) \in Nat
        BY <1>3
      <4> HIDE DEF n
      <4>2. i \in 1..n(t)
        BY <1>1, <3>1, <4>1
      <4>3. QED
        BY <3>0, <4>2
    <3>3. bij[t][i] \in Coins(Own(t))
      BY <1>3, <3>2 DEF Bijection, Injection
    <3>4. Coins(Own(t)) \subseteq Coins(S)
      BY DEF Units
    <3>5. QED
      BY <3>2, <3>3, <3>4
  <2>2. ASSUME NEW c \in Coins(S)
        PROVE  \E x \in D : g[x] = c
    <3>1. PICK r \in S : c[1][1] = r /\ c[1] \in Units(q, S)
      BY DEF Units
    <3>2. PICK t \in Tenants : t = q[r].tenant
      BY PipelineAssumption DEF Descriptor
    <3>3. c \in Coins(Own(t))
      BY <3>1, <3>2 DEF Units
    <3>4. PICK i \in 1..n(t) : bij[t][i] = c
      BY <1>3, <3>3 DEF Bijection, Surjection
    <3>5. i \in 1..Allowance /\ i <= n(t)
      <4>1. n(t) \in Nat /\ n(t) <= Allowance
        BY <1>3
      <4> HIDE DEF n
      <4>2. QED
        BY <1>1, <3>4, <4>1
    <3>6. <<t, i>> \in D
      BY <3>5
    <3>7. QED
      BY <3>4, <3>6
  <2>3. QED
    BY <2>1, <2>2 DEF Surjection
<1>7. Cardinality(Coins(S)) <= Cardinality(D)
  BY <1>5, <1>6, FS_Surjection
<1>8. /\ Cardinality(Coins(S)) \in Nat /\ Cardinality(D) \in Nat
      /\ Cardinality(Slots) \in Nat
  BY <1>2, <1>4, <1>5, FS_CardinalityType
<1>9. Cardinality(Coins(S)) = W(q, S)
  BY <1>2
<1>10. QED
  BY <1>4, <1>5, <1>7, <1>8, <1>9

(* Two sets of requests that share none are worth exactly the sum. *)
LEMMA WorthDisjoint ==
  ASSUME NEW q, NEW S, NEW T, S \cap T = {}
  PROVE  W(q, S \cup T) = W(q, S) + W(q, T)
<1> DEFINE a == Cardinality(Units(q, S))
           b == Cardinality(Units(q, T))
           u == Cardinality(Units(q, S \cup T))
<1>1. Units(q, S \cup T) = Units(q, S) \cup Units(q, T) /\ Units(q, S) \cap Units(q, T) = {}
  BY DEF Units
<1>2. IsFiniteSet(Units(q, S)) /\ IsFiniteSet(Units(q, T))
  BY UnitsFinite
<1>3. Cardinality(Units(q, S) \cap Units(q, T)) = 0
  BY <1>1, FS_EmptySet
<1>4. u = a + b - 0
  BY <1>1, <1>2, <1>3, FS_Union
<1>5. a \in Nat /\ b \in Nat /\ Price \in Nat
  BY UnitsFinite, PipelineAssumption
<1> HIDE DEF a, b, u
<1>6. Price * (a + b) = Price * a + Price * b /\ u = a + b
  BY <1>4, <1>5
<1>7. QED
  BY <1>6 DEF W, a, b, u

(* With the tenant's own partition taking the request, the company's budget
   takes it: the cap is at least the sum of the partitions.                  *)
LEMMA OwnRoomIsEnough ==
  ASSUME IInv, IsFiniteSet(Tenants), Cardinality(Tenants) * Allowance <= Cap,
         NEW r \in Requests, hold[r] = "none", TenantHasRoom(r)
  PROVE  PeriodHasRoom(r)
<1> DEFINE S == HoldsOf(Open) \cup HoldsOf(Charged)
           own(t) == {x \in S \cup {r} : req[x].tenant = t}
<1>1. TypeOK /\ RowsMatchHolds /\ Ceilings
  BY DEF IInv
<1>2. PICK cents \in Nat : cents = Cents(r) /\ cents = Price * req[r].lookups
  BY <1>1, DescriptorFacts
<1>3. req \in [Requests -> Workload]
  BY <1>1 DEF TypeOK
<1>4. Allowance \in Nat /\ Cap \in Nat
  BY PipelineAssumption
<1>5. \A t \in Tenants : /\ account[t].committed \in Nat /\ account[t].reserved \in Nat
                         /\ account[t].committed + account[t].reserved <= Allowance
  BY <1>1 DEF TypeOK, Ceilings
<1>6. \A T \in SUBSET Requests : r \notin T => W(req, T \cup {r}) = W(req, T) + cents
  BY <1>2, <1>3, WorthAdd
<1>7. r \notin HoldsOf(Open) /\ r \notin HoldsOf(Charged)
  BY DEF HoldsOf, Open, Charged
<1>8. ASSUME NEW t \in Tenants
      PROVE  W(req, own(t)) <= Allowance
  <2> DEFINE T == Of(t, Open) \cup Of(t, Charged)
  <2>1. T \in SUBSET Requests /\ r \notin T
    BY <1>7 DEF Of, HoldsOf
  <2>2. W(req, T) <= account[t].committed + account[t].reserved
    <3>1. W(req, T) <= W(req, Of(t, Open)) + W(req, Of(t, Charged))
      BY WorthUnion
    <3>2. MoneyOf(t)
      BY <1>1, RowsAreMoney
    <3>3. /\ W(req, Of(t, Open)) \in Nat /\ W(req, Of(t, Charged)) \in Nat
          /\ W(req, Of(t, Twice)) \in Nat
      BY WorthIsNat
    <3>4. account[t].committed + account[t].reserved
            = W(req, Of(t, Open)) + W(req, Of(t, Charged))
      BY <1>5, <3>2, <3>3 DEF MoneyOf
    <3>5. QED
      BY <3>1, <3>4
  <2>3. W(req, T) \in Nat
    BY WorthIsNat
  <2>4. CASE t = Tenant(r)
    <3>1. own(t) = T \cup {r}
      BY <2>4 DEF Of, HoldsOf, Tenant
    <3>2. W(req, own(t)) = W(req, T) + cents
      BY <1>6, <2>1, <3>1
    <3>3. account[t].committed + account[t].reserved + cents <= Allowance
      BY <1>2, <2>4 DEF TenantHasRoom
    <3>4. QED
      BY <1>4, <1>5, <2>2, <2>3, <3>2, <3>3
  <2>5. CASE t # Tenant(r)
    <3>1. own(t) = T
      BY <2>5 DEF Of, HoldsOf, Tenant
    <3>2. account[t].committed \in Nat /\ account[t].reserved \in Nat
          /\ account[t].committed + account[t].reserved <= Allowance
      BY <1>5
    <3>3. W(req, own(t)) = W(req, T)
      BY <3>1
    <3> HIDE DEF own, T
    <3>4. QED
      BY <1>4, <2>2, <2>3, <3>2, <3>3
  <2>6. QED
    BY <2>4, <2>5
<1>9. W(req, S \cup {r}) <= Cardinality(Tenants) * Allowance
  <2>1. S \cup {r} \in SUBSET Requests
    BY DEF HoldsOf
  <2>2. QED
    BY <1>3, <1>8, <2>1, TenantsAddUp
<1>10. W(req, S \cup {r}) = W(req, S) + cents
  <2>1. S \in SUBSET Requests /\ r \notin S
    BY <1>7 DEF HoldsOf
  <2>2. QED
    BY <1>6, <2>1
<1>11. W(req, S) = period.committed + period.reserved
  <2>1. HoldsOf(Open) \cap HoldsOf(Charged) = {}
    BY DEF HoldsOf, Open, Charged
  <2>2. W(req, S) = W(req, HoldsOf(Open)) + W(req, HoldsOf(Charged))
    BY <2>1, WorthDisjoint
  <2>3. MoneyOfAll
    BY <1>1, RowsAreMoney
  <2>4. /\ W(req, HoldsOf(Open)) \in Nat /\ W(req, HoldsOf(Charged)) \in Nat
        /\ W(req, HoldsOf(Twice)) \in Nat
    BY WorthIsNat
  <2>5. period.committed \in Nat /\ period.reserved \in Nat
    BY <1>1 DEF TypeOK
  <2>6. QED
    BY <2>2, <2>3, <2>4, <2>5 DEF MoneyOfAll
<1>12. /\ Cardinality(Tenants) * Allowance \in Nat
       /\ W(req, S) \in Nat /\ W(req, S \cup {r}) \in Nat
  <2>1. Cardinality(Tenants) \in Nat
    BY FS_CardinalityType
  <2>2. Cardinality(Tenants) * Allowance \in Nat
    BY <1>4, <2>1
  <2>3. QED
    BY <2>2, WorthIsNat
<1>13. QED
  BY <1>2, <1>4, <1>9, <1>10, <1>11, <1>12 DEF PeriodHasRoom

(* Only a refused reservation ends in "exhausted". *)
LEMMA ExhaustedByRefusal ==
  ASSUME TypeOK, Next, NEW r \in Requests, phase'[r] = "exhausted", phase[r] # "exhausted"
  PROVE  RefuseAllowance(r)
<1> USE DEF Goto, TypeOK
<1>1. ASSUME NEW x \in Requests, RefuseAllowance(x)
      PROVE  x = r
  BY <1>1 DEF RefuseAllowance
<1>2. ASSUME NEW x \in Requests, Arrive(x) \/ RefuseBatch(x) \/ ReserveFails(x)
      PROVE  FALSE
  BY <1>2 DEF Arrive, RefuseBatch, ReserveFails
<1>3. ASSUME NEW x \in Requests, Reserve(x) \/ ReserveAckLost(x)
      PROVE  FALSE
  BY <1>3 DEF Reserve, ReserveAckLost
<1>4. ASSUME NEW x \in Requests, Calling(x)
      PROVE  FALSE
  BY <1>4 DEF Calling, TakeSlot, Shed, Answer, CallFails, Deadline, LeaveSlot
<1>5. ASSUME NEW x \in Requests, Upsert(x) \/ SettleViolatesCheck(x) \/ CompletionFails(x)
      PROVE  FALSE
  BY <1>5 DEF Upsert, SettleViolatesCheck, CompletionFails
<1>6. ASSUME NEW x \in Requests, Settle(x) \/ SettleAckLost(x)
      PROVE  FALSE
  BY <1>6 DEF Settle, SettleAckLost
<1>7. ASSUME NEW x \in Requests, InsertJob(x) \/ InsertJobFails(x)
      PROVE  FALSE
  BY <1>7 DEF InsertJob, InsertJobFails
<1>8. ASSUME NEW x \in Requests, Unwind(x) \/ UnwindAckLost(x)
      PROVE  FALSE
  BY <1>8 DEF Unwind, UnwindAckLost
<1>9. ASSUME NEW x \in Requests, UnwindFails(x) \/ UnwindViolatesCheck(x)
      PROVE  FALSE
  BY <1>9 DEF UnwindFails, UnwindViolatesCheck
<1>10. ASSUME NEW x \in Requests, Provider(x)
       PROVE  FALSE
  BY <1>10 DEF Provider, AcceptCall, RefuseCall, ChargeCall, ProviderMoves
<1>11. ASSUME NEW p \in Replicas, Crash(p)
       PROVE  FALSE
  BY <1>11 DEF Crash
<1>12. CASE Rest
  BY <1>12 DEF Rest, vars
<1>13. QED
  BY <1>1, <1>2, <1>3, <1>4, <1>5, <1>6, <1>7, <1>8, <1>9, <1>10, <1>11, <1>12
     DEF Next, Handler, Fault, Admission, Completion, Unwinding

(* With a cap of at least the sum of the partitions, a request is turned away
   for money only when its own tenant's partition cannot take it.            *)
THEOREM NobodyPaysForANeighbour ==
  ASSUME IsFiniteSet(Tenants), Cardinality(Tenants) * Allowance <= Cap
  PROVE  Spec => RefusedByOwnPartitionOnly
<1> DEFINE Step ==
      \A r \in Requests :
        phase'[r] = "exhausted" /\ phase[r] # "exhausted" => ~TenantHasRoom(r)
<1>1. ASSUME IInv, [Next]_vars
      PROVE  [Step]_vars
  <2>1. SUFFICES ASSUME Next, NEW r \in Requests,
                        phase'[r] = "exhausted", phase[r] # "exhausted"
                 PROVE  ~TenantHasRoom(r)
    BY <1>1
  <2>2. TypeOK /\ Shape
    BY <1>1 DEF IInv
  <2>3. RefuseAllowance(r)
    BY <2>1, <2>2, ExhaustedByRefusal
  <2>4. QED
    BY <1>1, <2>2, <2>3, OwnRoomIsEnough DEF RefuseAllowance, Shape
<1>2. QED
  BY <1>1, Invariant, PTL DEF Spec, RefusedByOwnPartitionOnly

-----------------------------------------------------------------------------
(* What a seeding leaves behind. The invariant of the parts above does not
   survive a seeding, which wipes the holds of requests still on their way, so
   Reseeding has one of its own. It keeps apart the requests that were carried
   over, of which the rows know nothing, and the others, for which the rows stand
   as they do without seedings.                                              *)

Backed == {"held", "charged", "charged_twice"}

(* What a request's position says of it, carried over or not. *)
Standing ==
  \A r \in Requests :
    /\ attempted[r] <=> call[r] # "unsent"
    /\ phase[r] \in {"absent", "arrived"} => hold[r] = "none" /\ ~attempted[r]
    /\ phase[r] = "reserved" => hold[r] \in {"none", "held"} /\ ~attempted[r]
    /\ phase[r] \in {"calling", "answered", "stored"} => hold[r] \in {"none", "held"} /\ attempted[r]
    /\ hold[r] \in {"charged", "charged_twice"} => attempted[r]
    /\ hold[r] = "released" => ~attempted[r] /\ phase[r] \in Outcomes
    /\ r \in counted => call[r] = "billed"

(* A request of the run itself has its hold as long as it may still be billed,
   and once it has been.                                                     *)
OwnHolds ==
  \A r \in Requests \ carried :
    /\ phase[r] \in {"reserved", "calling", "answered", "stored"} => hold[r] = "held"
    /\ phase[r] = "unwinding" => hold[r] \in {"held", "charged"}
    /\ call[r] \in {"sent", "working"} => hold[r] \in Backed
    /\ seeding = "idle" /\ r \in counted => hold[r] \in Backed

(* Without lost COMMIT answers no handler runs on after its charge, and only a
   carried request takes a hold that is not its own.                         *)
AcksArrive ==
  lostAcks = 0 =>
    \A r \in Requests :
      /\ hold[r] \in {"charged", "charged_twice"} => phase[r] \notin InPerform
      /\ hold[r] = "charged_twice" => r \in carried

Positions == Standing /\ OwnHolds /\ AcksArrive

(* The requests of tenant t for which the rows still carry money ... *)
Secured(t) ==
  {r \in Requests :
     /\ Tenant(r) = t
     /\ hold[r] \in {"held", "charged"} \/ (hold[r] = "charged_twice" /\ r \notin carried)}

(* ... and the carried ones that gave back a hold the rows no longer had. *)
GaveBack(t) == {r \in Requests : r \in carried /\ hold[r] = "released" /\ Tenant(r) = t}

Inherits ==
  \A t \in Tenants :
    W(req, Secured(t)) <= account[t].committed + account[t].reserved + W(req, GaveBack(t))

(* The rows, as long as every COMMIT was answered. *)
RowsExact ==
  lostAcks = 0 =>
    /\ \A t \in Tenants :
         /\ account[t].reserved + W(req, Of(t, Twice)) <= W(req, Of(t, Open))
         /\ account[t].committed = W(req, Of(t, Charged))
    /\ period.committed = W(req, HoldsOf(Charged))

(* The provider's books list the calls billed since they were emptied. *)
CountedFor(t) == {r \in Requests : r \in counted /\ Tenant(r) = t}
RunBooks == \A t \in Tenants : ledger[t] = Cardinality(Units(req, CountedFor(t)))

(* Only a seeding that may still be counted is under way. *)
SeedingCounts == seeding = "rows" => runs < MaxRuns

RunInv ==
  /\ TypeOK /\ SeedTypeOK /\ SeedingCounts
  /\ SlotsMatchCalls
  /\ Ceilings
  /\ Positions
  /\ Inherits
  /\ RowsExact
  /\ RunBooks

-----------------------------------------------------------------------------
(* Where the requests stand *)

(* A step of the running system keeps what a position says of a request ... *)
LEMMA StandingStep ==
  ASSUME TypeOK, SeedTypeOK, Standing, Next, Noted
  PROVE  Standing'
<1>1. ASSUME NEW r \in Requests, Arrive(r)
      PROVE  Standing'
  BY <1>1 DEF Arrive,
     Standing, Noted, TypeOK, Goto, Outcomes, storeVars, providerVars, faultVars
<1>2. ASSUME NEW r \in Requests, RefuseBatch(r) \/ RefuseAllowance(r) \/ ReserveFails(r)
      PROVE  Standing'
  BY <1>2 DEF RefuseBatch, RefuseAllowance, ReserveFails, DatabaseError,
     Standing, Noted, TypeOK, Goto, Outcomes, storeVars, providerVars, faultVars
<1>3. ASSUME NEW r \in Requests, Reserve(r) \/ ReserveAckLost(r)
      PROVE  Standing'
  BY <1>3 DEF Reserve, ReserveAckLost, LostAck, ReserveRows,
     Standing, Noted, TypeOK, Goto, Outcomes, storeVars, providerVars, faultVars
<1>4. ASSUME NEW r \in Requests, TakeSlot(r)
      PROVE  Standing'
  BY <1>4 DEF TakeSlot,
     Standing, Noted, TypeOK, Goto, Outcomes, storeVars, providerVars, faultVars
<1>5. ASSUME NEW r \in Requests, Shed(r)
      PROVE  Standing'
  BY <1>5 DEF Shed,
     Standing, Noted, TypeOK, Goto, Outcomes, storeVars, providerVars, faultVars
<1>6. ASSUME NEW r \in Requests, NEW place \in {"answered", "unwinding"}, LeaveSlot(r, place)
      PROVE  Standing'
  BY <1>6 DEF LeaveSlot,
     Standing, Noted, TypeOK, Goto, Outcomes, storeVars, providerVars, faultVars
<1>7. ASSUME NEW r \in Requests, Upsert(r) \/ SettleViolatesCheck(r) \/ CompletionFails(r)
      PROVE  Standing'
  BY <1>7 DEF Upsert, SettleViolatesCheck, CompletionFails, DatabaseError,
     Standing, Noted, TypeOK, Goto, Outcomes, storeVars, providerVars, faultVars
<1>8. ASSUME NEW r \in Requests, Settle(r) \/ SettleAckLost(r)
      PROVE  Standing'
  BY <1>8 DEF Settle, SettleAckLost, LostAck, ChargeRows,
     Standing, Noted, TypeOK, Goto, Outcomes, storeVars, providerVars, faultVars
<1>9. ASSUME NEW r \in Requests, InsertJob(r) \/ InsertJobFails(r)
      PROVE  Standing'
  BY <1>9 DEF InsertJob, InsertJobFails, DatabaseError, LostAck,
     Standing, Noted, TypeOK, Goto, Outcomes, storeVars, providerVars, faultVars
<1>10. ASSUME NEW r \in Requests, Unwind(r) \/ UnwindAckLost(r)
      PROVE  Standing'
  BY <1>10 DEF Unwind, UnwindAckLost, LostAck, UnwindRows, ChargeRows, ReleaseRows,
     Standing, Noted, TypeOK, Goto, Outcomes, storeVars, providerVars, faultVars
<1>11. ASSUME NEW r \in Requests, UnwindFails(r) \/ UnwindViolatesCheck(r)
      PROVE  Standing'
  BY <1>11 DEF UnwindFails, UnwindViolatesCheck, DatabaseError,
     Standing, Noted, TypeOK, Goto, Outcomes, storeVars, providerVars, faultVars
<1>12. ASSUME NEW r \in Requests, Provider(r)
      PROVE  Standing'
  BY <1>12 DEF Provider, AcceptCall, RefuseCall, ChargeCall, ProviderMoves,
     Standing, Noted, TypeOK, Goto, Outcomes, storeVars, providerVars, faultVars
<1>13. ASSUME NEW p \in Replicas, Crash(p)
      PROVE  Standing'
  BY <1>13 DEF Crash,
     Standing, Noted, TypeOK, Goto, Outcomes, storeVars, providerVars, faultVars
<1>14. CASE Rest
  BY <1>14 DEF Rest, vars, Standing, Noted
<1>15. QED
  BY <1>1, <1>2, <1>3, <1>4, <1>5, <1>6, <1>7, <1>8, <1>9, <1>10, <1>11, <1>12, <1>13, <1>14
     DEF Next, Handler, Fault, Admission, Calling, Answer, CallFails, Deadline,
         Completion, Unwinding

(* ... and the holds of the requests that were not carried over ... *)
LEMMA OwnHoldsStep ==
  ASSUME TypeOK, SeedTypeOK, Standing, OwnHolds, Next, Noted
  PROVE  OwnHolds'
<1>1. ASSUME NEW r \in Requests, Arrive(r)
      PROVE  OwnHolds'
  BY <1>1 DEF Arrive,
     Standing, OwnHolds, Backed, Noted, TypeOK, Goto, Outcomes, storeVars, providerVars, faultVars
<1>2. ASSUME NEW r \in Requests, RefuseBatch(r) \/ RefuseAllowance(r) \/ ReserveFails(r)
      PROVE  OwnHolds'
  BY <1>2 DEF RefuseBatch, RefuseAllowance, ReserveFails, DatabaseError,
     Standing, OwnHolds, Backed, Noted, TypeOK, Goto, Outcomes, storeVars, providerVars, faultVars
<1>3. ASSUME NEW r \in Requests, Reserve(r) \/ ReserveAckLost(r)
      PROVE  OwnHolds'
  BY <1>3 DEF Reserve, ReserveAckLost, LostAck, ReserveRows,
     Standing, OwnHolds, Backed, Noted, TypeOK, Goto, Outcomes, storeVars, providerVars, faultVars
<1>4. ASSUME NEW r \in Requests, TakeSlot(r)
      PROVE  OwnHolds'
  BY <1>4 DEF TakeSlot,
     Standing, OwnHolds, Backed, Noted, TypeOK, Goto, Outcomes, storeVars, providerVars, faultVars
<1>5. ASSUME NEW r \in Requests, Shed(r)
      PROVE  OwnHolds'
  BY <1>5 DEF Shed,
     Standing, OwnHolds, Backed, Noted, TypeOK, Goto, Outcomes, storeVars, providerVars, faultVars
<1>6. ASSUME NEW r \in Requests, NEW place \in {"answered", "unwinding"}, LeaveSlot(r, place)
      PROVE  OwnHolds'
  BY <1>6 DEF LeaveSlot,
     Standing, OwnHolds, Backed, Noted, TypeOK, Goto, Outcomes, storeVars, providerVars, faultVars
<1>7. ASSUME NEW r \in Requests, Upsert(r) \/ SettleViolatesCheck(r) \/ CompletionFails(r)
      PROVE  OwnHolds'
  BY <1>7 DEF Upsert, SettleViolatesCheck, CompletionFails, DatabaseError,
     Standing, OwnHolds, Backed, Noted, TypeOK, Goto, Outcomes, storeVars, providerVars, faultVars
<1>8. ASSUME NEW r \in Requests, Settle(r) \/ SettleAckLost(r)
      PROVE  OwnHolds'
  BY <1>8 DEF Settle, SettleAckLost, LostAck, ChargeRows,
     Standing, OwnHolds, Backed, Noted, TypeOK, Goto, Outcomes, storeVars, providerVars, faultVars
<1>9. ASSUME NEW r \in Requests, InsertJob(r) \/ InsertJobFails(r)
      PROVE  OwnHolds'
  BY <1>9 DEF InsertJob, InsertJobFails, DatabaseError, LostAck,
     Standing, OwnHolds, Backed, Noted, TypeOK, Goto, Outcomes, storeVars, providerVars, faultVars
<1>10. ASSUME NEW r \in Requests, Unwind(r) \/ UnwindAckLost(r)
      PROVE  OwnHolds'
  BY <1>10 DEF Unwind, UnwindAckLost, LostAck, UnwindRows, ChargeRows, ReleaseRows,
     Standing, OwnHolds, Backed, Noted, TypeOK, Goto, Outcomes, storeVars, providerVars, faultVars
<1>11. ASSUME NEW r \in Requests, UnwindFails(r) \/ UnwindViolatesCheck(r)
      PROVE  OwnHolds'
  BY <1>11 DEF UnwindFails, UnwindViolatesCheck, DatabaseError,
     Standing, OwnHolds, Backed, Noted, TypeOK, Goto, Outcomes, storeVars, providerVars, faultVars
<1>12. ASSUME NEW r \in Requests, Provider(r)
      PROVE  OwnHolds'
  BY <1>12 DEF Provider, AcceptCall, RefuseCall, ChargeCall, ProviderMoves,
     Standing, OwnHolds, Backed, Noted, TypeOK, Goto, Outcomes, storeVars, providerVars, faultVars
<1>13. ASSUME NEW p \in Replicas, Crash(p)
      PROVE  OwnHolds'
  BY <1>13 DEF Crash,
     Standing, OwnHolds, Backed, Noted, TypeOK, Goto, Outcomes, storeVars, providerVars, faultVars
<1>14. CASE Rest
  BY <1>14 DEF Rest, vars, Standing, OwnHolds, Backed, Noted
<1>15. QED
  BY <1>1, <1>2, <1>3, <1>4, <1>5, <1>6, <1>7, <1>8, <1>9, <1>10, <1>11, <1>12, <1>13, <1>14
     DEF Next, Handler, Fault, Admission, Calling, Answer, CallFails, Deadline,
         Completion, Unwinding

(* ... and, while COMMITs are answered, that a charge ends its handler. *)
LEMMA AcksArriveStep ==
  ASSUME TypeOK, SeedTypeOK, Standing, OwnHolds, AcksArrive, Next, Noted
  PROVE  AcksArrive'
<1>1. ASSUME NEW r \in Requests, Arrive(r)
      PROVE  AcksArrive'
  BY <1>1 DEF Arrive,
     Standing, OwnHolds, Backed, AcksArrive, InPerform, Noted, TypeOK, Goto, Outcomes, storeVars, providerVars, faultVars
<1>2. ASSUME NEW r \in Requests, RefuseBatch(r) \/ RefuseAllowance(r) \/ ReserveFails(r)
      PROVE  AcksArrive'
  BY <1>2 DEF RefuseBatch, RefuseAllowance, ReserveFails, DatabaseError,
     Standing, OwnHolds, Backed, AcksArrive, InPerform, Noted, TypeOK, Goto, Outcomes, storeVars, providerVars, faultVars
<1>3. ASSUME NEW r \in Requests, Reserve(r) \/ ReserveAckLost(r)
      PROVE  AcksArrive'
  BY <1>3 DEF Reserve, ReserveAckLost, LostAck, ReserveRows,
     Standing, OwnHolds, Backed, AcksArrive, InPerform, Noted, TypeOK, Goto, Outcomes, storeVars, providerVars, faultVars
<1>4. ASSUME NEW r \in Requests, TakeSlot(r)
      PROVE  AcksArrive'
  BY <1>4 DEF TakeSlot,
     Standing, OwnHolds, Backed, AcksArrive, InPerform, Noted, TypeOK, Goto, Outcomes, storeVars, providerVars, faultVars
<1>5. ASSUME NEW r \in Requests, Shed(r)
      PROVE  AcksArrive'
  BY <1>5 DEF Shed,
     Standing, OwnHolds, Backed, AcksArrive, InPerform, Noted, TypeOK, Goto, Outcomes, storeVars, providerVars, faultVars
<1>6. ASSUME NEW r \in Requests, NEW place \in {"answered", "unwinding"}, LeaveSlot(r, place)
      PROVE  AcksArrive'
  BY <1>6 DEF LeaveSlot,
     Standing, OwnHolds, Backed, AcksArrive, InPerform, Noted, TypeOK, Goto, Outcomes, storeVars, providerVars, faultVars
<1>7. ASSUME NEW r \in Requests, Upsert(r) \/ SettleViolatesCheck(r) \/ CompletionFails(r)
      PROVE  AcksArrive'
  BY <1>7 DEF Upsert, SettleViolatesCheck, CompletionFails, DatabaseError,
     Standing, OwnHolds, Backed, AcksArrive, InPerform, Noted, TypeOK, Goto, Outcomes, storeVars, providerVars, faultVars
<1>8. ASSUME NEW r \in Requests, Settle(r) \/ SettleAckLost(r)
      PROVE  AcksArrive'
  BY <1>8 DEF Settle, SettleAckLost, LostAck, ChargeRows,
     Standing, OwnHolds, Backed, AcksArrive, InPerform, Noted, TypeOK, Goto, Outcomes, storeVars, providerVars, faultVars
<1>9. ASSUME NEW r \in Requests, InsertJob(r) \/ InsertJobFails(r)
      PROVE  AcksArrive'
  BY <1>9 DEF InsertJob, InsertJobFails, DatabaseError, LostAck,
     Standing, OwnHolds, Backed, AcksArrive, InPerform, Noted, TypeOK, Goto, Outcomes, storeVars, providerVars, faultVars
<1>10. ASSUME NEW r \in Requests, Unwind(r) \/ UnwindAckLost(r)
      PROVE  AcksArrive'
  BY <1>10 DEF Unwind, UnwindAckLost, LostAck, UnwindRows, ChargeRows, ReleaseRows,
     Standing, OwnHolds, Backed, AcksArrive, InPerform, Noted, TypeOK, Goto, Outcomes, storeVars, providerVars, faultVars
<1>11. ASSUME NEW r \in Requests, UnwindFails(r) \/ UnwindViolatesCheck(r)
      PROVE  AcksArrive'
  BY <1>11 DEF UnwindFails, UnwindViolatesCheck, DatabaseError,
     Standing, OwnHolds, Backed, AcksArrive, InPerform, Noted, TypeOK, Goto, Outcomes, storeVars, providerVars, faultVars
<1>12. ASSUME NEW r \in Requests, Provider(r)
      PROVE  AcksArrive'
  BY <1>12 DEF Provider, AcceptCall, RefuseCall, ChargeCall, ProviderMoves,
     Standing, OwnHolds, Backed, AcksArrive, InPerform, Noted, TypeOK, Goto, Outcomes, storeVars, providerVars, faultVars
<1>13. ASSUME NEW p \in Replicas, Crash(p)
      PROVE  AcksArrive'
  BY <1>13 DEF Crash,
     Standing, OwnHolds, Backed, AcksArrive, InPerform, Noted, TypeOK, Goto, Outcomes, storeVars, providerVars, faultVars
<1>14. CASE Rest
  BY <1>14 DEF Rest, vars, Standing, OwnHolds, Backed, AcksArrive, InPerform, Noted
<1>15. QED
  BY <1>1, <1>2, <1>3, <1>4, <1>5, <1>6, <1>7, <1>8, <1>9, <1>10, <1>11, <1>12, <1>13, <1>14
     DEF Next, Handler, Fault, Admission, Calling, Answer, CallFails, Deadline,
         Completion, Unwinding

(* No step of the system gives a lost COMMIT answer back. *)
LEMMA AcksOnlyGetLost ==
  ASSUME TypeOK, Next
  PROVE  lostAcks' = 0 => lostAcks = 0
<1>1. lostAcks \in Nat
  BY PipelineAssumption DEF TypeOK
<1>2. ASSUME NEW r \in Requests, Arrive(r) \/ Admission(r) \/ Calling(r)
      PROVE  lostAcks' = lostAcks
  BY <1>2 DEF Arrive, Admission, RefuseBatch, Reserve, RefuseAllowance, Calling, TakeSlot, Shed,
     Answer, CallFails, Deadline, LeaveSlot, faultVars
<1>3. ASSUME NEW r \in Requests, Completion(r) \/ Unwinding(r) \/ Provider(r)
      PROVE  lostAcks' = lostAcks
  BY <1>3 DEF Completion, Upsert, Settle, SettleViolatesCheck, InsertJob, Unwinding, Unwind,
     UnwindViolatesCheck, Provider, AcceptCall, RefuseCall, ChargeCall, ProviderMoves, faultVars
<1>4. ASSUME NEW r \in Requests, Fault(r)
      PROVE  lostAcks' = lostAcks \/ lostAcks' = lostAcks + 1
  BY <1>4 DEF Fault, ReserveFails, ReserveAckLost, CompletionFails, SettleAckLost, InsertJobFails,
     UnwindFails, UnwindAckLost, DatabaseError, LostAck
<1>5. ASSUME NEW p \in Replicas, Crash(p)
      PROVE  lostAcks' = lostAcks
  BY <1>5 DEF Crash
<1>6. CASE Rest
  BY <1>6 DEF Rest, vars
<1>7. QED
  BY <1>1, <1>2, <1>3, <1>4, <1>5, <1>6 DEF Next, Handler

-----------------------------------------------------------------------------
(* Money *)

(* A requests' hold moves from one kind to another: how the secured requests
   and those that gave back follow.                                          *)
LEMMA SecuredMoves ==
  ASSUME TypeOK, NEW r \in Requests, NEW new, req' = req, carried' = carried,
         hold' = [hold EXCEPT ![r] = new], NEW t
  PROVE  /\ \A x \in Requests : x # r =>
              /\ x \in Secured(t)' <=> x \in Secured(t)
              /\ x \in GaveBack(t)' <=> x \in GaveBack(t)
         /\ r \in Secured(t)' <=>
              /\ Tenant(r) = t
              /\ new \in {"held", "charged"} \/ (new = "charged_twice" /\ r \notin carried)
         /\ r \in GaveBack(t)' <=> r \in carried /\ new = "released" /\ Tenant(r) = t
<1>1. \A x \in Requests : hold'[x] = IF x = r THEN new ELSE hold[x]
  BY DEF TypeOK
<1>2. QED
  BY <1>1 DEF Secured, GaveBack, Tenant

LEMMA SecuredAreRequests ==
  \A t : /\ Secured(t) \in SUBSET Requests /\ Secured(t)' \in SUBSET Requests
         /\ GaveBack(t) \in SUBSET Requests /\ GaveBack(t)' \in SUBSET Requests
BY DEF Secured, GaveBack

(* A reservation secures one more request, and holds its cents for it. *)
LEMMA InheritsReserve ==
  ASSUME TypeOK, Inherits, NEW r \in Requests, req' = req, carried' = carried,
         hold[r] = "none", ReserveRows(r), NEW t \in Tenants
  PROVE  W(req', Secured(t)')
           <= account'[t].committed + account'[t].reserved + W(req', GaveBack(t)')
<1>1. PICK c : c = Cents(r) /\ c = Price * req[r].lookups /\ c \in Nat
  BY DescriptorFacts
<1>2. PICK new : new = "held" /\ hold' = [hold EXCEPT ![r] = new]
  BY DEF ReserveRows
<1>3. PICK S, G : S = Secured(t) /\ G = GaveBack(t) /\ S \in SUBSET Requests
  BY SecuredAreRequests
<1>4. PICK S1, G1 : S1 = Secured(t)' /\ G1 = GaveBack(t)' /\ S1 \in SUBSET Requests
                    /\ G1 \in SUBSET Requests
  BY SecuredAreRequests
<1>5. /\ \A x \in Requests : x # r => (x \in S1 <=> x \in S) /\ (x \in G1 <=> x \in G)
      /\ r \in S1 <=> Tenant(r) = t
      /\ r \notin G1 /\ r \notin G /\ r \notin S
  <2>1. r \notin GaveBack(t) /\ r \notin Secured(t)
    BY DEF GaveBack, Secured
  <2>2. QED
    BY <1>2, <1>3, <1>4, <2>1, SecuredMoves
<1>6. G1 = G
  BY <1>3, <1>4, <1>5 DEF GaveBack
<1>7. PICK w, w1, g : /\ w = W(req, S) /\ w \in Nat
                      /\ w1 = W(req, S1) /\ w1 \in Nat
                      /\ g = W(req, G) /\ g \in Nat
  BY WorthIsNat
<1>8. w <= account[t].committed + account[t].reserved + g
  BY <1>3, <1>7 DEF Inherits
<1>9. account[t].committed \in Nat /\ account[t].reserved \in Nat
  BY DEF TypeOK
<1>10. CASE Tenant(r) = t
  <2>1. S1 = S \cup {r}
    BY <1>3, <1>4, <1>5, <1>10
  <2>2. w1 = w + c
    <3>1. req \in [Requests -> Workload]
      BY DEF TypeOK
    <3>2. QED
      BY <1>1, <1>3, <1>5, <1>7, <2>1, <3>1, WorthAdd
  <2>3. /\ account'[t].committed = account[t].committed
        /\ account'[t].reserved = account[t].reserved + c
    BY <1>1, <1>10 DEF ReserveRows, TypeOK
  <2>4. w1 <= account'[t].committed + account'[t].reserved + g
    BY <1>1, <1>7, <1>8, <1>9, <2>2, <2>3
  <2>5. QED
    BY <1>3, <1>4, <1>6, <1>7, <2>4
<1>11. CASE Tenant(r) # t
  <2>1. S1 = S
    BY <1>3, <1>4, <1>5, <1>11
  <2>2. account'[t] = account[t]
    BY <1>11 DEF ReserveRows, TypeOK
  <2>3. QED
    BY <1>3, <1>4, <1>6, <1>7, <1>8, <2>1, <2>2
<1>12. QED
  BY <1>10, <1>11

(* A charge moves money from held to charged and secures nobody else. *)
LEMMA InheritsCharge ==
  ASSUME TypeOK, Positions, Inherits, NEW r \in Requests, req' = req, carried' = carried,
         phase[r] = "stored" \/ (phase[r] = "unwinding" /\ attempted[r]),
         ChargeRows(r), NEW t \in Tenants
  PROVE  W(req', Secured(t)')
           <= account'[t].committed + account'[t].reserved + W(req', GaveBack(t)')
<1>1. PICK c : c = Cents(r) /\ c \in Nat
  BY DescriptorFacts
<1>2. PICK new : /\ new = IF hold[r] = "held" THEN "charged" ELSE "charged_twice"
                 /\ hold' = [hold EXCEPT ![r] = new]
  BY DEF ChargeRows
<1>3. PICK S, G : S = Secured(t) /\ G = GaveBack(t) /\ G \in SUBSET Requests
  BY SecuredAreRequests
<1>4. PICK S1, G1 : S1 = Secured(t)' /\ G1 = GaveBack(t)' /\ S1 \in SUBSET Requests
                    /\ G1 \in SUBSET Requests
  BY SecuredAreRequests
<1>5. hold[r] # "released" /\ (r \notin carried => hold[r] \in {"held", "charged"})
  BY DEF Positions, Standing, OwnHolds
<1>6. /\ \A x \in Requests : x # r => (x \in S1 <=> x \in S) /\ (x \in G1 <=> x \in G)
      /\ r \in S1 => r \in S
      /\ r \notin G1 /\ r \notin G
  <2>1. r \notin GaveBack(t)
    BY <1>5 DEF GaveBack
  <2>2. r \in Secured(t)' => r \in Secured(t)
    <3>1. r \in Secured(t)' <=>
            /\ Tenant(r) = t
            /\ new \in {"held", "charged"} \/ (new = "charged_twice" /\ r \notin carried)
      BY <1>2, SecuredMoves
    <3>2. QED
      BY <1>2, <1>5, <3>1 DEF Secured
  <2>3. /\ \A x \in Requests : x # r =>
             /\ x \in Secured(t)' <=> x \in Secured(t)
             /\ x \in GaveBack(t)' <=> x \in GaveBack(t)
        /\ r \in GaveBack(t)' <=> r \in carried /\ new = "released" /\ Tenant(r) = t
    BY <1>2, SecuredMoves
  <2>4. QED
    BY <1>2, <1>3, <1>4, <2>1, <2>2, <2>3
<1>7. G1 = G /\ S1 \subseteq S
  BY <1>3, <1>4, <1>6
<1>8. PICK w, w1, g : /\ w = W(req, S) /\ w \in Nat
                      /\ w1 = W(req, S1) /\ w1 \in Nat
                      /\ g = W(req, G) /\ g \in Nat
  BY WorthIsNat
<1>9. w1 <= w
  BY <1>7, <1>8, WorthMonotone
<1>10. w <= account[t].committed + account[t].reserved + g
  BY <1>3, <1>8 DEF Inherits
<1>11. account'[t].committed + account'[t].reserved
         = account[t].committed + account[t].reserved
  BY <1>1 DEF ChargeRows, CanSettle, TypeOK
<1>12. account[t].committed + account[t].reserved \in Nat
  BY DEF TypeOK
<1>13. w1 <= account'[t].committed + account'[t].reserved + g
  BY <1>8, <1>9, <1>10, <1>11, <1>12
<1>14. QED
  BY <1>3, <1>4, <1>7, <1>8, <1>13

(* A release gives back the request's own cents, or those of a hold the rows
   no longer had.                                                            *)
LEMMA InheritsRelease ==
  ASSUME TypeOK, Positions, Inherits, NEW r \in Requests, req' = req, carried' = carried,
         phase[r] = "unwinding", ~attempted[r], ReleaseRows(r), NEW t \in Tenants
  PROVE  W(req', Secured(t)')
           <= account'[t].committed + account'[t].reserved + W(req', GaveBack(t)')
<1>1. PICK c : c = Cents(r) /\ c = Price * req[r].lookups /\ c \in Nat
  BY DescriptorFacts
<1>2. PICK new : new = "released" /\ hold' = [hold EXCEPT ![r] = new]
  BY DEF ReleaseRows
<1>3. PICK S, G : S = Secured(t) /\ G = GaveBack(t) /\ S \in SUBSET Requests
                  /\ G \in SUBSET Requests
  BY SecuredAreRequests
<1>4. PICK S1, G1 : S1 = Secured(t)' /\ G1 = GaveBack(t)' /\ S1 \in SUBSET Requests
                    /\ G1 \in SUBSET Requests
  BY SecuredAreRequests
<1>5. hold[r] = "held" \/ (hold[r] = "none" /\ r \in carried)
  BY DEF Positions, Standing, OwnHolds, Outcomes, TypeOK, Holds
<1>6. /\ \A x \in Requests : x # r => (x \in S1 <=> x \in S) /\ (x \in G1 <=> x \in G)
      /\ r \notin S1 /\ (r \in S <=> hold[r] = "held" /\ Tenant(r) = t)
      /\ r \in G1 <=> r \in carried /\ Tenant(r) = t
      /\ r \notin G
  <2>1. r \notin GaveBack(t) /\ (r \in Secured(t) <=> hold[r] = "held" /\ Tenant(r) = t)
    BY <1>5 DEF GaveBack, Secured
  <2>2. /\ \A x \in Requests : x # r =>
             /\ x \in Secured(t)' <=> x \in Secured(t)
             /\ x \in GaveBack(t)' <=> x \in GaveBack(t)
        /\ r \in GaveBack(t)' <=> r \in carried /\ new = "released" /\ Tenant(r) = t
        /\ r \in Secured(t)' <=>
             /\ Tenant(r) = t
             /\ new \in {"held", "charged"} \/ (new = "charged_twice" /\ r \notin carried)
    BY <1>2, SecuredMoves
  <2>3. QED
    BY <1>2, <1>3, <1>4, <2>1, <2>2
<1>7. PICK w, w1, g, g1 : /\ w = W(req, S) /\ w \in Nat
                          /\ w1 = W(req, S1) /\ w1 \in Nat
                          /\ g = W(req, G) /\ g \in Nat
                          /\ g1 = W(req, G1) /\ g1 \in Nat
  BY WorthIsNat
<1>8. w <= account[t].committed + account[t].reserved + g
  BY <1>3, <1>7 DEF Inherits
<1>9. /\ account[t].committed \in Nat /\ account[t].reserved \in Nat
      /\ Tenant(r) = t => c <= account[t].reserved
  BY <1>1 DEF ReleaseRows, CanSettle, TypeOK
<1>10. req \in [Requests -> Workload]
  BY DEF TypeOK
<1>11. SUFFICES w1 <= account'[t].committed + account'[t].reserved + g1
  BY <1>3, <1>4, <1>7
<1>12. CASE Tenant(r) = t /\ hold[r] = "held"
  <2>1. S = S1 \cup {r} /\ G \subseteq G1
    BY <1>3, <1>4, <1>6, <1>12
  <2>2. w = w1 + c
    BY <1>1, <1>4, <1>6, <1>7, <1>10, <2>1, WorthAdd
  <2>3. g <= g1
    BY <1>7, <2>1, WorthMonotone
  <2>4. /\ account'[t].committed = account[t].committed
        /\ account'[t].reserved = account[t].reserved - c
    BY <1>1, <1>12 DEF ReleaseRows, TypeOK
  <2>5. QED
    BY <1>1, <1>7, <1>8, <1>9, <1>12, <2>2, <2>3, <2>4
<1>13. CASE Tenant(r) = t /\ hold[r] # "held"
  <2>1. S1 = S /\ G1 = G \cup {r}
    BY <1>3, <1>4, <1>5, <1>6, <1>13
  <2>2. g1 = g + c
    BY <1>1, <1>3, <1>6, <1>7, <1>10, <2>1, WorthAdd
  <2>3. /\ account'[t].committed = account[t].committed
        /\ account'[t].reserved = account[t].reserved - c
    BY <1>1, <1>13 DEF ReleaseRows, TypeOK
  <2>4. QED
    BY <1>1, <1>7, <1>8, <1>9, <1>13, <2>1, <2>2, <2>3
<1>14. CASE Tenant(r) # t
  <2>1. S1 = S /\ G1 = G
    BY <1>3, <1>4, <1>6, <1>14
  <2>2. account'[t] = account[t]
    BY <1>14 DEF ReleaseRows, TypeOK
  <2>3. QED
    BY <1>7, <1>8, <2>1, <2>2
<1>15. QED
  BY <1>12, <1>13, <1>14

(* What is carried for nobody moves when a request arrives. *)
LEMMA InheritsArrive ==
  ASSUME TypeOK, Positions, Inherits, carried' = carried, NEW r \in Requests, Arrive(r),
         NEW t \in Tenants
  PROVE  W(req', Secured(t)')
           <= account'[t].committed + account'[t].reserved + W(req', GaveBack(t)')
<1>1. hold[r] = "none" /\ hold' = hold /\ account' = account
  BY DEF Arrive, Positions, Standing, storeVars
<1>2. \A x \in Requests : x # r => req'[x] = req[x]
  BY DEF Arrive, TypeOK
<1>3. /\ Secured(t)' = Secured(t) /\ GaveBack(t)' = GaveBack(t)
      /\ r \notin Secured(t) /\ r \notin GaveBack(t)
  BY <1>1, <1>2 DEF Secured, GaveBack, Tenant
<1>4. /\ \A x \in Secured(t) : req'[x] = req[x]
      /\ \A x \in GaveBack(t) : req'[x] = req[x]
  BY <1>2, <1>3 DEF Secured, GaveBack
<1>5. Units(req', Secured(t)) = Units(req, Secured(t))
  BY <1>4, UnitsLocal
<1>6. Units(req', GaveBack(t)) = Units(req, GaveBack(t))
  BY <1>4, UnitsLocal
<1>7. QED
  BY <1>1, <1>3, <1>5, <1>6 DEF Inherits, W

(* Every step of the running system keeps what is inherited accounted for. *)
LEMMA InheritsStep ==
  ASSUME TypeOK, Positions, Inherits, Next, Noted
  PROVE  Inherits'
<1>1. carried' = carried
  BY DEF Noted
<1>2. SUFFICES ASSUME NEW t \in Tenants
               PROVE  W(req', Secured(t)')
                        <= account'[t].committed + account'[t].reserved + W(req', GaveBack(t)')
  BY DEF Inherits, W, Units
<1>3. CASE UNCHANGED <<storeVars, req>>
  <2>1. Secured(t)' = Secured(t) /\ GaveBack(t)' = GaveBack(t)
    BY <1>1, <1>3 DEF Secured, GaveBack, Tenant, storeVars
  <2>2. QED
    BY <1>3, <2>1 DEF Inherits, storeVars
<1>4. ASSUME NEW r \in Requests, Arrive(r)
      PROVE  W(req', Secured(t)')
               <= account'[t].committed + account'[t].reserved + W(req', GaveBack(t)')
  BY <1>1, <1>4, InheritsArrive
<1>5. ASSUME NEW r \in Requests, req' = req, ReserveRows(r), phase[r] = "arrived"
      PROVE  W(req', Secured(t)')
               <= account'[t].committed + account'[t].reserved + W(req', GaveBack(t)')
  <2>1. hold[r] = "none"
    BY <1>5 DEF Positions, Standing
  <2>2. QED
    BY <1>1, <1>5, <2>1, InheritsReserve
<1>6. ASSUME NEW r \in Requests, req' = req, ChargeRows(r),
             phase[r] = "stored" \/ (phase[r] = "unwinding" /\ attempted[r])
      PROVE  W(req', Secured(t)')
               <= account'[t].committed + account'[t].reserved + W(req', GaveBack(t)')
  BY <1>1, <1>6, InheritsCharge
<1>7. ASSUME NEW r \in Requests, req' = req, ReleaseRows(r),
             phase[r] = "unwinding", ~attempted[r]
      PROVE  W(req', Secured(t)')
               <= account'[t].committed + account'[t].reserved + W(req', GaveBack(t)')
  BY <1>1, <1>7, InheritsRelease
<1>8. QED
  BY <1>3, <1>4, <1>5, <1>6, <1>7, RowSteps

(* A reservation adds to what is held, and to nothing else. *)
LEMMA ExactReserve ==
  ASSUME TypeOK, RowsExact, lostAcks = 0, NEW r \in Requests, req' = req,
         hold[r] = "none", ReserveRows(r)
  PROVE  /\ \A t \in Tenants :
              /\ account'[t].reserved + W(req, Of(t, Twice)') <= W(req, Of(t, Open)')
              /\ account'[t].committed = W(req, Of(t, Charged)')
         /\ period'.committed = W(req, HoldsOf(Charged)')
<1>1. PICK t0 : t0 = Tenant(r) /\ t0 \in Tenants
  BY DescriptorFacts
<1>2. PICK c : c = Cents(r) /\ c \in Nat
  BY DescriptorFacts
<1>3. PICK new : new = "held" /\ hold' = [hold EXCEPT ![r] = new]
  BY DEF ReserveRows
<1>4. W(req, Of(t0, Twice)') = W(req, Of(t0, Twice))
  <2>1. new \in Twice <=> hold[r] \in Twice
    BY <1>3 DEF Twice
  <2>2. QED
    BY <1>1, <1>3, <2>1, WorthStays, ZenonT(30)
<1>5. W(req, Of(t0, Open)') = W(req, Of(t0, Open)) + c
  <2>1. new \in Open /\ hold[r] \notin Open
    BY <1>3 DEF Open
  <2>2. QED
    BY <1>1, <1>2, <1>3, <2>1, WorthEnters, ZenonT(30)
<1>6. /\ W(req, HoldsOf(Charged)') = W(req, HoldsOf(Charged))
      /\ W(req, Of(t0, Charged)') = W(req, Of(t0, Charged))
  <2>1. new \in Charged <=> hold[r] \in Charged
    BY <1>3 DEF Charged
  <2>2. QED
    BY <1>1, <1>3, <2>1, WorthStays, ZenonT(30)
<1>7. ASSUME NEW t, t # t0
      PROVE  /\ Of(t, Twice)' = Of(t, Twice)
             /\ Of(t, Open)' = Of(t, Open)
             /\ Of(t, Charged)' = Of(t, Charged)
  BY <1>1, <1>3, <1>7, OthersUnmoved, ZenonT(30)
<1>8. PICK w, h : w = W(req, Of(t0, Twice)) /\ w \in Nat /\ h = W(req, Of(t0, Open)) /\ h \in Nat
  BY WorthIsNat
<1>9. /\ account'[t0].reserved = account[t0].reserved + c
      /\ account[t0].reserved \in Nat
      /\ account'[t0].committed = account[t0].committed
      /\ period'.committed = period.committed
      /\ \A t \in Tenants : t # t0 => account'[t] = account[t]
  BY <1>1, <1>2 DEF ReserveRows, TypeOK
<1>10. account[t0].reserved + w <= h
  BY <1>1, <1>8 DEF RowsExact
<1>11. account'[t0].reserved + W(req, Of(t0, Twice)') <= W(req, Of(t0, Open)')
  <2>1. account'[t0].reserved + w <= h + c
    BY <1>2, <1>8, <1>9, <1>10
  <2>2. QED
    BY <1>4, <1>5, <1>8, <2>1
<1>12. account'[t0].committed = W(req, Of(t0, Charged)')
  BY <1>1, <1>6, <1>9 DEF RowsExact
<1>13. period'.committed = W(req, HoldsOf(Charged)')
  BY <1>6, <1>9 DEF RowsExact
<1>14. QED
  BY <1>7, <1>9, <1>11, <1>12, <1>13 DEF RowsExact

(* A charge moves the request's own cents from held to charged, or, where the
   rows no longer have its hold, cents that were held for others.            *)
LEMMA ExactCharge ==
  ASSUME TypeOK, RowsExact, lostAcks = 0, NEW r \in Requests, req' = req,
         hold[r] \in {"none", "held"}, ChargeRows(r)
  PROVE  /\ \A t \in Tenants :
              /\ account'[t].reserved + W(req, Of(t, Twice)') <= W(req, Of(t, Open)')
              /\ account'[t].committed = W(req, Of(t, Charged)')
         /\ period'.committed = W(req, HoldsOf(Charged)')
<1>1. PICK t0 : t0 = Tenant(r) /\ t0 \in Tenants
  BY DescriptorFacts
<1>2. PICK c : c = Cents(r) /\ c \in Nat
  BY DescriptorFacts
<1>3. PICK new : /\ new = IF hold[r] = "held" THEN "charged" ELSE "charged_twice"
                 /\ hold' = [hold EXCEPT ![r] = new]
  BY DEF ChargeRows
<1>4. /\ W(req, HoldsOf(Charged)') = W(req, HoldsOf(Charged)) + c
      /\ W(req, Of(t0, Charged)') = W(req, Of(t0, Charged)) + c
  <2>1. new \in Charged /\ hold[r] \notin Charged
    BY <1>3 DEF Charged
  <2>2. QED
    BY <1>1, <1>2, <1>3, <2>1, WorthEnters, ZenonT(30)
<1>5. ASSUME NEW t, t # t0
      PROVE  /\ Of(t, Twice)' = Of(t, Twice)
             /\ Of(t, Open)' = Of(t, Open)
             /\ Of(t, Charged)' = Of(t, Charged)
  BY <1>1, <1>3, <1>5, OthersUnmoved, ZenonT(30)
<1>6. PICK w, h, w1, h1, k, m :
        /\ w = W(req, Of(t0, Twice)) /\ w \in Nat
        /\ h = W(req, Of(t0, Open)) /\ h \in Nat
        /\ w1 = W(req, Of(t0, Twice)') /\ w1 \in Nat
        /\ h1 = W(req, Of(t0, Open)') /\ h1 \in Nat
        /\ k = W(req, Of(t0, Charged)) /\ k \in Nat
        /\ m = W(req, HoldsOf(Charged)) /\ m \in Nat
  BY WorthIsNat
<1>7. /\ account'[t0].reserved = account[t0].reserved - c
      /\ account[t0].reserved \in Nat /\ c <= account[t0].reserved
      /\ account'[t0].committed = account[t0].committed + c
      /\ period'.committed = period.committed + c
      /\ \A t \in Tenants : t # t0 => account'[t] = account[t]
  BY <1>1, <1>2 DEF ChargeRows, CanSettle, TypeOK
<1>8. account[t0].reserved + w <= h
  BY <1>1, <1>6 DEF RowsExact
<1>9. account'[t0].reserved + w1 <= h1
  <2>1. CASE hold[r] = "held"
    <3>1. w1 = w
      <4>1. new \in Twice <=> hold[r] \in Twice
        BY <1>3, <2>1 DEF Twice
      <4>2. W(req, Of(t0, Twice)') = W(req, Of(t0, Twice))
        BY <1>1, <1>3, <4>1, WorthStays, ZenonT(30)
      <4>3. QED
        BY <1>6, <4>2
    <3>2. h = h1 + c
      <4>1. new \notin Open /\ hold[r] \in Open
        BY <1>3, <2>1 DEF Open
      <4>2. W(req, Of(t0, Open)) = W(req, Of(t0, Open)') + c
        BY <1>1, <1>2, <1>3, <4>1, WorthLeaves, ZenonT(30)
      <4>3. QED
        BY <1>6, <4>2
    <3>3. QED
      BY <1>2, <1>6, <1>7, <1>8, <3>1, <3>2
  <2>2. CASE hold[r] = "none"
    <3>1. w1 = w + c
      <4>1. new \in Twice /\ hold[r] \notin Twice
        BY <1>3, <2>2 DEF Twice
      <4>2. W(req, Of(t0, Twice)') = W(req, Of(t0, Twice)) + c
        BY <1>1, <1>2, <1>3, <4>1, WorthEnters, ZenonT(30)
      <4>3. QED
        BY <1>6, <4>2
    <3>2. h1 = h
      <4>1. new \in Open <=> hold[r] \in Open
        BY <1>3, <2>2 DEF Open
      <4>2. W(req, Of(t0, Open)') = W(req, Of(t0, Open))
        BY <1>1, <1>3, <4>1, WorthStays, ZenonT(30)
      <4>3. QED
        BY <1>6, <4>2
    <3>3. QED
      BY <1>2, <1>6, <1>7, <1>8, <3>1, <3>2
  <2>3. QED
    BY <2>1, <2>2
<1>10. account'[t0].committed = W(req, Of(t0, Charged)')
  BY <1>1, <1>4, <1>7 DEF RowsExact
<1>11. period'.committed = W(req, HoldsOf(Charged)')
  BY <1>4, <1>7 DEF RowsExact
<1>12. ASSUME NEW t \in Tenants
       PROVE  /\ account'[t].reserved + W(req, Of(t, Twice)') <= W(req, Of(t, Open)')
              /\ account'[t].committed = W(req, Of(t, Charged)')
  <2>1. CASE t = t0
    BY <1>6, <1>9, <1>10, <2>1
  <2>2. CASE t # t0
    BY <1>5, <1>7, <2>2 DEF RowsExact
  <2>3. QED
    BY <2>1, <2>2
<1>13. QED
  BY <1>11, <1>12

(* A release takes from what is held at least as much as from the rows' holds. *)
LEMMA ExactRelease ==
  ASSUME TypeOK, RowsExact, lostAcks = 0, NEW r \in Requests, req' = req,
         hold[r] \in {"none", "held"}, ReleaseRows(r)
  PROVE  /\ \A t \in Tenants :
              /\ account'[t].reserved + W(req, Of(t, Twice)') <= W(req, Of(t, Open)')
              /\ account'[t].committed = W(req, Of(t, Charged)')
         /\ period'.committed = W(req, HoldsOf(Charged)')
<1>1. PICK t0 : t0 = Tenant(r) /\ t0 \in Tenants
  BY DescriptorFacts
<1>2. PICK c : c = Cents(r) /\ c \in Nat
  BY DescriptorFacts
<1>3. PICK new : new = "released" /\ hold' = [hold EXCEPT ![r] = new]
  BY DEF ReleaseRows
<1>4. W(req, Of(t0, Twice)') = W(req, Of(t0, Twice))
  <2>1. new \in Twice <=> hold[r] \in Twice
    BY <1>3 DEF Twice
  <2>2. QED
    BY <1>1, <1>3, <2>1, WorthStays, ZenonT(30)
<1>5. /\ W(req, HoldsOf(Charged)') = W(req, HoldsOf(Charged))
      /\ W(req, Of(t0, Charged)') = W(req, Of(t0, Charged))
  <2>1. new \in Charged <=> hold[r] \in Charged
    BY <1>3 DEF Charged
  <2>2. QED
    BY <1>1, <1>3, <2>1, WorthStays, ZenonT(30)
<1>6. ASSUME NEW t, t # t0
      PROVE  /\ Of(t, Twice)' = Of(t, Twice)
             /\ Of(t, Open)' = Of(t, Open)
             /\ Of(t, Charged)' = Of(t, Charged)
  BY <1>1, <1>3, <1>6, OthersUnmoved, ZenonT(30)
<1>7. PICK w, h, h1 : /\ w = W(req, Of(t0, Twice)) /\ w \in Nat
                      /\ h = W(req, Of(t0, Open)) /\ h \in Nat
                      /\ h1 = W(req, Of(t0, Open)') /\ h1 \in Nat
  BY WorthIsNat
<1>8. /\ account'[t0].reserved = account[t0].reserved - c
      /\ account[t0].reserved \in Nat /\ c <= account[t0].reserved
      /\ account'[t0].committed = account[t0].committed
      /\ period'.committed = period.committed
      /\ \A t \in Tenants : t # t0 => account'[t] = account[t]
  BY <1>1, <1>2 DEF ReleaseRows, CanSettle, TypeOK
<1>9. account[t0].reserved + w <= h
  BY <1>1, <1>7 DEF RowsExact
<1>10. h <= h1 + c
  <2>1. CASE hold[r] = "held"
    <3>1. new \notin Open /\ hold[r] \in Open
      BY <1>3, <2>1 DEF Open
    <3>2. W(req, Of(t0, Open)) = W(req, Of(t0, Open)') + c
      BY <1>1, <1>2, <1>3, <3>1, WorthLeaves, ZenonT(30)
    <3>3. QED
      BY <1>2, <1>7, <3>2
  <2>2. CASE hold[r] = "none"
    <3>1. new \in Open <=> hold[r] \in Open
      BY <1>3, <2>2 DEF Open
    <3>2. W(req, Of(t0, Open)') = W(req, Of(t0, Open))
      BY <1>1, <1>3, <3>1, WorthStays, ZenonT(30)
    <3>3. QED
      BY <1>2, <1>7, <3>2
  <2>3. QED
    BY <2>1, <2>2
<1>11. account'[t0].reserved + W(req, Of(t0, Twice)') <= W(req, Of(t0, Open)')
  <2>1. account'[t0].reserved + w <= h1
    BY <1>2, <1>7, <1>8, <1>9, <1>10
  <2>2. QED
    BY <1>4, <1>7, <2>1
<1>12. account'[t0].committed = W(req, Of(t0, Charged)')
  BY <1>1, <1>5, <1>8 DEF RowsExact
<1>13. period'.committed = W(req, HoldsOf(Charged)')
  BY <1>5, <1>8 DEF RowsExact
<1>14. QED
  BY <1>6, <1>8, <1>11, <1>12, <1>13 DEF RowsExact

(* Every step of the running system keeps the rows as exact as that. *)
LEMMA ExactStep ==
  ASSUME TypeOK, Positions, RowsExact, Next, Noted
  PROVE  RowsExact'
<1> DEFINE Exact ==
      /\ \A t \in Tenants :
           /\ account'[t].reserved + W(req', Of(t, Twice)') <= W(req', Of(t, Open)')
           /\ account'[t].committed = W(req', Of(t, Charged)')
      /\ period'.committed = W(req', HoldsOf(Charged)')
<1>1. SUFFICES ASSUME lostAcks = 0
               PROVE  Exact
  <2>1. lostAcks' = 0 => lostAcks = 0
    BY AcksOnlyGetLost
  <2>2. Exact /\ lostAcks = 0 => RowsExact'
    BY DEF RowsExact, W, Units
  <2>3. lostAcks' # 0 => RowsExact'
    BY DEF RowsExact
  <2>4. QED
    BY <2>1, <2>2, <2>3
<1>2. CASE UNCHANGED <<storeVars, req>>
  <2>1. \A K : HoldsOf(K)' = HoldsOf(K) /\ \A t : Of(t, K)' = Of(t, K)
    BY <1>2 DEF HoldsOf, Of, Tenant, storeVars
  <2>2. QED
    BY <1>1, <1>2, <2>1 DEF RowsExact, storeVars
<1>3. ASSUME NEW r \in Requests, Arrive(r)
      PROVE  Exact
  <2>1. hold[r] = "none" /\ hold' = hold /\ account' = account /\ period' = period
    BY <1>3 DEF Arrive, Positions, Standing, storeVars
  <2>2. \A x \in Requests : x # r => req'[x] = req[x]
    BY <1>3 DEF Arrive, TypeOK
  <2>3. ASSUME NEW K, "none" \notin K
        PROVE  /\ W(req', HoldsOf(K)') = W(req, HoldsOf(K))
               /\ \A t : W(req', Of(t, K)') = W(req, Of(t, K))
    <3>1. HoldsOf(K)' = HoldsOf(K) /\ \A x \in HoldsOf(K) : req'[x] = req[x]
      BY <2>1, <2>2, <2>3 DEF HoldsOf
    <3>2. \A t : Of(t, K)' = Of(t, K)
      BY <3>1 DEF Of, Tenant
    <3>3. Units(req', HoldsOf(K)) = Units(req, HoldsOf(K))
      BY <3>1, UnitsLocal
    <3>4. \A t : Units(req', Of(t, K)) = Units(req, Of(t, K))
      <4>1. ASSUME NEW t
            PROVE  Units(req', Of(t, K)) = Units(req, Of(t, K))
        <5>1. \A x \in Of(t, K) : req'[x] = req[x]
          BY <3>1 DEF Of
        <5>2. QED
          BY <5>1, UnitsLocal
      <4>2. QED
        BY <4>1
    <3>5. QED
      BY <3>1, <3>2, <3>3, <3>4 DEF W
  <2>4. "none" \notin Twice /\ "none" \notin Open /\ "none" \notin Charged
    BY DEF Twice, Open, Charged
  <2>5. ASSUME NEW t \in Tenants
        PROVE  /\ W(req', Of(t, Twice)') = W(req, Of(t, Twice))
               /\ W(req', Of(t, Open)') = W(req, Of(t, Open))
               /\ W(req', Of(t, Charged)') = W(req, Of(t, Charged))
    BY <2>3, <2>4
  <2>6. W(req', HoldsOf(Charged)') = W(req, HoldsOf(Charged))
    BY <2>3, <2>4
  <2>7. QED
    BY <1>1, <2>1, <2>5, <2>6 DEF RowsExact
<1>4. ASSUME NEW r \in Requests, req' = req, ReserveRows(r), phase[r] = "arrived"
      PROVE  Exact
  <2>1. hold[r] = "none"
    BY <1>4 DEF Positions, Standing
  <2>2. QED
    BY <1>1, <1>4, <2>1, ExactReserve
<1>5. ASSUME NEW r \in Requests, req' = req,
             \/ ChargeRows(r) /\ (phase[r] = "stored" \/ (phase[r] = "unwinding" /\ attempted[r]))
             \/ ReleaseRows(r) /\ phase[r] = "unwinding" /\ ~attempted[r]
      PROVE  Exact
  <2>1. hold[r] \in {"none", "held"}
    BY <1>1, <1>5 DEF Positions, Standing, OwnHolds, AcksArrive, InPerform, Outcomes,
       TypeOK, Holds
  <2>2. QED
    BY <1>1, <1>5, <2>1, ExactCharge, ExactRelease
<1>6. QED
  BY <1>2, <1>3, <1>4, <1>5, RowSteps

-----------------------------------------------------------------------------
(* The provider's books *)

(* Only an arrival and the provider's charge touch what they depend on. *)
LEMMA CountedSteps ==
  ASSUME TypeOK, Next, Noted
  PROVE  \/ UNCHANGED <<req, ledger, counted>>
         \/ \E r \in Requests : Arrive(r) \/ ChargeCall(r)
<1> DEFINE Kept == UNCHANGED <<req, ledger, counted>>
<1>1. ASSUME call' = call
      PROVE  counted' = counted
  BY <1>1 DEF Noted
<1>2. ASSUME NEW r \in Requests, Admission(r) \/ Completion(r) \/ Unwinding(r) \/ Fault(r)
      PROVE  Kept
  BY <1>1, <1>2 DEF Admission, RefuseBatch, Reserve, RefuseAllowance, Completion, Upsert, Settle,
     SettleViolatesCheck, InsertJob, Unwinding, Unwind, UnwindViolatesCheck, Fault, ReserveFails,
     ReserveAckLost, CompletionFails, SettleAckLost, InsertJobFails, UnwindFails, UnwindAckLost,
     providerVars
<1>3. ASSUME NEW r \in Requests, Calling(r)
      PROVE  Kept
  <2>1. CASE TakeSlot(r)
    BY <2>1 DEF TakeSlot, Noted, TypeOK
  <2>2. CASE Shed(r) \/ Answer(r) \/ CallFails(r) \/ Deadline(r)
    BY <1>1, <2>2 DEF Shed, Answer, CallFails, Deadline, LeaveSlot, providerVars
  <2>3. QED
    BY <1>3, <2>1, <2>2 DEF Calling
<1>4. ASSUME NEW r \in Requests, AcceptCall(r) \/ RefuseCall(r)
      PROVE  Kept
  BY <1>4 DEF AcceptCall, RefuseCall, ProviderMoves, Noted, TypeOK
<1>5. ASSUME NEW p \in Replicas, Crash(p)
      PROVE  Kept
  BY <1>1, <1>5 DEF Crash, providerVars
<1>6. CASE Rest
  BY <1>1, <1>6 DEF Rest, vars
<1>7. QED
  BY <1>2, <1>3, <1>4, <1>5, <1>6 DEF Next, Handler, Provider

(* The books go on listing the calls billed since they were emptied. *)
LEMMA RunBooksStep ==
  ASSUME TypeOK, SeedTypeOK, Standing, RunBooks, Next, Noted
  PROVE  RunBooks' /\ ledger' \in [Tenants -> Nat]
<1> DEFINE Listed == \A t \in Tenants : ledger'[t] = Cardinality(Units(req', CountedFor(t)'))
<1>1. Listed => RunBooks'
  BY DEF RunBooks, Units
<1>2. CASE UNCHANGED <<req, ledger, counted>>
  <2>1. \A t : CountedFor(t)' = CountedFor(t)
    BY <1>2 DEF CountedFor, Tenant
  <2>2. QED
    BY <1>1, <1>2, <2>1 DEF RunBooks, TypeOK
<1>3. ASSUME NEW r \in Requests, Arrive(r)
      PROVE  RunBooks' /\ ledger' \in [Tenants -> Nat]
  <2>1. call' = call /\ ledger' = ledger /\ call[r] = "unsent" /\ r \notin counted
    BY <1>3 DEF Arrive, Standing, providerVars, TypeOK
  <2>2. counted' = counted
    BY <2>1 DEF Noted
  <2>3. \A x \in Requests : x # r => req'[x] = req[x]
    BY <1>3 DEF Arrive, TypeOK
  <2>4. \A t : CountedFor(t)' = CountedFor(t)
    BY <2>1, <2>2, <2>3 DEF CountedFor, Tenant
  <2>5. ASSUME NEW t \in Tenants
        PROVE  Units(req', CountedFor(t)) = Units(req, CountedFor(t))
    <3>1. \A x \in CountedFor(t) : req'[x] = req[x]
      BY <2>1, <2>3 DEF CountedFor
    <3>2. QED
      BY <3>1, UnitsLocal
  <2>6. Listed
    BY <2>1, <2>4, <2>5 DEF RunBooks
  <2>7. QED
    BY <1>1, <2>1, <2>6 DEF TypeOK
<1>4. ASSUME NEW r \in Requests, ChargeCall(r)
      PROVE  RunBooks' /\ ledger' \in [Tenants -> Nat]
  <2>1. PICK t0 : t0 = Tenant(r) /\ t0 \in Tenants
    BY DescriptorFacts
  <2>2. req' = req /\ req \in [Requests -> Workload] /\ req[r].lookups \in Nat
    BY <1>4, DescriptorFacts DEF ChargeCall, ProviderMoves, TypeOK
  <2>3. r \notin counted /\ counted' = counted \cup {r}
    BY <1>4 DEF ChargeCall, ProviderMoves, Standing, Noted, TypeOK
  <2>4. /\ r \notin CountedFor(t0)
        /\ CountedFor(t0)' = CountedFor(t0) \cup {r}
        /\ \A t \in Tenants : t # t0 => CountedFor(t)' = CountedFor(t)
    BY <2>1, <2>2, <2>3 DEF CountedFor, Tenant
  <2>5. /\ ledger' \in [Tenants -> Nat]
        /\ ledger'[t0] = ledger[t0] + req[r].lookups
        /\ \A t \in Tenants : t # t0 => ledger'[t] = ledger[t]
    BY <1>4, <2>1, <2>2 DEF ChargeCall, TypeOK
  <2>6. Cardinality(Units(req, CountedFor(t0) \cup {r}))
          = Cardinality(Units(req, CountedFor(t0))) + req[r].lookups
    <3>1. CountedFor(t0) \in SUBSET Requests
      BY DEF CountedFor
    <3>2. QED
      BY <2>2, <2>4, <3>1, UnitsAdd
  <2>7. ledger'[t0] = Cardinality(Units(req', CountedFor(t0)'))
    <3>1. ledger[t0] = Cardinality(Units(req, CountedFor(t0)))
      BY <2>1 DEF RunBooks
    <3>2. QED
      BY <2>2, <2>4, <2>5, <2>6, <3>1
  <2>8. Listed
    BY <2>2, <2>4, <2>5, <2>7 DEF RunBooks
  <2>9. QED
    BY <1>1, <2>5, <2>8
<1>5. QED
  BY <1>2, <1>3, <1>4, CountedSteps

-----------------------------------------------------------------------------
(* The two steps of a seeding *)

(* No requests are worth nothing. *)
LEMMA WorthNone ==
  ASSUME NEW q
  PROVE  W(q, {}) = 0
<1>1. Cardinality(Units(q, {})) = 0
  BY UnitsNone
<1>2. QED
  BY <1>1, PipelineAssumption DEF W

(* Rebuilding the rows takes every request on its way over, without its hold. *)
LEMMA ResetRowsStep ==
  ASSUME RunInv, ResetRows
  PROVE  RunInv'
<1>1. TypeOK /\ SeedTypeOK /\ SlotsMatchCalls /\ Ceilings /\ Positions /\ Inherits /\ RunBooks
  BY DEF RunInv
<1>2. /\ req' = req /\ phase' = phase /\ attempted' = attempted /\ call' = call
      /\ ledger' = ledger /\ counted' = counted /\ inFlight' = inFlight /\ runs' = runs
      /\ errors' = errors /\ lostAcks' = lostAcks /\ crashes' = crashes
      /\ seeding' = "rows" /\ jobs' = {}
      /\ carried' = {r \in Requests : Active(r) \/ AtProvider(r)}
      /\ \A r \in Requests : hold'[r] = "none"
      /\ hold' \in [Requests -> Holds]
      /\ account' = [t \in Tenants |-> [reserved |-> 0, committed |-> 0, lookups |-> 0]]
      /\ period' = [reserved |-> 0, committed |-> 0]
  BY DEF ResetRows, EmptyRows, providerVars, faultVars, Holds
<1>3. TypeOK'
  BY <1>1, <1>2 DEF TypeOK
<1>4. SeedTypeOK' /\ SeedingCounts'
  <2>1. runs < MaxRuns
    BY DEF ResetRows
  <2>2. QED
    BY <1>1, <1>2, <2>1 DEF SeedTypeOK, SeedingCounts
<1>5. SlotsMatchCalls'
  BY <1>1, <1>2 DEF SlotsMatchCalls
<1>6. Ceilings'
  BY <1>2, PipelineAssumption DEF Ceilings
<1>7. Positions'
  <2>1. Standing'
    BY <1>1, <1>2 DEF Positions, Standing
  <2>2. OwnHolds'
    BY <1>1, <1>2 DEF Positions, OwnHolds, Active, AtProvider, Outcomes
  <2>3. AcksArrive'
    BY <1>2 DEF AcksArrive
  <2>4. QED
    BY <2>1, <2>2, <2>3 DEF Positions
<1>8. /\ \A t : Secured(t)' = {}
      /\ \A t : Of(t, Twice)' = {} /\ Of(t, Open)' = {} /\ Of(t, Charged)' = {}
      /\ HoldsOf(Charged)' = {}
  BY <1>2 DEF Secured, Of, HoldsOf, Twice, Open, Charged
<1>9. /\ \A t \in Tenants : account'[t].committed = 0 /\ account'[t].reserved = 0
      /\ period'.committed = 0
  BY <1>2
<1>10. W(req', {}) = 0
  BY WorthNone
<1>11. Inherits'
  <2>1. ASSUME NEW t \in Tenants
        PROVE  W(req', Secured(t)')
                 <= account'[t].committed + account'[t].reserved + W(req', GaveBack(t)')
    <3>1. W(req', GaveBack(t)') \in Nat
      BY WorthIsNat
    <3>2. QED
      BY <1>8, <1>9, <1>10, <3>1
  <2>2. QED
    BY <2>1 DEF Inherits, W, Units
<1>12. RowsExact'
  <2>1. ASSUME NEW t \in Tenants
        PROVE  /\ account'[t].reserved + W(req', Of(t, Twice)') <= W(req', Of(t, Open)')
               /\ account'[t].committed = W(req', Of(t, Charged)')
    BY <1>8, <1>9, <1>10
  <2>2. period'.committed = W(req', HoldsOf(Charged)')
    BY <1>8, <1>9, <1>10
  <2>3. QED
    BY <2>1, <2>2 DEF RowsExact, W, Units
<1>13. RunBooks'
  <2>1. \A t : CountedFor(t)' = CountedFor(t)
    BY <1>2 DEF CountedFor, Tenant
  <2>2. \A t \in Tenants : ledger'[t] = Cardinality(Units(req', CountedFor(t)'))
    BY <1>1, <1>2, <2>1 DEF RunBooks
  <2>3. QED
    BY <2>2 DEF RunBooks, Units
<1>14. QED
  BY <1>3, <1>4, <1>5, <1>6, <1>7, <1>11, <1>12, <1>13 DEF RunInv

(* Emptying the bill leaves the rows alone. *)
LEMMA ResetBillStep ==
  ASSUME RunInv, ResetBill
  PROVE  RunInv'
<1>1. TypeOK /\ SeedTypeOK /\ SlotsMatchCalls /\ Ceilings /\ Positions /\ Inherits /\ RowsExact
  BY DEF RunInv
<1>2. /\ req' = req /\ phase' = phase /\ attempted' = attempted /\ call' = call
      /\ ledger' = [t \in Tenants |-> 0] /\ counted' = {} /\ inFlight' = inFlight
      /\ errors' = errors /\ lostAcks' = lostAcks /\ crashes' = crashes
      /\ seeding' = "idle" /\ jobs' = jobs /\ carried' = carried
      /\ hold' = hold /\ account' = account /\ period' = period
  BY DEF ResetBill, storeVars, faultVars
<1>3. TypeOK'
  BY <1>1, <1>2 DEF TypeOK
<1>4. SeedTypeOK' /\ SeedingCounts'
  <2>1. runs' \in 0..MaxRuns
    <3>1. runs < MaxRuns /\ runs' = runs + 1
      BY DEF ResetBill, RunInv, SeedingCounts
    <3>2. QED
      BY <1>1, <3>1, RunsAssumption DEF SeedTypeOK
  <2>2. SeedingCounts'
    BY <1>2 DEF SeedingCounts
  <2>3. QED
    BY <1>1, <1>2, <2>1, <2>2 DEF SeedTypeOK
<1>5. SlotsMatchCalls'
  BY <1>1, <1>2 DEF SlotsMatchCalls
<1>6. Ceilings'
  BY <1>1, <1>2 DEF Ceilings
<1>7. Positions'
  <2>1. Standing'
    BY <1>1, <1>2 DEF Positions, Standing
  <2>2. OwnHolds'
    BY <1>1, <1>2 DEF Positions, OwnHolds
  <2>3. AcksArrive'
    BY <1>1, <1>2 DEF Positions, AcksArrive
  <2>4. QED
    BY <2>1, <2>2, <2>3 DEF Positions
<1>8. /\ \A t : Secured(t)' = Secured(t) /\ GaveBack(t)' = GaveBack(t)
      /\ \A K : HoldsOf(K)' = HoldsOf(K) /\ \A t : Of(t, K)' = Of(t, K)
  BY <1>2 DEF Secured, GaveBack, HoldsOf, Of, Tenant
<1>9. Inherits'
  <2>1. \A t \in Tenants :
          W(req', Secured(t)')
            <= account'[t].committed + account'[t].reserved + W(req', GaveBack(t)')
    BY <1>1, <1>2, <1>8 DEF Inherits
  <2>2. QED
    BY <2>1 DEF Inherits, W, Units
<1>10. RowsExact'
  <2>1. lostAcks' = 0 =>
          /\ \A t \in Tenants :
               /\ account'[t].reserved + W(req', Of(t, Twice)') <= W(req', Of(t, Open)')
               /\ account'[t].committed = W(req', Of(t, Charged)')
          /\ period'.committed = W(req', HoldsOf(Charged)')
    BY <1>1, <1>2, <1>8 DEF RowsExact
  <2>2. QED
    BY <2>1 DEF RowsExact, W, Units
<1>11. RunBooks'
  <2>1. \A t : CountedFor(t)' = {}
    BY <1>2 DEF CountedFor
  <2>2. Cardinality(Units(req', {})) = 0
    BY UnitsNone
  <2>3. \A t \in Tenants : ledger'[t] = Cardinality(Units(req', CountedFor(t)'))
    BY <1>2, <2>1, <2>2
  <2>4. QED
    BY <2>3 DEF RunBooks, Units
<1>12. QED
  BY <1>3, <1>4, <1>5, <1>6, <1>7, <1>9, <1>10, <1>11 DEF RunInv

-----------------------------------------------------------------------------
(* The invariant is inductive *)

(* Before the first seeding nothing has been carried over. *)
LEMMA RunInvInit ==
  ASSUME ReseedInit
  PROVE  RunInv
<1>1. Init /\ SeedInit
  BY DEF ReseedInit
<1>2. TypeOK /\ SlotsMatchCalls /\ Ceilings
  BY <1>1, InvariantInit DEF IInv
<1>3. SeedTypeOK /\ SeedingCounts
  BY <1>1, RunsAssumption DEF SeedInit, SeedTypeOK, SeedingCounts
<1>4. Positions
  BY <1>1 DEF Init, SeedInit, Positions, Standing, OwnHolds, AcksArrive
<1>5. W(req, {}) = 0
  BY WorthNone
<1>6. /\ \A t : Secured(t) = {}
      /\ \A t : Of(t, Twice) = {} /\ Of(t, Open) = {} /\ Of(t, Charged) = {}
      /\ HoldsOf(Charged) = {}
      /\ \A t : CountedFor(t) = {}
  BY <1>1 DEF Init, SeedInit, Secured, Of, HoldsOf, Twice, Open, Charged, CountedFor
<1>7. /\ \A t \in Tenants : account[t].committed = 0 /\ account[t].reserved = 0 /\ ledger[t] = 0
      /\ period.committed = 0
  BY <1>1 DEF Init
<1>8. Inherits
  <2>1. ASSUME NEW t \in Tenants
        PROVE  W(req, Secured(t)) <= account[t].committed + account[t].reserved + W(req, GaveBack(t))
    <3>1. W(req, GaveBack(t)) \in Nat
      BY WorthIsNat
    <3>2. QED
      BY <1>5, <1>6, <1>7, <3>1
  <2>2. QED
    BY <2>1 DEF Inherits
<1>9. RowsExact
  <2>1. ASSUME NEW t \in Tenants
        PROVE  /\ account[t].reserved + W(req, Of(t, Twice)) <= W(req, Of(t, Open))
               /\ account[t].committed = W(req, Of(t, Charged))
    <3>1. /\ W(req, Of(t, Twice)) = 0 /\ W(req, Of(t, Open)) = 0
          /\ W(req, Of(t, Charged)) = 0
      BY <1>5, <1>6
    <3>2. account[t].reserved = 0 /\ account[t].committed = 0
      BY <1>7
    <3>3. QED
      BY <3>1, <3>2
  <2>2. period.committed = W(req, HoldsOf(Charged))
    BY <1>5, <1>6, <1>7
  <2>3. QED
    BY <2>1, <2>2 DEF RowsExact
<1>10. RunBooks
  BY <1>6, <1>7, UnitsNone DEF RunBooks
<1>11. QED
  BY <1>2, <1>3, <1>4, <1>8, <1>9, <1>10 DEF RunInv

(* A step that leaves the rows, the requests and the bill alone keeps it. *)
LEMMA RunInvAside ==
  ASSUME RunInv,
         UNCHANGED <<account, period, hold, call, ledger, jobs, inFlight, req, phase, attempted,
                     lostAcks, runs, seeding, carried, counted>>,
         errors' \in 0..MaxErrors, crashes' \in 0..MaxCrashes
  PROVE  RunInv'
<1>1. /\ TypeOK /\ SeedTypeOK /\ SeedingCounts /\ SlotsMatchCalls /\ Ceilings
      /\ Positions /\ Inherits /\ RowsExact /\ RunBooks
  BY DEF RunInv
<1>2. TypeOK' /\ SeedTypeOK' /\ SeedingCounts' /\ SlotsMatchCalls' /\ Ceilings'
  BY <1>1 DEF TypeOK, SeedTypeOK, SeedingCounts, SlotsMatchCalls, Ceilings
<1>3. Positions'
  BY <1>1 DEF Positions, Standing, OwnHolds, AcksArrive
<1>4. Inherits'
  <2>1. \A t : Secured(t)' = Secured(t) /\ GaveBack(t)' = GaveBack(t)
    BY <1>1 DEF Secured, GaveBack, Tenant
  <2>2. \A t \in Tenants :
          W(req', Secured(t)')
            <= account'[t].committed + account'[t].reserved + W(req', GaveBack(t)')
    BY <1>1, <2>1 DEF vars, Inherits
  <2>3. QED
    BY <2>2 DEF Inherits, W, Units
<1>5. RowsExact'
  <2>1. \A K : HoldsOf(K)' = HoldsOf(K) /\ \A t : Of(t, K)' = Of(t, K)
    BY <1>1 DEF vars, HoldsOf, Of, Tenant
  <2>2. lostAcks' = 0 =>
          /\ \A t \in Tenants :
               /\ account'[t].reserved + W(req', Of(t, Twice)') <= W(req', Of(t, Open)')
               /\ account'[t].committed = W(req', Of(t, Charged)')
          /\ period'.committed = W(req', HoldsOf(Charged)')
    BY <1>1, <2>1 DEF vars, RowsExact
  <2>3. QED
    BY <2>2 DEF RowsExact, W, Units
<1>6. RunBooks'
  <2>1. \A t : CountedFor(t)' = CountedFor(t)
    BY <1>1 DEF CountedFor, Tenant
  <2>2. \A t \in Tenants : ledger'[t] = Cardinality(Units(req', CountedFor(t)'))
    BY <1>1, <2>1 DEF vars, RunBooks
  <2>3. QED
    BY <2>2 DEF RunBooks, Units
<1>7. QED
  BY <1>2, <1>3, <1>4, <1>5, <1>6 DEF RunInv

(* Every step keeps it, a seeding's as well as the running system's. *)
LEMMA RunInvStep ==
  ASSUME RunInv, [ReseedNext]_seededVars
  PROVE  RunInv'
<1>1. /\ TypeOK /\ SeedTypeOK /\ SeedingCounts /\ SlotsMatchCalls /\ Ceilings
      /\ Positions /\ Inherits /\ RowsExact /\ RunBooks
  BY DEF RunInv
<1>2. CASE Next /\ Noted
  <2>1. TypeOK'
    <3>1. /\ account' \in [Tenants -> [reserved: Nat, committed: Nat, lookups: Nat]]
          /\ period' \in [reserved: Nat, committed: Nat]
          /\ hold' \in [Requests -> Holds]
      BY <1>1, <1>2, RowsStep
    <3>2. inFlight' \in [Replicas -> Nat] /\ ledger' \in [Tenants -> Nat]
      BY <1>1, <1>2, SlotsStep, RunBooksStep DEF Positions
    <3>3. QED
      BY <1>1, <1>2, <3>1, <3>2, HandlersTyped DEF TypeOK
  <2>2. SeedTypeOK' /\ SeedingCounts'
    BY <1>1, <1>2 DEF Noted, SeedTypeOK, SeedingCounts
  <2>3. SlotsMatchCalls' /\ Ceilings'
    BY <1>1, <1>2, SlotsStep, RowsStep
  <2>4. Positions'
    BY <1>1, <1>2, StandingStep, OwnHoldsStep, AcksArriveStep DEF Positions
  <2>5. Inherits' /\ RowsExact' /\ RunBooks'
    BY <1>1, <1>2, InheritsStep, ExactStep, RunBooksStep DEF Positions
  <2>6. QED
    BY <2>1, <2>2, <2>3, <2>4, <2>5 DEF RunInv
<1>3. CASE Seed
  BY <1>3, ResetRowsStep, ResetBillStep DEF Seed
<1>4. CASE UNCHANGED seededVars
  <2>1. UNCHANGED <<account, period, hold, call, ledger, jobs, inFlight, req, phase, attempted,
                    lostAcks, runs, seeding, carried, counted>>
    BY <1>4 DEF seededVars, vars, seedVars
  <2>2. errors' \in 0..MaxErrors /\ crashes' \in 0..MaxCrashes
    BY <1>1, <1>4 DEF seededVars, vars, TypeOK
  <2>3. QED
    BY <2>1, <2>2, RunInvAside
<1>5. QED
  BY <1>2, <1>3, <1>4 DEF ReseedNext

(* Every behaviour keeps it. *)
THEOREM RunInvariant == ReseedSpec => []RunInv
<1>1. ReseedInit => RunInv
  BY RunInvInit
<1>2. RunInv /\ [ReseedNext]_seededVars => RunInv'
  BY RunInvStep
<1>3. QED
  BY <1>1, <1>2, PTL DEF ReseedSpec

-----------------------------------------------------------------------------
(* What follows from it *)

(* The bill since the last seeding, within what the rows back and what the
   carried requests were billed or gave back.                                *)
LEMMA BillIsInherited ==
  ASSUME RunInv, seeding = "idle", NEW t \in Tenants
  PROVE  Price * ledger[t] <= account[t].committed + account[t].reserved
                              + W(req, Carried(t, counted))
                              + W(req, Carried(t, HoldsOf({"released"})))
<1>1. TypeOK /\ SeedTypeOK /\ Positions /\ Inherits /\ RunBooks
  BY DEF RunInv
<1>2. PICK C, S, G, B : /\ C = Carried(t, counted) /\ S = Secured(t)
                        /\ G = Carried(t, HoldsOf({"released"})) /\ B = CountedFor(t)
  OBVIOUS
<1>3. B \subseteq S \cup C
  BY <1>1, <1>2 DEF Positions, OwnHolds, Backed, CountedFor, Secured, Carried
<1>4. G = GaveBack(t)
  BY <1>1, <1>2 DEF Carried, HoldsOf, GaveBack, SeedTypeOK
<1>5. PICK b, s, k, g, u : /\ b = W(req, B) /\ b \in Nat
                           /\ s = W(req, S) /\ s \in Nat
                           /\ k = W(req, C) /\ k \in Nat
                           /\ g = W(req, G) /\ g \in Nat
                           /\ u = W(req, S \cup C) /\ u \in Nat
  BY WorthIsNat
<1>6. b <= u
  BY <1>3, <1>5, WorthMonotone
<1>7. u <= s + k
  BY <1>5, WorthUnion
<1>8. s <= account[t].committed + account[t].reserved + g
  BY <1>1, <1>2, <1>4, <1>5 DEF Inherits
<1>9. Price * ledger[t] = b
  BY <1>1, <1>2, <1>5 DEF RunBooks, W
<1>10. account[t].committed \in Nat /\ account[t].reserved \in Nat
  BY <1>1 DEF TypeOK
<1>11. b <= account[t].committed + account[t].reserved + k + g
  BY <1>5, <1>6, <1>7, <1>8, <1>10
<1>12. QED
  BY <1>2, <1>5, <1>9, <1>11

(* Every variable keeps its type, through any number of seedings. *)
THEOREM SeedingTypeCorrect == ReseedSpec => [](TypeOK /\ SeedTypeOK)
<1>1. RunInv => TypeOK /\ SeedTypeOK
  BY DEF RunInv
<1>2. QED
  BY <1>1, RunInvariant, PTL

(* A limiter counts its callers although the rows were emptied under them. *)
THEOREM SeedingKeepsSlots == ReseedSpec => []SlotsMatchCalls
<1>1. RunInv => SlotsMatchCalls
  BY DEF RunInv
<1>2. QED
  BY <1>1, RunInvariant, PTL

(* A new run inherits from the requests carried into it, and from nothing else. *)
THEOREM RunsAreAccounted == ReseedSpec => []CarriedOverIsAccounted
<1>1. ASSUME RunInv
      PROVE  CarriedOverIsAccounted
  <2>1. Ceilings /\ SeedTypeOK /\ TypeOK /\ RowsExact
    BY <1>1 DEF RunInv
  <2>2. seeding = "idle" =>
          \A t \in Tenants :
            Price * ledger[t] <= account[t].committed + account[t].reserved
                                 + W(req, Carried(t, counted))
                                 + W(req, Carried(t, HoldsOf({"released"})))
    BY <1>1, BillIsInherited
  <2>3. ASSUME lostAcks = 0, NEW t \in Tenants
        PROVE  /\ account[t].reserved + W(req, Carried(t, HoldsOf(Twice))) <= W(req, Of(t, Open))
               /\ account[t].committed = W(req, Of(t, Charged))
    <3>1. PICK w, v, h : /\ w = W(req, Carried(t, HoldsOf(Twice))) /\ w \in Nat
                         /\ v = W(req, Of(t, Twice)) /\ v \in Nat
                         /\ h = W(req, Of(t, Open)) /\ h \in Nat
      BY WorthIsNat
    <3>2. Carried(t, HoldsOf(Twice)) \subseteq Of(t, Twice)
      BY DEF Carried, Of
    <3>3. w <= v
      BY <3>1, <3>2, WorthMonotone
    <3>4. account[t].reserved + v <= h /\ account[t].reserved \in Nat
      BY <2>1, <2>3, <3>1 DEF RowsExact, TypeOK
    <3>5. account[t].reserved + w <= h
      BY <3>1, <3>3, <3>4
    <3>6. QED
      BY <2>1, <2>3, <3>1, <3>5 DEF RowsExact
  <2>4. lostAcks = 0 => period.committed = W(req, HoldsOf(Charged))
    BY <2>1 DEF RowsExact
  <2>5. QED
    BY <2>1, <2>2, <2>3, <2>4, WorthIsW DEF CarriedOverIsAccounted, Ceilings, Twice, Open, Charged
<1>2. QED
  BY <1>1, RunInvariant, PTL

-----------------------------------------------------------------------------
(* The sequential demonstration. Beneath it the invariant of Reseeding goes on
   holding; above it stand invariants of the client's own. Scripted says where
   the script is and that its requests are sent in turn. Excused and
   RefusalsAreLogged tie what the client counts to what handlers raise, TwoBooks
   ties what it is told to the provider's bill, and Smooth says how a run goes
   in which nothing happened that it could blame.                            *)

(* The steps of the script *)

(* The script, step by step ... *)
LEMMA ScriptIs ==
  /\ DOMAIN Script = 1..16
  /\ Script[1] = "enrich" /\ Script[2] = "list" /\ Script[3] = "import" /\ Script[4] = "job"
  /\ Script[5] = "usage" /\ Script[6] = "bill" /\ Script[7] = "before" /\ Script[8] = "body"
  /\ Script[9] = "batch" /\ Script[10] = "page" /\ Script[11] = "bomb" /\ Script[12] = "unmoved"
  /\ Script[13] = "exhaust" /\ Script[14] = "spent" /\ Script[15] = "bystander"
  /\ Script[16] = "summary"
BY DEF Script

(* ... the places it can stand at ... *)
LEMMA PlacesAre ==
  Places = {"ready", "enrich", "list", "import", "job", "usage", "bill", "before", "body",
            "batch", "page", "bomb", "unmoved", "exhaust", "spent", "bystander", "summary", "done"}
<1>1. \A i \in 1..16 : i \in {1, 2, 3, 4, 5, 6, 7, 8, 9, 10, 11, 12, 13, 14, 15, 16}
  OBVIOUS
<1>2. {Script[i] : i \in DOMAIN Script} =
        {"enrich", "list", "import", "job", "usage", "bill", "before", "body",
         "batch", "page", "bomb", "unmoved", "exhaust", "spent", "bystander", "summary"}
  BY <1>1, ScriptIs
<1>3. QED
  BY <1>2 DEF Places

(* ... and what follows each of them. *)
LEMMA AfterIs ==
  /\ After("enrich") = "list" /\ After("list") = "import" /\ After("import") = "job"
  /\ After("job") = "usage" /\ After("usage") = "bill" /\ After("bill") = "before"
  /\ After("before") = "body" /\ After("body") = "batch" /\ After("batch") = "page"
  /\ After("page") = "bomb" /\ After("bomb") = "unmoved" /\ After("unmoved") = "exhaust"
  /\ After("exhaust") = "spent" /\ After("spent") = "bystander"
  /\ After("bystander") = "summary" /\ After("summary") = "done"
<1>1. ASSUME NEW n \in 1..15
      PROVE  After(Script[n]) = Script[n + 1]
  <2>1. \A i \in DOMAIN Script : Script[i] = Script[n] => i = n
    BY ScriptIs
  <2>2. (CHOOSE i \in DOMAIN Script : Script[i] = Script[n]) = n
    BY <2>1, ScriptIs
  <2>3. Script[n] # "summary"
    BY ScriptIs
  <2>4. After(Script[n]) = Script[1 + n]
    BY <2>2, <2>3 DEF After
  <2>5. QED
    BY <2>4
<1>2. After("summary") = "done"
  BY DEF After
<1>3. QED
  BY <1>1, <1>2, ScriptIs

(* What the numbers are, and that the loop has a turn for more batches than a
   partition can pay.                                                        *)
LEMMA DemoNumbers ==
  /\ MaxBatch \in Nat /\ MaxBatch > 0 /\ Price \in Nat /\ Price > 0
  /\ Allowance \in Nat /\ Cap \in Nat /\ 2 * Allowance <= Cap
  /\ Ordinary \in Nat /\ Bundle \in Nat /\ 0 < Ordinary /\ 0 < Bundle /\ Ordinary <= MaxBatch
  /\ Price * (Ordinary + Bundle) <= Allowance
  /\ Spender \in Tenants /\ Bystander \in Tenants /\ Spender # Bystander
  /\ IsFiniteSet(Tenants)
<1>1. /\ MaxBatch \in Nat /\ MaxBatch > 0 /\ Price \in Nat /\ Price > 0
      /\ Allowance \in Nat /\ Cap \in Nat /\ 2 * Allowance <= Cap
      /\ 0 < Ordinary /\ 0 < Bundle /\ Ordinary <= MaxBatch
      /\ Price * (Ordinary + Bundle) <= Allowance
      /\ Spender \in Tenants /\ Bystander \in Tenants /\ Spender # Bystander
      /\ IsFiniteSet(Tenants)
  BY PipelineAssumption, DemoAssumption
<1>2. PICK p \in Replicas : TRUE
  BY DemoAssumption
<1>3. Work(Spender, p, "enrich", Ordinary) \in Descriptor /\ Work(Spender, p, "import", Bundle) \in Descriptor
  BY <1>2, DemoAssumption, PipelineAssumption
<1>4. Ordinary \in Nat /\ Bundle \in Nat
  BY <1>3, PipelineAssumption DEF Work, Descriptor
<1>5. QED
  BY <1>1, <1>4

(* The exhausting loop has more turns than a partition can pay batches. *)
LEMMA LoopIsLong ==
  /\ MaxBatches \in Nat /\ MaxBatches > 0
  /\ Allowance < MaxBatches * (MaxBatch * Price)
<1>1. PICK d : d = MaxBatch * Price
  OBVIOUS
<1>2. d \in Nat /\ d > 0
  BY <1>1, DemoNumbers
<1>3. PICK q : q = Allowance \div d
  OBVIOUS
<1>4. q \in Nat /\ Allowance < q * d + d
  BY <1>2, <1>3, DemoNumbers
<1>5. PICK s \in Nat : s = Slack /\ s > 0
  BY DemoAssumption
<1>6. MaxBatches = q + s
  BY <1>1, <1>3, <1>5 DEF MaxBatches
<1>7. (q + s) * d = q * d + s * d /\ d <= s * d
  BY <1>2, <1>4, <1>5
<1>8. q * d \in Nat /\ s * d \in Nat
  BY <1>2, <1>4, <1>5
<1>9. Allowance < (q + s) * d
  BY <1>2, <1>4, <1>7, <1>8, DemoNumbers
<1>10. QED
  BY <1>1, <1>4, <1>5, <1>6, <1>9

(* The earlier run's requests and the script's are apart, and 0 is none of them. *)
LEMMA WhoAsks ==
  /\ Requests = Earlier \cup Issued /\ Earlier \cap Issued = {}
  /\ Issued = 1..(11 + MaxBatches)
  /\ 0 \notin Issued
<1>1. Issued = 1..(11 + MaxBatches)
  BY LoopIsLong DEF Issued
<1>2. QED
  BY <1>1, DemoAssumption

(* What each working step asks for. *)
LEMMA AskedIs ==
  ASSUME NEW n \in Nat, n > 0
  PROVE  /\ Target(n) \in Replicas
         /\ Asked("enrich", n) = Work(Spender, Target(n), "enrich", Ordinary)
         /\ Asked("import", n) = Work(Spender, Target(n), "import", Bundle)
         /\ Asked("batch", n) = Work(Spender, Target(n), "enrich", MaxBatch + 1)
         /\ Asked("exhaust", n) = Work(Spender, Target(n), "enrich", MaxBatch)
         /\ Asked("bystander", n) = Work(Bystander, Target(n), "enrich", Ordinary)
<1>1. Target(n) \in Replicas
  <2>1. PICK k \in Nat : k = Len(Order) /\ k > 0 /\ DOMAIN Order = 1..k
    BY DemoAssumption
  <2>2. Order \in [1..k -> Replicas]
    BY <2>1, DemoAssumption
  <2>3. (n - 1) % k \in 0..(k - 1)
    BY <2>1
  <2>4. 1 + ((n - 1) % k) \in 1..k
    BY <2>1, <2>3
  <2>5. QED
    BY <2>1, <2>2, <2>4 DEF Target
<1>2. QED
  BY <1>1 DEF Asked

-----------------------------------------------------------------------------
(* What the application does while the client waits *)

AppStep ==
  \/ \E r \in Requests : Handler(r) \/ Provider(r) \/ Fault(r)
  \/ \E p \in Replicas : Crash(p)

(* Requests that have not come stay away, answered ones stay answered. *)
LEMMA PhasesMove ==
  ASSUME TypeOK, AppStep
  PROVE  /\ req' = req
         /\ \A x \in Requests :
              /\ phase[x] = "absent" \/ Terminal(x) => phase'[x] = phase[x]
              /\ Active(x) => phase'[x] # "absent"
<1> DEFINE Goal ==
      /\ req' = req
      /\ \A x \in Requests :
           /\ phase[x] = "absent" \/ Terminal(x) => phase'[x] = phase[x]
           /\ Active(x) => phase'[x] # "absent"
<1> USE DEF Terminal, Active, Outcomes, Goto
<1>1. ASSUME NEW r \in Requests, Admission(r)
      PROVE  Goal
  BY <1>1 DEF Admission, RefuseBatch, Reserve, RefuseAllowance, TypeOK
<1>2. ASSUME NEW r \in Requests, Calling(r)
      PROVE  Goal
  BY <1>2 DEF Calling, TakeSlot, Shed, Answer, CallFails, Deadline, LeaveSlot, TypeOK
<1>3. ASSUME NEW r \in Requests, Completion(r)
      PROVE  Goal
  BY <1>3 DEF Completion, Upsert, Settle, SettleViolatesCheck, InsertJob, TypeOK
<1>4. ASSUME NEW r \in Requests, Unwinding(r)
      PROVE  Goal
  BY <1>4 DEF Unwinding, Unwind, UnwindViolatesCheck, TypeOK
<1>5. ASSUME NEW r \in Requests, Provider(r)
      PROVE  Goal
  BY <1>5 DEF Provider, AcceptCall, RefuseCall, ChargeCall, ProviderMoves, TypeOK
<1>6. ASSUME NEW r \in Requests, Fault(r)
      PROVE  Goal
  BY <1>6 DEF Fault, ReserveFails, ReserveAckLost, CompletionFails, SettleAckLost, InsertJobFails,
     UnwindFails, UnwindAckLost, TypeOK
<1>7. ASSUME NEW p \in Replicas, Crash(p)
      PROVE  Goal
  BY <1>7 DEF Crash, TypeOK
<1>8. QED
  BY <1>1, <1>2, <1>3, <1>4, <1>5, <1>6, <1>7 DEF AppStep, Handler

-----------------------------------------------------------------------------
(* Where the script stands *)

ClientTyped ==
  /\ at \in Places
  /\ over \in {"no", "passed", "failed", "aborted"}
  /\ sequence \in Nat /\ awaiting \in Nat
  /\ told \in Nat /\ refusals \in Nat /\ bounced \in Nat /\ before \in Nat
  /\ failures \subseteq Places
  /\ batches \in Nat /\ batches <= MaxBatches
  /\ raised \in [Requests -> {"none", "limit", "store", "fault"}]

(* How many requests went before the one a step awaits or has still to send. *)
Numbered(n) ==
  /\ n \in Nat
  /\ at \in {"ready", "enrich"} => n = 0
  /\ at = "list" => n = 1
  /\ at = "import" => n = 2
  /\ at = "job" => n = 3
  /\ at = "usage" => n = 4
  /\ at \in {"bill", "before", "body"} => n = 5
  /\ at = "batch" => n = 6
  /\ at = "page" => n = 7
  /\ at = "bomb" => n = 8
  /\ at = "unmoved" => n = 9
  /\ at = "exhaust" => n = 9 + batches /\ batches < MaxBatches
  /\ at = "spent" => n <= 9 + MaxBatches
  /\ at = "bystander" => n <= 10 + MaxBatches
  /\ n <= 11 + MaxBatches
  /\ at \notin {"exhaust", "spent", "bystander", "summary", "done"} => batches = 0

Sent == IF awaiting = 0 THEN sequence ELSE sequence - 1

(* The requests are sent in turn, each as its step asks, and the next one only
   when the one before has been answered.                                    *)
InTurn ==
  /\ over = "no" <=> at # "done"
  /\ Numbered(Sent)
  /\ awaiting # 0 => /\ at \in Working
                     /\ awaiting = sequence
                     /\ awaiting \in Issued
                     /\ phase[awaiting] # "absent"
                     /\ req[awaiting] = Asked(at, awaiting)
  /\ \A r \in Issued :
       /\ sequence < r => phase[r] = "absent"
       /\ Active(r) => r = awaiting
  /\ at # "ready" => seeding = "idle"

Scripted == ClientTyped /\ InTurn

-----------------------------------------------------------------------------
(* The demonstration's steps, as steps of the application beneath it *)

(* The script never runs out of numbers for its requests. *)
LEMMA NextIsIssued ==
  ASSUME Scripted, at \in Working, awaiting = 0
  PROVE  sequence + 1 \in Issued
<1>1. Numbered(sequence)
  BY DEF Scripted, InTurn, Sent
<1>2. sequence \in Nat /\ sequence + 1 <= 11 + MaxBatches
  BY <1>1, LoopIsLong DEF Numbered, Working, Scripted, ClientTyped
<1>3. QED
  BY <1>2, WhoAsks, LoopIsLong

(* A step of the client alone. *)
Aside ==
  /\ UNCHANGED <<account, period, jobs, inFlight, req, phase, attempted, hold, call, ledger,
                 lostAcks, crashes, runs, seeding, carried, counted, raised>>
  /\ errors' = errors \/ (FreshStart /\ DatabaseError)

(* The application's own step. *)
Beneath == AppStep /\ Noted /\ UNCHANGED clientVars

(* Reading, counting and comparing leave the application alone. *)
LEMMA ClientAside ==
  ASSUME Client, ~Send
  PROVE  Aside
BY DEF Client, Aside, Begin, Receive, LoseReplica, ReadList, ReadJob, ReadUsage, ReadSpent, Read,
   ReadFails, Bounce, ReadBill, Summary, seededVars, seedVars, vars, storeVars, providerVars, DatabaseError

(* Every step is the client's, a seeding's or the application's. *)
LEMMA DemoSteps ==
  ASSUME DemoNext
  PROVE  \/ Client /\ ~Send /\ Aside
         \/ Send
         \/ SeedStep
         \/ \E r \in Earlier : EarlierArrives(r)
         \/ Beneath
         \/ UNCHANGED demoVars
<1>1. ASSUME Client, ~Send
      PROVE  Client /\ ~Send /\ Aside
  BY <1>1, ClientAside
<1>2. ASSUME NEW r \in Requests, HandlerStep(r) \/ ProviderStep(r) \/ FaultStep(r)
      PROVE  Beneath
  BY <1>2 DEF HandlerStep, ProviderStep, FaultStep, Limited, Erring, Orderly, Beneath, AppStep, Handler,
     Admission, Calling, Completion, Unwinding, clientVars
<1>3. ASSUME NEW p \in Replicas, CrashStep(p)
      PROVE  Beneath
  BY <1>3 DEF CrashStep, Beneath, AppStep, clientVars
<1>4. QED
  BY <1>1, <1>2, <1>3 DEF DemoNext, Quiet

(* The application's step is one of SecurePipeline. *)
LEMMA BeneathIsNext ==
  ASSUME AppStep
  PROVE  Next
BY DEF AppStep, Next

(* The application keeps its invariant whatever the client does. *)
LEMMA SystemStep ==
  ASSUME RunInv, Scripted, [DemoNext]_demoVars
  PROVE  RunInv'
<1>1. TypeOK
  BY DEF RunInv
<1>2. CASE Aside
  <2>1. errors' \in 0..MaxErrors /\ crashes' \in 0..MaxCrashes
    BY <1>1, <1>2, PipelineAssumption DEF Aside, DatabaseError, TypeOK
  <2>2. QED
    BY <1>2, <2>1, RunInvAside DEF Aside
<1>3. CASE Send
  <2>1. Arrive(sequence + 1) /\ Noted
    BY <1>3 DEF Send
  <2>2. sequence + 1 \in Requests
    BY <1>3, NextIsIssued, WhoAsks DEF Send
  <2>3. Next
    BY <2>1, <2>2 DEF Next
  <2>4. QED
    BY <2>1, <2>3, RunInvStep DEF ReseedNext
<1>4. CASE SeedStep
  BY <1>4, RunInvStep DEF SeedStep, ReseedNext
<1>5. ASSUME NEW r \in Earlier, EarlierArrives(r)
      PROVE  RunInv'
  <2>1. Next /\ Noted
    BY <1>5, WhoAsks DEF EarlierArrives, Next
  <2>2. QED
    BY <2>1, RunInvStep DEF ReseedNext
<1>6. CASE Beneath
  BY <1>6, BeneathIsNext, RunInvStep DEF Beneath, ReseedNext
<1>7. CASE UNCHANGED demoVars
  BY <1>7, RunInvStep DEF demoVars
<1>8. QED
  BY <1>2, <1>3, <1>4, <1>5, <1>6, <1>7, DemoSteps

-----------------------------------------------------------------------------
(* The script goes on in turn *)

(* Before the script begins nothing has been sent. *)
LEMMA ScriptedInit ==
  ASSUME DemoInit
  PROVE  RunInv /\ Scripted
<1>1. ReseedInit
  BY DEF DemoInit
<1>2. RunInv
  BY <1>1, RunInvInit
<1>3. ClientTyped
  BY LoopIsLong, PlacesAre DEF DemoInit, ClientTyped
<1>4. Numbered(Sent)
  BY LoopIsLong DEF DemoInit, Numbered, Sent
<1>5. \A r \in Issued : phase[r] = "absent"
  BY <1>1, WhoAsks DEF ReseedInit, Init
<1>6. InTurn
  BY <1>4, <1>5 DEF DemoInit, InTurn, Active
<1>7. QED
  BY <1>2, <1>3, <1>6 DEF Scripted

(* While the application works, the script waits. *)
LEMMA InTurnBeneath ==
  ASSUME TypeOK, Scripted, Beneath
  PROVE  InTurn'
<1>1. /\ req' = req
      /\ \A x \in Requests :
           /\ phase[x] = "absent" \/ Terminal(x) => phase'[x] = phase[x]
           /\ Active(x) => phase'[x] # "absent"
  BY PhasesMove DEF Beneath
<1>2. UNCHANGED clientVars /\ seeding' = seeding
  BY DEF Beneath, Noted
<1>3. Numbered(Sent)'
  BY <1>2 DEF Scripted, InTurn, Sent, Numbered, clientVars
<1>4. Issued \subseteq Requests
  BY WhoAsks
<1>5. awaiting' # 0 => /\ at' \in Working
                       /\ awaiting' = sequence'
                       /\ awaiting' \in Issued
                       /\ phase'[awaiting'] # "absent"
                       /\ req'[awaiting'] = Asked(at, awaiting)'
  BY <1>1, <1>2, <1>4 DEF Scripted, InTurn, clientVars, Asked, Terminal, Active
<1>6. \A r \in Issued :
       /\ sequence' < r => phase'[r] = "absent"
       /\ Active(r)' => r = awaiting'
  BY <1>1, <1>2, <1>4 DEF Scripted, InTurn, clientVars, Terminal, Active
<1>7. QED
  BY <1>2, <1>3, <1>5, <1>6 DEF Scripted, InTurn, clientVars

(* A handler raises one of the known exceptions. *)
LEMMA RaisedTyped ==
  ASSUME ClientTyped, DemoNext
  PROVE  raised' \in [Requests -> {"none", "limit", "store", "fault"}]
<1>1. ASSUME NEW r \in Requests, HandlerStep(r) \/ FaultStep(r)
      PROVE  raised' \in [Requests -> {"none", "limit", "store", "fault"}]
  BY <1>1 DEF HandlerStep, FaultStep, Raise, ClientTyped
<1>2. ASSUME raised' = raised
      PROVE  raised' \in [Requests -> {"none", "limit", "store", "fault"}]
  BY <1>2 DEF ClientTyped
<1>3. CASE Client
  BY <1>2, <1>3 DEF Client, Begin, Send, Receive, LoseReplica, ReadList, ReadJob, ReadUsage, ReadSpent, Read,
     ReadFails, Bounce, ReadBill, Summary
<1>4. ASSUME NEW r \in Requests, ProviderStep(r) \/ EarlierArrives(r)
      PROVE  raised' = raised
  BY <1>4 DEF ProviderStep, EarlierArrives
<1>5. ASSUME NEW p \in Replicas, CrashStep(p)
      PROVE  raised' = raised
  BY <1>5 DEF CrashStep
<1>6. CASE SeedStep \/ Quiet
  BY <1>2, <1>6 DEF SeedStep, Quiet, demoVars
<1>7. QED
  BY <1>1, <1>2, <1>3, <1>4, <1>5, <1>6, WhoAsks DEF DemoNext

(* With nothing awaited any more, the next step has its number. *)
LEMMA InTurnMoves ==
  ASSUME Scripted, UNCHANGED <<req, phase, seeding>>, awaiting' = 0,
         awaiting = 0 \/ ~Active(awaiting),
         sequence' \in Nat, sequence <= sequence',
         Numbered(sequence)', over' = "no" <=> at' # "done",
         at' # "ready" => seeding = "idle"
  PROVE  InTurn'
<1>1. Numbered(Sent)'
  BY DEF Sent
<1>2. \A r \in Issued : (sequence' < r => phase'[r] = "absent") /\ ~Active(r)'
  <2>1. ASSUME NEW r \in Issued
        PROVE  /\ sequence' < r => phase[r] = "absent"
               /\ ~Active(r)
    <3>1. sequence \in Nat /\ r \in Nat
      BY WhoAsks, LoopIsLong DEF Scripted, ClientTyped
    <3>2. QED
      BY <3>1, WhoAsks DEF Scripted, InTurn
  <2>2. QED
    BY <2>1 DEF Active
<1>3. QED
  BY <1>1, <1>2 DEF InTurn

(* A step of the client alone moves the script. *)
LEMMA ScriptedAside ==
  ASSUME TypeOK, SeedTypeOK, Scripted, Aside, Client, ~Send
  PROVE  Scripted'
<1>1. /\ UNCHANGED <<req, phase, seeding, raised>>
      /\ at \in Places /\ failures \subseteq Places
  BY DEF Aside, Scripted, ClientTyped
<1>2. MaxBatches \in Nat /\ MaxBatches > 0
  BY LoopIsLong
<1>3. CASE Begin
  <2>1. ClientTyped'
    BY <1>1, <1>3, PlacesAre DEF Begin, Scripted, ClientTyped
  <2>2. InTurn'
    <3>1. awaiting = 0
      BY <1>3 DEF Begin, Scripted, InTurn, Working
    <3>2. Numbered(sequence)'
      BY <1>3, <3>1 DEF Begin, Scripted, InTurn, Numbered, Sent
    <3>3. QED
      BY <1>1, <1>3, <3>1, <3>2, InTurnMoves DEF Begin, Scripted, InTurn, ClientTyped
  <2>3. QED
    BY <2>1, <2>2 DEF Scripted
<1>4. CASE LoseReplica
  <2>1. ClientTyped'
    BY <1>1, <1>4, PlacesAre DEF LoseReplica, Scripted, ClientTyped
  <2>2. InTurn'
    <3>1. Numbered(sequence)'
      BY <1>2, <1>4 DEF LoseReplica, Scripted, ClientTyped, InTurn, Numbered, Sent, Working
    <3>2. ~Active(awaiting)
      BY <1>4 DEF LoseReplica, Active, Outcomes
    <3>3. at # "ready"
      BY <1>4 DEF LoseReplica, Scripted, InTurn, Working
    <3>4. QED
      BY <1>1, <1>4, <3>1, <3>2, <3>3, InTurnMoves DEF LoseReplica, Scripted, InTurn, ClientTyped
  <2>3. QED
    BY <2>1, <2>2 DEF Scripted
<1>5. CASE Receive
  <2>1. ClientTyped'
    <3>1. PICK n \in Nat : n = Reported(awaiting)
      BY <1>5, WhoAsks, DescriptorFacts DEF Receive, Scripted, InTurn, Reported
    <3>2. told' \in Nat /\ refusals' \in Nat
      BY <1>5, <3>1 DEF Receive, Scripted, ClientTyped
    <3>3. at' \in Places
      BY <1>5, PlacesAre, AfterIs DEF Receive, LoopGoesOn, Scripted, InTurn, Working
    <3>4. failures' \subseteq Places
      <4>1. failures' = failures \/ failures' = failures \cup {"exhaust"} \/ failures' = failures \cup {at}
        BY <1>5 DEF Receive, LoopGoesOn, Require
      <4>2. QED
        BY <1>1, <4>1, PlacesAre
    <3>5. batches' \in Nat /\ batches' <= MaxBatches
      <4>1. at = "exhaust" => batches < MaxBatches
        BY DEF Scripted, InTurn, Numbered
      <4>2. QED
        BY <1>2, <1>5, <4>1 DEF Receive, LoopGoesOn, Scripted, ClientTyped
    <3>6. QED
      BY <1>1, <1>5, <3>2, <3>3, <3>4, <3>5 DEF Receive, Scripted, ClientTyped
  <2>2. InTurn'
    <3>1. Numbered(sequence)'
      BY <1>2, <1>5, AfterIs DEF Receive, LoopGoesOn, Scripted, ClientTyped, InTurn, Numbered, Sent, Working
    <3>2. ~Active(awaiting)
      BY <1>5 DEF Receive, Active, Terminal
    <3>3. at # "ready" /\ at # "done" /\ at' # "done"
      BY <1>5, AfterIs DEF Receive, LoopGoesOn, Scripted, InTurn, Working
    <3>4. QED
      BY <1>1, <1>5, <3>1, <3>2, <3>3, InTurnMoves DEF Receive, Scripted, InTurn, ClientTyped
  <2>3. QED
    BY <2>1, <2>2 DEF Scripted
<1>6. ASSUME NEW place \in {"list", "job", "usage", "spent"}, NEW condition,
             Read(place, condition) \/ ReadFails(place)
      PROVE  Scripted'
  <2>1. /\ at = place /\ at' = After(place) /\ sequence' = sequence + 1
        /\ UNCHANGED <<over, awaiting, told, bounced, before, batches>>
        /\ refusals' = refusals \/ refusals' = refusals + 1
        /\ failures' = failures \/ failures' = failures \cup {place}
    BY <1>6 DEF Read, ReadFails, Require
  <2>2. awaiting = 0 /\ at # "ready" /\ at # "done" /\ at' # "done"
    BY <2>1, AfterIs DEF Scripted, InTurn, Working
  <2>3. ClientTyped'
    <3>1. at' \in Places
      BY <2>1, PlacesAre, AfterIs
    <3>2. failures' \subseteq Places
      BY <1>1, <2>1
    <3>3. refusals' \in Nat /\ sequence' \in Nat
      BY <2>1 DEF Scripted, ClientTyped
    <3>4. QED
      BY <1>1, <2>1, <3>1, <3>2, <3>3 DEF Scripted, ClientTyped
  <2>4. Numbered(sequence)'
    BY <1>2, <2>1, <2>2, AfterIs DEF Scripted, ClientTyped, InTurn, Numbered, Sent
  <2>5. InTurn'
    BY <1>1, <2>1, <2>2, <2>4, InTurnMoves DEF Scripted, ClientTyped, InTurn
  <2>6. QED
    BY <2>3, <2>5 DEF Scripted
<1>7. CASE Bounce
  <2>1. awaiting = 0 /\ at # "ready" /\ at # "done" /\ at' # "done" /\ at' \in Places
    BY <1>7, AfterIs, PlacesAre DEF Bounce, Scripted, InTurn, Working
  <2>2. ClientTyped'
    BY <1>1, <1>7, <2>1 DEF Bounce, Scripted, ClientTyped
  <2>3. Numbered(sequence)'
    BY <1>2, <1>7, <2>1, AfterIs DEF Bounce, Scripted, ClientTyped, InTurn, Numbered, Sent
  <2>4. InTurn'
    BY <1>1, <1>7, <2>1, <2>3, InTurnMoves DEF Bounce, Scripted, ClientTyped, InTurn
  <2>5. QED
    BY <2>2, <2>4 DEF Scripted
<1>8. CASE ReadBill
  <2>1. /\ at \in {"bill", "before", "unmoved"} /\ at' = After(at)
        /\ UNCHANGED <<over, sequence, awaiting, told, refusals, bounced, batches>>
        /\ before' = before \/ before' = TotalBill
        /\ failures' = failures \/ failures' = failures \cup {at}
    BY <1>8 DEF ReadBill, Require
  <2>2. awaiting = 0 /\ at # "ready" /\ at # "done" /\ at' # "done" /\ at' \in Places
    BY <2>1, AfterIs, PlacesAre DEF Scripted, InTurn, Working
  <2>3. TotalBill \in Nat
    <3>1. PICK l \in [Tenants -> Nat] : l = ledger
      BY DEF TypeOK
    <3>2. Total(l) \in Nat
      BY DemoNumbers, TotalRises
    <3>3. QED
      BY <3>1, <3>2 DEF TotalBill
  <2>4. ClientTyped'
    BY <1>1, <2>1, <2>2, <2>3 DEF Scripted, ClientTyped
  <2>5. Numbered(sequence)'
    BY <1>2, <2>1, <2>2, AfterIs DEF Scripted, ClientTyped, InTurn, Numbered, Sent
  <2>6. InTurn'
    BY <1>1, <2>1, <2>2, <2>5, InTurnMoves DEF Scripted, ClientTyped, InTurn
  <2>7. QED
    BY <2>4, <2>6 DEF Scripted
<1>9. CASE Summary
  <2>1. /\ at = "summary" /\ at' = "done" /\ over' \in {"passed", "failed"}
        /\ UNCHANGED <<sequence, awaiting, told, refusals, bounced, before, batches>>
        /\ failures' = failures \/ failures' = failures \cup {at}
    BY <1>9, AfterIs DEF Summary, Require
  <2>2. awaiting = 0
    BY <2>1 DEF Scripted, InTurn, Working
  <2>3. ClientTyped'
    BY <1>1, <2>1, PlacesAre DEF Scripted, ClientTyped
  <2>4. Numbered(sequence)'
    BY <1>2, <2>1, <2>2 DEF Scripted, ClientTyped, InTurn, Numbered, Sent
  <2>5. InTurn'
    BY <1>1, <2>1, <2>2, <2>4, InTurnMoves DEF Scripted, ClientTyped, InTurn
  <2>6. QED
    BY <2>3, <2>5 DEF Scripted
<1>10. ASSUME ReadUsage \/ ReadList \/ ReadSpent \/ ReadJob
       PROVE  Scripted'
  BY <1>6, <1>10 DEF ReadUsage, ReadList, ReadSpent, ReadJob
<1>11. QED
  BY <1>3, <1>4, <1>5, <1>7, <1>8, <1>9, <1>10 DEF Client

(* Every step keeps the script in turn. *)
LEMMA ScriptedStep ==
  ASSUME RunInv, Scripted, [DemoNext]_demoVars
  PROVE  Scripted'
<1>1. TypeOK /\ SeedTypeOK
  BY DEF RunInv
<1>2. CASE Client /\ ~Send /\ Aside
  BY <1>1, <1>2, ScriptedAside
<1>3. CASE Send
  <2>1. PICK n : n = sequence + 1
    OBVIOUS
  <2>2. /\ at \in Working /\ over = "no" /\ awaiting = 0
        /\ Arrive(n) /\ req'[n] = Asked(at, n) /\ sequence' = n /\ awaiting' = n
        /\ seeding' = seeding
        /\ UNCHANGED <<raised, at, over, told, refusals, bounced, failures, before, batches>>
    BY <1>3, <2>1 DEF Send, Noted
  <2>3. n \in Issued /\ n # 0 /\ n \in Nat /\ n \in Requests
    BY <2>1, <2>2, NextIsIssued, WhoAsks, LoopIsLong
  <2>4. ClientTyped'
    BY <2>2, <2>3 DEF Scripted, ClientTyped
  <2>5. phase' = [phase EXCEPT ![n] = "arrived"] /\ phase \in [Requests -> Phases]
    BY <1>1, <2>2 DEF Arrive, Goto, TypeOK
  <2>6. \A r \in Issued : /\ n < r => phase'[r] = "absent"
                          /\ Active(r)' => r = n
    <3>1. ASSUME NEW r \in Issued, r # n
          PROVE  (n < r => phase'[r] = "absent") /\ ~Active(r)'
      <4>1. phase'[r] = phase[r]
        BY <2>5, <3>1, WhoAsks
      <4>2. (sequence < r => phase[r] = "absent") /\ ~Active(r)
        BY <2>2, WhoAsks DEF Scripted, InTurn
      <4>3. n < r => sequence < r
        BY <2>1, WhoAsks, LoopIsLong DEF Scripted, ClientTyped
      <4>4. QED
        BY <4>1, <4>2, <4>3 DEF Active
    <3>2. n < n => FALSE
      BY <2>3
    <3>3. QED
      BY <3>1, <3>2
  <2>7. Numbered(Sent)'
    <3>1. Sent' = sequence /\ Sent = sequence
      BY <2>1, <2>2, <2>3 DEF Sent, Scripted, ClientTyped
    <3>2. Numbered(sequence)
      BY <3>1 DEF Scripted, InTurn
    <3>3. QED
      BY <2>2, <3>1, <3>2 DEF Numbered
  <2>8. Asked(at, awaiting)' = Asked(at, n)
    BY <2>2 DEF Asked
  <2>9. InTurn'
    <3>1. over' = "no" <=> at' # "done"
      BY <2>2 DEF Scripted, InTurn
    <3>2. at' # "ready" => seeding' = "idle"
      BY <2>2 DEF Scripted, InTurn
    <3>3. phase'[n] = "arrived"
      BY <2>3, <2>5
    <3>4. QED
      BY <2>2, <2>3, <2>6, <2>7, <2>8, <3>1, <3>2, <3>3 DEF InTurn
  <2>10. QED
    BY <2>4, <2>9 DEF Scripted
<1>4. ASSUME UNCHANGED clientVars, \A r \in Issued : phase'[r] = phase[r] /\ req'[r] = req[r],
             raised' = raised, at # "ready" => seeding' = "idle"
      PROVE  Scripted'
  <2>1. ClientTyped'
    BY <1>4 DEF Scripted, ClientTyped, clientVars
  <2>2. Numbered(Sent)'
    BY <1>4 DEF Scripted, InTurn, Sent, Numbered, clientVars
  <2>3. InTurn'
    BY <1>4, <2>2 DEF Scripted, InTurn, clientVars, Asked, Active
  <2>4. QED
    BY <2>1, <2>3 DEF Scripted
<1>5. CASE SeedStep
  <2>1. UNCHANGED clientVars /\ phase' = phase /\ req' = req /\ raised' = raised /\ at = "ready"
    BY <1>5 DEF SeedStep, Seed, ResetRows, ResetBill
  <2>2. QED
    BY <1>4, <2>1
<1>6. ASSUME NEW r \in Earlier, EarlierArrives(r)
      PROVE  Scripted'
  <2>1. UNCHANGED clientVars /\ raised' = raised /\ seeding' = seeding /\ Arrive(r)
    BY <1>6 DEF EarlierArrives, Noted
  <2>2. \A x \in Issued : phase'[x] = phase[x] /\ req'[x] = req[x]
    BY <1>1, <2>1, WhoAsks DEF Arrive, Goto, TypeOK
  <2>3. QED
    BY <1>4, <2>1, <2>2 DEF Scripted, InTurn
<1>7. CASE Beneath /\ DemoNext
  <2>1. ClientTyped'
    BY <1>7, RaisedTyped DEF Beneath, Scripted, ClientTyped, clientVars
  <2>2. QED
    BY <1>1, <1>7, <2>1, InTurnBeneath DEF Scripted
<1>8. CASE UNCHANGED demoVars
  BY <1>4, <1>8 DEF demoVars, seededVars, vars, seedVars, Scripted, InTurn
<1>9. QED
  BY <1>2, <1>3, <1>5, <1>6, <1>7, <1>8, DemoSteps

(* The script is always at one of its steps, with what it has sent behind it. *)
DemoBase == RunInv /\ Scripted

(* Every behaviour keeps both. *)
THEOREM ScriptInvariant == DemoSpec => []DemoBase
<1>1. DemoInit => DemoBase
  BY ScriptedInit DEF DemoBase
<1>2. DemoBase /\ [DemoNext]_demoVars => DemoBase'
  BY SystemStep, ScriptedStep DEF DemoBase
<1>3. QED
  BY <1>1, <1>2, PTL DEF DemoSpec

(* Every variable of the demonstration keeps its type, and no run issues more
   requests than the script and its loop have.                               *)
THEOREM DemoTypeCorrect == DemoSpec => []DemoTypeOK
<1>1. ASSUME DemoBase
      PROVE  DemoTypeOK
  <2>1. TypeOK /\ SeedTypeOK /\ ClientTyped /\ Numbered(Sent)
    BY <1>1 DEF DemoBase, RunInv, Scripted, InTurn
  <2>2. sequence \in 0..(9 + MaxBatches + 2) /\ awaiting \in 0..sequence
    <3>1. awaiting = 0 \/ (awaiting = sequence /\ awaiting \in Issued)
      BY <1>1 DEF DemoBase, Scripted, InTurn
    <3>2. CASE awaiting = 0
      BY <2>1, <3>2, LoopIsLong DEF Sent, Numbered, ClientTyped
    <3>3. CASE awaiting = sequence /\ awaiting \in Issued
      BY <3>3, WhoAsks, LoopIsLong
    <3>4. QED
      BY <3>1, <3>2, <3>3
  <2>3. batches \in 0..MaxBatches
    BY <2>1, LoopIsLong DEF ClientTyped
  <2>4. QED
    BY <2>1, <2>2, <2>3 DEF DemoTypeOK, ClientTyped
<1>2. QED
  BY <1>1, ScriptInvariant, PTL

-----------------------------------------------------------------------------
(* What handlers raise, and what the client counts *)

(* As long as no statement failed, only a limit or a fault unwinds a handler. *)
Excused ==
  errors + lostAcks = 0 =>
    \A r \in Requests :
      /\ phase[r] \in {"absent", "arrived", "reserved", "calling", "answered", "stored",
                       "settled", "created"} => raised[r] = "none"
      /\ phase[r] \in {"too_large", "exhausted"} => raised[r] = "limit"
      /\ phase[r] \in {"unwinding", "shed", "failed", "unavailable"} => raised[r] \in {"limit", "fault"}

(* A fault of the store shows in its count. *)
LEMMA FaultsAreCounted ==
  ASSUME TypeOK, NEW r \in Requests, Fault(r)
  PROVE  errors' + lostAcks' # 0
<1>1. errors \in Nat /\ lostAcks \in Nat
  BY PipelineAssumption DEF TypeOK
<1>2. DatabaseError \/ LostAck
  BY DEF Fault, ReserveFails, ReserveAckLost, CompletionFails, SettleAckLost, InsertJobFails,
     UnwindFails, UnwindAckLost
<1>3. QED
  BY <1>1, <1>2 DEF DatabaseError, LostAck

(* A handler's step raises what its new position tells. *)
LEMMA ExcusedHandler ==
  ASSUME TypeOK, ClientTyped, Excused, NEW r \in Requests, HandlerStep(r)
  PROVE  /\ Excused'
         /\ \A x \in Requests : ~Active(x) => raised'[x] = raised[x]
<1> DEFINE Goal == /\ Excused'
                   /\ \A x \in Requests : ~Active(x) => raised'[x] = raised[x]
<1> USE DEF ClientTyped, Excused, Active, Outcomes, Goto, Raise, faultVars
<1>1. CASE (RefuseBatch(r) \/ RefuseAllowance(r)) /\ Raise(r, "limit")
  BY <1>1 DEF RefuseBatch, RefuseAllowance, TypeOK
<1>2. CASE (Shed(r) \/ Deadline(r)) /\ Raise(r, "limit")
  BY <1>2 DEF Shed, Deadline, LeaveSlot, TypeOK
<1>3. CASE Erring(r) /\ Raise(r, "fault")
  BY <1>3 DEF Erring, CallFails, LeaveSlot, SettleViolatesCheck, UnwindViolatesCheck, TypeOK
<1>4. CASE (Reserve(r) \/ TakeSlot(r) \/ Answer(r) \/ Upsert(r) \/ Settle(r) \/ InsertJob(r)) /\ UNCHANGED raised
  BY <1>4 DEF Reserve, TakeSlot, Answer, LeaveSlot, Upsert, Settle, InsertJob, TypeOK
<1>5. CASE Unwind(r) /\ UNCHANGED raised
  BY <1>5 DEF Unwind, TypeOK
<1>6. QED
  BY <1>1, <1>2, <1>3, <1>4, <1>5 DEF HandlerStep, Limited, Orderly

(* So does every other step. *)
LEMMA ExcusedStep ==
  ASSUME RunInv, Scripted, Excused, DemoNext
  PROVE  Excused'
<1>1. TypeOK /\ ClientTyped
  BY DEF RunInv, Scripted
<1>2. errors \in Nat /\ lostAcks \in Nat
  BY <1>1, PipelineAssumption DEF TypeOK
<1>3. ASSUME NEW r \in Requests, HandlerStep(r)
      PROVE  Excused'
  BY <1>1, <1>3, ExcusedHandler
<1>4. ASSUME NEW r \in Requests, FaultStep(r)
      PROVE  Excused'
  BY <1>1, <1>4, FaultsAreCounted DEF FaultStep, Excused
<1>5. ASSUME NEW r \in Requests, Arrive(r), raised' = raised
      PROVE  Excused'
  BY <1>1, <1>5 DEF Arrive, Goto, faultVars, Excused, TypeOK
<1>6. ASSUME phase' = phase, raised' = raised, errors' \in Nat, errors <= errors', lostAcks' = lostAcks
      PROVE  Excused'
  BY <1>2, <1>6 DEF Excused
<1>7. ASSUME NEW r \in Requests, ProviderStep(r)
      PROVE  Excused'
  BY <1>2, <1>6, <1>7 DEF ProviderStep, Provider, AcceptCall, RefuseCall, ChargeCall, ProviderMoves, faultVars
<1>8. ASSUME NEW p \in Replicas, CrashStep(p)
      PROVE  Excused'
  BY <1>1, <1>8 DEF CrashStep, Crash, Excused, TypeOK
<1>9. CASE Send
  BY <1>5, <1>9, NextIsIssued, WhoAsks DEF Send
<1>10. CASE Aside
  BY <1>2, <1>6, <1>10 DEF Aside, DatabaseError
<1>11. CASE SeedStep
  BY <1>2, <1>6, <1>11 DEF SeedStep, Seed, ResetRows, ResetBill, faultVars
<1>12. CASE Quiet
  BY <1>2, <1>6, <1>12 DEF Quiet, demoVars, seededVars, vars
<1>13. ASSUME NEW r \in Earlier, EarlierArrives(r)
       PROVE  Excused'
  BY <1>5, <1>13, WhoAsks DEF EarlierArrives
<1>14. CASE Client
  BY <1>9, <1>10, <1>14, ClientAside
<1>15. QED
  BY <1>3, <1>4, <1>7, <1>8, <1>11, <1>12, <1>13, <1>14 DEF DemoNext

(* The client's requests that it knows were turned away by a limit. *)
Turned ==
  {r \in Issued : r # awaiting /\ Terminal(r) /\ phase[r] # "crashed" /\ raised[r] = "limit"}

RefusalsAreLogged ==
  errors + lostAcks = 0 /\ FreshStart => refusals = bounced + Cardinality(Turned)

(* The refused are finitely many. *)
LEMMA TurnedFinite ==
  /\ IsFiniteSet(Turned) /\ Cardinality(Turned) \in Nat
<1>1. Turned \in SUBSET Requests
  BY WhoAsks DEF Turned
<1>2. QED
  BY <1>1, PipelineAssumption, FS_Subset, FS_CardinalityType

(* An answer is counted as a refusal just when a limit was raised for it. *)
LEMMA AnswersTell ==
  ASSUME TypeOK, ClientTyped, Excused, errors + lostAcks = 0, NEW r \in Requests,
         Terminal(r), phase[r] # "crashed"
  PROVE  Refused(StatusOf(r)) <=> raised[r] = "limit"
<1>1. CASE phase[r] = "created"
  BY <1>1 DEF Excused, StatusOf, Refused
<1>2. CASE phase[r] = "too_large"
  BY <1>2 DEF Excused, StatusOf, Refused
<1>3. CASE phase[r] = "exhausted"
  BY <1>3 DEF Excused, StatusOf, Refused
<1>4. CASE phase[r] \in {"shed", "failed", "unavailable"}
  BY <1>4 DEF Excused, StatusOf, Refused
<1>5. QED
  BY <1>1, <1>2, <1>3, <1>4 DEF Terminal, Outcomes

(* One more answer: counted and logged, or neither. *)
LEMMA LoggedReceive ==
  ASSUME RunInv, Scripted, Excused, RefusalsAreLogged, Receive
  PROVE  RefusalsAreLogged'
<1>1. SUFFICES ASSUME errors' + lostAcks' = 0, FreshStart'
               PROVE  refusals' = bounced' + Cardinality(Turned')
  BY DEF RefusalsAreLogged
<1>2. /\ UNCHANGED <<phase, raised, errors, lostAcks, bounced>> /\ awaiting' = 0
      /\ refusals' = refusals + (IF Refused(StatusOf(awaiting)) THEN 1 ELSE 0)
      /\ Terminal(awaiting) /\ phase[awaiting] # "crashed"
      /\ awaiting # 0
  BY DEF Receive, seededVars, vars
<1>3. awaiting \in Issued /\ awaiting \in Requests
  BY <1>2, WhoAsks DEF Scripted, InTurn
<1>4. Refused(StatusOf(awaiting)) <=> raised[awaiting] = "limit"
  BY <1>1, <1>2, <1>3, AnswersTell DEF RunInv, Scripted
<1>5. errors + lostAcks = 0 /\ FreshStart
  BY <1>1, <1>2 DEF FreshStart
<1>6. refusals = bounced + Cardinality(Turned) /\ bounced \in Nat
  BY <1>5 DEF RefusalsAreLogged, Scripted, ClientTyped
<1>7. \A r \in Issued : r # 0
  BY WhoAsks
<1>8. CASE raised[awaiting] = "limit"
  <2>1. Turned' = Turned \cup {awaiting} /\ awaiting \notin Turned
    BY <1>2, <1>3, <1>7, <1>8 DEF Turned, Terminal
  <2>2. Cardinality(Turned \cup {awaiting}) = Cardinality(Turned) + 1
    BY <2>1, TurnedFinite, FS_AddElement
  <2>3. QED
    BY <1>2, <1>4, <1>6, <1>8, <2>1, <2>2, TurnedFinite
<1>9. CASE raised[awaiting] # "limit"
  <2>1. Turned' = Turned
    BY <1>2, <1>3, <1>7, <1>9 DEF Turned, Terminal
  <2>2. QED
    BY <1>2, <1>4, <1>6, <1>9, <2>1, TurnedFinite
<1>10. QED
  BY <1>8, <1>9

(* No other step moves the one without the other. *)
LEMMA LoggedStep ==
  ASSUME RunInv, Scripted, Excused, RefusalsAreLogged, [DemoNext]_demoVars
  PROVE  RefusalsAreLogged'
<1>1. TypeOK /\ ClientTyped
  BY DEF RunInv, Scripted
<1>2. errors \in Nat /\ lostAcks \in Nat
  BY <1>1, PipelineAssumption DEF TypeOK
<1>3. ASSUME FreshStart' => FreshStart, errors' + lostAcks' = 0 => errors + lostAcks = 0,
             Turned' = Turned, UNCHANGED <<refusals, bounced>>
      PROVE  RefusalsAreLogged'
  BY <1>3 DEF RefusalsAreLogged
<1>4. ASSUME UNCHANGED <<phase, raised, awaiting, refusals, bounced, lostAcks>>,
             errors' \in Nat, errors <= errors'
      PROVE  RefusalsAreLogged'
  <2>1. Turned' = Turned /\ (FreshStart' => FreshStart)
    BY <1>4 DEF Turned, Terminal, FreshStart
  <2>2. errors' + lostAcks' = 0 => errors + lostAcks = 0
    <3>1. SUFFICES ASSUME errors' + lostAcks' = 0
                   PROVE  errors + lostAcks = 0
      OBVIOUS
    <3>2. errors' = 0 /\ lostAcks' = 0 /\ lostAcks' = lostAcks
      <4>1. lostAcks' = lostAcks
        BY <1>4
      <4>2. lostAcks' \in Nat /\ errors' \in Nat
        BY <1>2, <1>4, <4>1
      <4>3. PICK e \in Nat, k \in Nat : e = errors' /\ k = lostAcks'
        BY <4>2
      <4>4. e + k = 0
        BY <3>1, <4>3
      <4>5. e = 0 /\ k = 0
        BY <4>4
      <4>6. QED
        BY <4>1, <4>3, <4>5
    <3>3. errors = 0
      BY <1>2, <1>4, <3>2
    <3>4. QED
      BY <3>2, <3>3
  <2>3. QED
    BY <1>3, <1>4, <2>1, <2>2
<1>5. CASE Receive
  BY <1>5, LoggedReceive
<1>6. CASE LoseReplica
  <2>1. Turned' = Turned
    BY <1>6, WhoAsks DEF LoseReplica, seededVars, vars, Turned, Terminal
  <2>2. QED
    BY <1>3, <1>6, <2>1 DEF LoseReplica, seededVars, vars, FreshStart
<1>7. CASE Bounce
  <2>1. /\ UNCHANGED <<phase, raised, awaiting, errors, lostAcks>>
        /\ refusals' = refusals + 1 /\ bounced' = bounced + 1
    BY <1>7 DEF Bounce, seededVars, vars
  <2>2. Turned' = Turned /\ (FreshStart' => FreshStart)
    BY <2>1 DEF Turned, Terminal, FreshStart
  <2>3. refusals \in Nat /\ bounced \in Nat
    BY <1>1 DEF ClientTyped
  <2>4. QED
    BY <2>1, <2>2, <2>3, TurnedFinite DEF RefusalsAreLogged
<1>8. CASE Begin \/ ReadBill \/ Summary
  BY <1>2, <1>4, <1>8 DEF Begin, ReadBill, Summary, seededVars, vars
<1>9. ASSUME NEW place, NEW condition, Read(place, condition)
      PROVE  RefusalsAreLogged'
  BY <1>2, <1>4, <1>9 DEF Read, seededVars, vars
<1>10. ASSUME NEW place, ReadFails(place)
       PROVE  RefusalsAreLogged'
  BY <1>2, <1>10 DEF ReadFails, DatabaseError, RefusalsAreLogged
<1>11. CASE Send
  <2>1. PICK n : n = sequence + 1
    OBVIOUS
  <2>2. n \in Issued /\ n \in Requests /\ awaiting = 0 /\ n # 0
    BY <1>11, <2>1, NextIsIssued, WhoAsks DEF Send
  <2>3. /\ phase[n] = "absent" /\ phase' = [phase EXCEPT ![n] = "arrived"]
        /\ awaiting' = n
        /\ UNCHANGED <<raised, refusals, bounced, errors, lostAcks>>
    BY <1>11, <2>1 DEF Send, Arrive, Goto, faultVars
  <2>4. Turned' = Turned
    BY <1>1, <2>2, <2>3, WhoAsks DEF Turned, Terminal, Outcomes, TypeOK
  <2>5. FreshStart' => FreshStart
    BY <1>1, <2>2, <2>3, WhoAsks DEF FreshStart, TypeOK
  <2>6. QED
    BY <1>3, <2>3, <2>4, <2>5
<1>12. CASE Client
  BY <1>5, <1>6, <1>7, <1>8, <1>9, <1>10, <1>11, <1>12 DEF Client, ReadUsage, ReadList, ReadSpent, ReadJob
<1>13. CASE SeedStep
  BY <1>2, <1>4, <1>13 DEF SeedStep, Seed, ResetRows, ResetBill, faultVars, clientVars
<1>14. ASSUME NEW r \in Earlier, EarlierArrives(r)
       PROVE  RefusalsAreLogged'
  <2>1. r \in Requests /\ phase' = [phase EXCEPT ![r] = "arrived"]
    BY <1>14, WhoAsks DEF EarlierArrives, Arrive, Goto
  <2>2. ~FreshStart'
    BY <1>1, <2>1 DEF FreshStart, TypeOK
  <2>3. QED
    BY <2>2 DEF RefusalsAreLogged
<1>15. ASSUME Beneath, \A x \in Requests : ~Active(x) => raised'[x] = raised[x],
              errors' + lostAcks' = 0 => errors + lostAcks = 0
       PROVE  RefusalsAreLogged'
  <2>1. \A x \in Requests :
          /\ phase[x] = "absent" \/ Terminal(x) => phase'[x] = phase[x]
          /\ Active(x) => phase'[x] # "absent"
    BY <1>1, <1>15, PhasesMove DEF Beneath
  <2>2. FreshStart' => FreshStart
    BY <1>1, <2>1, WhoAsks DEF FreshStart, Active, Terminal
  <2>3. UNCHANGED <<awaiting, refusals, bounced>>
    BY <1>15 DEF Beneath, clientVars
  <2>4. \A r \in Issued : r # awaiting => phase'[r] = phase[r] /\ raised'[r] = raised[r]
    BY <1>15, <2>1, WhoAsks DEF Scripted, InTurn, Active, Terminal
  <2>5. Turned' = Turned
    BY <2>3, <2>4 DEF Turned, Terminal
  <2>6. QED
    BY <1>3, <1>15, <2>2, <2>3, <2>5
<1>16. ASSUME NEW r \in Requests, HandlerStep(r)
       PROVE  RefusalsAreLogged'
  <2>1. Beneath
    BY <1>16 DEF HandlerStep, Limited, Erring, Orderly, Beneath, AppStep, Handler,
       Admission, Calling, Completion, Unwinding
  <2>2. \A x \in Requests : ~Active(x) => raised'[x] = raised[x]
    BY <1>1, <1>16, ExcusedHandler
  <2>3. errors' + lostAcks' = 0 => errors + lostAcks = 0
    <3>1. errors' = errors /\ lostAcks' = lostAcks
      BY <1>16 DEF HandlerStep, Limited, Erring, Orderly, RefuseBatch, RefuseAllowance, Shed, Deadline,
         CallFails, LeaveSlot, SettleViolatesCheck, UnwindViolatesCheck, Reserve, TakeSlot, Answer, Upsert,
         Settle, InsertJob, Unwind, faultVars
    <3>2. QED
      BY <3>1
  <2>4. QED
    BY <1>15, <2>1, <2>2, <2>3
<1>17. ASSUME NEW r \in Requests, ProviderStep(r)
       PROVE  RefusalsAreLogged'
  BY <1>2, <1>4, <1>17 DEF ProviderStep, Provider, AcceptCall, RefuseCall, ChargeCall, ProviderMoves,
     faultVars, clientVars
<1>18. ASSUME NEW r \in Requests, FaultStep(r)
       PROVE  RefusalsAreLogged'
  BY <1>1, <1>18, FaultsAreCounted DEF FaultStep, RefusalsAreLogged
<1>19. ASSUME NEW p \in Replicas, CrashStep(p)
       PROVE  RefusalsAreLogged'
  <2>1. Beneath /\ raised' = raised /\ errors' = errors /\ lostAcks' = lostAcks
    BY <1>19 DEF CrashStep, Beneath, AppStep, clientVars, Crash
  <2>2. QED
    BY <1>15, <2>1
<1>20. CASE UNCHANGED demoVars
  BY <1>2, <1>4, <1>20 DEF demoVars, seededVars, vars, clientVars
<1>21. QED
  BY <1>12, <1>13, <1>14, <1>16, <1>17, <1>18, <1>19, <1>20 DEF DemoNext, Quiet

(* A run that passes has counted as refusals what the replicas have logged. *)
THEOREM AuditGateHolds == DemoSpec => []AuditGateAgrees
<1> DEFINE Inv == DemoBase /\ Excused /\ RefusalsAreLogged
<1>1. ASSUME DemoInit
      PROVE  Inv
  <2>1. DemoBase
    BY <1>1, ScriptedInit DEF DemoBase
  <2>2. Excused
    BY <1>1 DEF DemoInit, ReseedInit, Init, Excused
  <2>3. Turned = {}
    BY <1>1, WhoAsks DEF DemoInit, ReseedInit, Init, Turned, Terminal, Outcomes
  <2>4. RefusalsAreLogged
    BY <1>1, <2>3, FS_EmptySet DEF DemoInit, RefusalsAreLogged
  <2>5. QED
    BY <2>1, <2>2, <2>4
<1>2. ASSUME Inv, [DemoNext]_demoVars
      PROVE  Inv'
  <2>1. DemoBase'
    BY <1>2, SystemStep, ScriptedStep DEF DemoBase
  <2>2. RefusalsAreLogged'
    BY <1>2, LoggedStep DEF DemoBase
  <2>3. Excused'
    <3>1. CASE DemoNext
      BY <1>2, <3>1, ExcusedStep DEF DemoBase
    <3>2. CASE UNCHANGED demoVars
      BY <1>2, <3>2 DEF demoVars, seededVars, vars, Excused
    <3>3. QED
      BY <1>2, <3>1, <3>2
  <2>4. QED
    BY <2>1, <2>2, <2>3
<1>3. ASSUME Inv
      PROVE  AuditGateAgrees
  <2>1. SUFFICES ASSUME over = "passed", errors + lostAcks = 0, FreshStart
                 PROVE  LogLines = refusals
    BY DEF AuditGateAgrees
  <2>2. awaiting = 0 /\ Requests = Earlier \cup Issued
    BY <1>3, <2>1, WhoAsks DEF DemoBase, Scripted, InTurn, Working
  <2>3. {r \in Requests : Terminal(r) /\ phase[r] # "crashed" /\ raised[r] = "limit"} = Turned
    BY <2>1, <2>2, WhoAsks DEF FreshStart, Turned, Terminal, Outcomes
  <2>4. QED
    BY <1>3, <2>1, <2>3 DEF LogLines, RefusalsAreLogged
<1>4. QED
  BY <1>1, <1>2, <1>3, PTL DEF DemoSpec

-----------------------------------------------------------------------------
(* The client's count and the provider's bill *)

(* The client's requests whose 201 it has seen. *)
Served == {r \in Issued : r # awaiting /\ phase[r] = "created"}

(* What the client was told is what those requests name, what the provider bills
   is what the counted ones name, and none of the script's is missing there.  *)
TwoBooks ==
  /\ told = Cardinality(Units(req, Served))
  /\ Total(ledger) = Cardinality(Units(req, counted))
  /\ \A r \in Issued : call[r] = "billed" => r \in counted
  /\ \A r \in Requests : phase[r] \in {"answered", "stored", "settled", "created"} => call[r] = "billed"

(* The served are requests. *)
LEMMA ServedAreRequests ==
  /\ Served \in SUBSET Requests
BY WhoAsks DEF Served

(* A 201 adds the same lookups to the count as its request named. *)
LEMMA TwoBooksReceive ==
  ASSUME RunInv, Scripted, TwoBooks, Receive
  PROVE  TwoBooks'
<1>1. /\ UNCHANGED <<req, phase, call, ledger, counted>> /\ awaiting' = 0
      /\ awaiting # 0 /\ told' = told + Reported(awaiting)
  BY DEF Receive, seededVars, vars, seedVars
<1>2. awaiting \in Issued /\ awaiting \in Requests /\ req \in [Requests -> Workload]
  BY <1>1, WhoAsks DEF Scripted, InTurn, RunInv, TypeOK
<1>3. \A r \in Issued : r # 0
  BY WhoAsks
<1>4. told' = Cardinality(Units(req, Served'))
  <2>1. CASE phase[awaiting] = "created"
    <3>1. Served' = Served \cup {awaiting} /\ awaiting \notin Served
      BY <1>1, <1>2, <1>3, <2>1 DEF Served
    <3>2. Cardinality(Units(req, Served \cup {awaiting}))
            = Cardinality(Units(req, Served)) + req[awaiting].lookups
      BY <1>2, <3>1, ServedAreRequests, UnitsAdd
    <3>3. QED
      BY <1>1, <2>1, <3>1, <3>2 DEF TwoBooks, Reported
  <2>2. CASE phase[awaiting] # "created"
    <3>1. Served' = Served
      BY <1>1, <1>2, <1>3, <2>2 DEF Served
    <3>2. told' = told
      BY <1>1, <2>2 DEF Reported, Scripted, ClientTyped
    <3>3. QED
      BY <3>1, <3>2 DEF TwoBooks
  <2>3. QED
    BY <2>1, <2>2
<1>5. Total(ledger') = Cardinality(Units(req, counted))
  BY <1>1 DEF TwoBooks
<1>6. QED
  BY <1>1, <1>4, <1>5 DEF TwoBooks, Units

(* Nothing was asked of a request that comes only now. *)
LEMMA TwoBooksArrive ==
  ASSUME RunInv, Scripted, TwoBooks, NEW r \in Requests, Arrive(r), Noted,
         told' = told, Served' = Served, r \notin Served
  PROVE  TwoBooks'
<1>1. TypeOK /\ Standing
  BY DEF RunInv, Positions
<1>2. /\ phase[r] = "absent" /\ phase' = [phase EXCEPT ![r] = "arrived"]
      /\ UNCHANGED <<call, ledger>> /\ \A x \in Requests : x # r => req'[x] = req[x]
  BY <1>1 DEF Arrive, Goto, providerVars, TypeOK
<1>3. counted' = counted
  BY <1>2 DEF Noted
<1>4. r \notin counted
  BY <1>1, <1>2 DEF Standing
<1>5. \A x \in counted : req'[x] = req[x]
  BY <1>2, <1>4 DEF RunInv, SeedTypeOK
<1>6. Units(req', counted) = Units(req, counted)
  BY <1>5, UnitsLocal
<1>7. \A x \in Served : req'[x] = req[x]
  BY <1>2, ServedAreRequests
<1>8. Units(req', Served) = Units(req, Served)
  BY <1>7, UnitsLocal
<1>9. \A x \in Requests : phase'[x] \in {"answered", "stored", "settled", "created"} => call'[x] = "billed"
  BY <1>1, <1>2 DEF TwoBooks, TypeOK
<1>10. told' = Cardinality(Units(req', Served')) /\ Total(ledger') = Cardinality(Units(req', counted'))
  BY <1>2, <1>3, <1>6, <1>8 DEF TwoBooks
<1>11. QED
  BY <1>2, <1>3, <1>9, <1>10 DEF TwoBooks, Units

(* A step that leaves the bill and the answers alone. *)
LEMMA TwoBooksAside ==
  ASSUME TwoBooks, UNCHANGED <<req, phase, call, ledger, counted, told>>, Served' = Served
  PROVE  TwoBooks'
<1>1. told' = Cardinality(Units(req', Served')) /\ Total(ledger') = Cardinality(Units(req', counted'))
  BY DEF TwoBooks
<1>2. QED
  BY <1>1 DEF TwoBooks, Units

(* What a handler has in hand the provider has billed. *)
LEMMA InHandIsBilled ==
  ASSUME TypeOK, TwoBooks, AppStep
  PROVE  \A x \in Requests : phase'[x] \in {"answered", "stored", "settled", "created"} => call'[x] = "billed"
<1> DEFINE Goal == \A x \in Requests :
                     phase'[x] \in {"answered", "stored", "settled", "created"} => call'[x] = "billed"
<1> USE DEF TwoBooks, Goto, TypeOK, Outcomes, providerVars
<1>1. ASSUME NEW r \in Requests, Admission(r)
      PROVE  Goal
  BY <1>1 DEF Admission, RefuseBatch, Reserve, RefuseAllowance
<1>2. ASSUME NEW r \in Requests, Calling(r)
      PROVE  Goal
  BY <1>2 DEF Calling, TakeSlot, Shed, Answer, CallFails, Deadline, LeaveSlot
<1>3. ASSUME NEW r \in Requests, Completion(r)
      PROVE  Goal
  BY <1>3 DEF Completion, Upsert, Settle, SettleViolatesCheck, InsertJob
<1>4. ASSUME NEW r \in Requests, Unwinding(r)
      PROVE  Goal
  BY <1>4 DEF Unwinding, Unwind, UnwindViolatesCheck
<1>5. ASSUME NEW r \in Requests, Provider(r)
      PROVE  Goal
  BY <1>5 DEF Provider, AcceptCall, RefuseCall, ChargeCall, ProviderMoves
<1>6. ASSUME NEW r \in Requests, Fault(r)
      PROVE  Goal
  BY <1>6 DEF Fault, ReserveFails, ReserveAckLost, CompletionFails, SettleAckLost, InsertJobFails,
     UnwindFails, UnwindAckLost
<1>7. ASSUME NEW p \in Replicas, Crash(p)
      PROVE  Goal
  BY <1>7 DEF Crash
<1>8. QED
  BY <1>1, <1>2, <1>3, <1>4, <1>5, <1>6, <1>7 DEF AppStep, Handler

(* The application's step: a charged call enters the bill and the set at once. *)
LEMMA TwoBooksBeneath ==
  ASSUME RunInv, Scripted, TwoBooks, Beneath
  PROVE  TwoBooks'
<1>1. TypeOK /\ SeedTypeOK /\ Standing
  BY DEF RunInv, Positions
<1>2. /\ req' = req
      /\ \A x \in Requests :
           /\ phase[x] = "absent" \/ Terminal(x) => phase'[x] = phase[x]
           /\ Active(x) => phase'[x] # "absent"
  BY <1>1, PhasesMove DEF Beneath
<1>3. UNCHANGED clientVars /\ Noted /\ AppStep
  BY DEF Beneath
<1>4. Served' = Served
  <2>1. \A r \in Issued : r # awaiting => phase'[r] = phase[r]
    BY <1>2, WhoAsks DEF Scripted, InTurn, Active, Terminal
  <2>2. awaiting' = awaiting
    BY <1>3 DEF clientVars
  <2>3. QED
    BY <2>1, <2>2 DEF Served
<1>5. \A x \in Requests : phase'[x] \in {"answered", "stored", "settled", "created"} => call'[x] = "billed"
  BY <1>1, <1>3, InHandIsBilled
<1>6. \A r \in Issued : call'[r] = "billed" => r \in counted'
  BY <1>3, WhoAsks DEF TwoBooks, Noted
<1>7. told' = Cardinality(Units(req', Served'))
  BY <1>2, <1>3, <1>4 DEF TwoBooks, clientVars
<1>8. Total(ledger') = Cardinality(Units(req', counted'))
  <2>1. CASE UNCHANGED <<req, ledger, counted>>
    BY <2>1 DEF TwoBooks
  <2>2. ASSUME NEW r \in Requests, Arrive(r)
        PROVE  UNCHANGED <<req, ledger, counted>>
    BY <1>2, <1>3, <2>2 DEF Arrive, providerVars, Noted
  <2>3. ASSUME NEW r \in Requests, ChargeCall(r)
        PROVE  Total(ledger') = Cardinality(Units(req', counted'))
    <3>1. r \notin counted /\ counted' = counted \cup {r}
      BY <1>1, <1>3, <2>3 DEF ChargeCall, ProviderMoves, Standing, Noted, TypeOK
    <3>2. PICK t, n : /\ t = Tenant(r) /\ n = req[r].lookups /\ t \in Tenants /\ n \in Nat
      BY <1>1, <2>3, DescriptorFacts
    <3>3. /\ ledger \in [Tenants -> Nat] /\ ledger' \in [Tenants -> Nat]
          /\ ledger'[t] = ledger[t] + n /\ \A x \in Tenants : x # t => ledger'[x] = ledger[x]
      BY <1>1, <2>3, <3>2 DEF ChargeCall, TypeOK
    <3>4. PICK l \in [Tenants -> Nat], m \in [Tenants -> Nat] : l = ledger /\ m = ledger'
      BY <3>3
    <3>5. Total(m) = Total(l) + n
      BY <3>2, <3>3, <3>4, DemoNumbers, TotalRises
    <3>6. Cardinality(Units(req, counted \cup {r})) = Cardinality(Units(req, counted)) + n
      BY <1>1, <3>1, <3>2, UnitsAdd DEF TypeOK, SeedTypeOK
    <3>7. Total(ledger') = Total(ledger) + n
      BY <3>4, <3>5
    <3>8. QED
      BY <1>2, <3>1, <3>6, <3>7 DEF TwoBooks
  <2>4. Next
    BY <1>3, BeneathIsNext
  <2>5. QED
    BY <1>1, <1>3, <2>1, <2>2, <2>3, <2>4, CountedSteps
<1>9. QED
  BY <1>5, <1>6, <1>7, <1>8 DEF TwoBooks, Units

(* Every step keeps both books. *)
LEMMA TwoBooksStep ==
  ASSUME RunInv, Scripted, TwoBooks, [DemoNext]_demoVars
  PROVE  TwoBooks'
<1>1. TypeOK /\ SeedTypeOK /\ Standing
  BY DEF RunInv, Positions
<1>2. CASE Receive
  BY <1>2, TwoBooksReceive
<1>3. CASE Client /\ ~Send /\ ~Receive /\ Aside
  <2>1. told' = told \/ ReadUsage
    BY <1>3 DEF Client, Begin, LoseReplica, ReadList, ReadJob, ReadSpent, Read, ReadFails, Bounce, ReadBill, Summary
  <2>2. told' = told
    BY <2>1 DEF ReadUsage, Read, ReadFails
  <2>3. Served' = Served
    <3>1. phase' = phase
      BY <1>3 DEF Aside
    <3>2. awaiting' = awaiting \/ (LoseReplica /\ awaiting' = 0)
      BY <1>3 DEF Client, Begin, LoseReplica, ReadUsage, ReadList, ReadJob, ReadSpent, Read, ReadFails, Bounce,
         ReadBill, Summary
    <3>3. \A r \in Issued : r # 0
      BY WhoAsks
    <3>4. QED
      BY <3>1, <3>2, <3>3 DEF Served, LoseReplica
  <2>4. QED
    BY <1>3, <2>2, <2>3, TwoBooksAside DEF Aside
<1>4. CASE Send
  <2>1. PICK n : n = sequence + 1
    OBVIOUS
  <2>2. n \in Issued /\ n \in Requests /\ awaiting = 0 /\ n # 0
    BY <1>4, <2>1, NextIsIssued, WhoAsks DEF Send
  <2>3. Arrive(n) /\ Noted /\ told' = told /\ awaiting' = n
    BY <1>4, <2>1 DEF Send
  <2>4. phase[n] = "absent" /\ phase' = [phase EXCEPT ![n] = "arrived"]
    BY <2>3 DEF Arrive, Goto
  <2>5. Served' = Served /\ n \notin Served
    BY <1>1, <2>2, <2>3, <2>4, WhoAsks DEF Served, TypeOK
  <2>6. QED
    BY <2>2, <2>3, <2>5, TwoBooksArrive
<1>5. ASSUME NEW r \in Earlier, EarlierArrives(r)
      PROVE  TwoBooks'
  <2>1. Arrive(r) /\ Noted /\ told' = told /\ awaiting' = awaiting
    BY <1>5 DEF EarlierArrives, clientVars
  <2>2. r \in Requests /\ r \notin Issued
    BY WhoAsks
  <2>3. Served' = Served /\ r \notin Served
    BY <1>1, <2>1, <2>2, WhoAsks DEF Arrive, Goto, Served, TypeOK
  <2>4. QED
    BY <2>1, <2>2, <2>3, TwoBooksArrive
<1>6. CASE SeedStep
  <2>1. /\ UNCHANGED <<req, phase, call, told, awaiting>> /\ at = "ready"
        /\ UNCHANGED <<ledger, counted>> \/ (ledger' = [t \in Tenants |-> 0] /\ counted' = {})
    BY <1>6 DEF SeedStep, Seed, ResetRows, ResetBill, clientVars, providerVars
  <2>2. Served' = Served
    BY <2>1 DEF Served
  <2>3. CASE UNCHANGED <<ledger, counted>>
    BY <2>1, <2>2, <2>3, TwoBooksAside
  <2>4. CASE ledger' = [t \in Tenants |-> 0] /\ counted' = {}
    <3>1. Total(ledger') = 0 /\ Cardinality(Units(req', counted')) = 0
      BY <2>4, TotalNothing, UnitsNone
    <3>2. told' = Cardinality(Units(req', Served'))
      BY <2>1, <2>2 DEF TwoBooks
    <3>3. \A r \in Issued : call[r] = "unsent"
      <4>1. awaiting = 0 /\ sequence = 0
        BY <2>1 DEF Scripted, InTurn, Numbered, Sent, Working
      <4>2. \A r \in Issued : phase[r] = "absent"
        BY <4>1, WhoAsks, LoopIsLong DEF Scripted, InTurn
      <4>3. QED
        BY <1>1, <4>2, WhoAsks DEF Standing, TypeOK
    <3>4. QED
      BY <2>1, <3>1, <3>2, <3>3 DEF TwoBooks, Units
  <2>5. QED
    BY <2>1, <2>3, <2>4
<1>7. CASE Beneath
  BY <1>7, TwoBooksBeneath
<1>8. CASE UNCHANGED demoVars
  <2>1. Served' = Served
    BY <1>8 DEF demoVars, seededVars, vars, clientVars, Served
  <2>2. QED
    BY <1>8, <2>1, TwoBooksAside DEF demoVars, seededVars, vars, seedVars, clientVars
<1>9. QED
  BY <1>2, <1>3, <1>4, <1>5, <1>6, <1>7, <1>8, DemoSteps

(* Both begin empty. *)
LEMMA TwoBooksInit ==
  ASSUME DemoInit
  PROVE  TwoBooks
<1>1. ReseedInit /\ told = 0
  BY DEF DemoInit
<1>2. Served = {} /\ counted = {}
  BY <1>1, WhoAsks DEF ReseedInit, Init, SeedInit, Served
<1>3. Total(ledger) = 0
  BY <1>1, TotalNothing DEF ReseedInit, Init
<1>4. QED
  BY <1>1, <1>2, <1>3, UnitsNone, WhoAsks DEF ReseedInit, Init, TwoBooks

(* A run passes only with the bill that its own answered requests make up: the
   totals agree, and none of those requests is missing from the bill.        *)
THEOREM PassesHideNothing == DemoSpec => PassHidesNothing
<1> DEFINE Inv == DemoBase /\ TwoBooks
           Step == over' = "passed" /\ over # "passed"
                     => Lookups(counted) = Lookups({r \in Issued : phase[r] = "created"})
<1>1. DemoInit => Inv
  BY ScriptedInit, TwoBooksInit DEF DemoBase
<1>2. Inv /\ [DemoNext]_demoVars => Inv'
  BY SystemStep, ScriptedStep, TwoBooksStep DEF DemoBase
<1>3. ASSUME Inv, DemoNext, over' = "passed", over # "passed"
      PROVE  Lookups(counted) = Lookups({r \in Issued : phase[r] = "created"})
  <2>1. Summary
    <3>1. CASE Client
      BY <1>3, <3>1 DEF Client, Begin, Send, Receive, LoseReplica, ReadList, ReadJob, ReadUsage, ReadSpent, Read,
         ReadFails, Bounce, ReadBill
    <3>2. ~Client => over' = over
      BY <1>3 DEF DemoNext, SeedStep, EarlierArrives, HandlerStep, ProviderStep, FaultStep, CrashStep, Quiet,
         demoVars, clientVars
    <3>3. QED
      BY <1>3, <3>1, <3>2
  <2>2. told = Total(ledger)
    <3>1. failures' = {}
      BY <1>3, <2>1 DEF Summary
    <3>2. QED
      BY <2>1, <3>1 DEF Summary, Require, TotalBill
  <2>3. Served = {r \in Issued : phase[r] = "created"}
    <3>1. awaiting = 0
      BY <1>3, <2>1 DEF DemoBase, Scripted, InTurn, Working, Summary
    <3>2. QED
      BY <3>1, WhoAsks DEF Served
  <2>4. Served \subseteq counted
    BY <1>3, WhoAsks DEF TwoBooks, Served
  <2>5. Units(req, Served) \subseteq Units(req, counted)
    BY <2>4 DEF Units
  <2>6. Cardinality(Units(req, Served)) = Cardinality(Units(req, counted))
    BY <1>3, <2>2 DEF TwoBooks
  <2>7. Units(req, Served) = Units(req, counted)
    <3>1. IsFiniteSet(Units(req, counted))
      BY UnitsFinite
    <3>2. QED
      BY <2>5, <2>6, <3>1, FS_Subset
  <2>8. \A S : Lookups(S) = Units(req, S)
    BY DEF Lookups, Units
  <2>9. QED
    BY <2>3, <2>7, <2>8
<1>4. Inv /\ [DemoNext]_demoVars => [Step]_demoVars
  BY <1>3
<1>5. QED
  <2>1. DemoSpec => []Inv
    BY <1>1, <1>2, PTL DEF DemoSpec
  <2>2. DemoSpec => [][Step]_demoVars
    BY <1>4, <2>1, PTL DEF DemoSpec
  <2>3. QED
    BY <2>2, PTL DEF PassHidesNothing

-----------------------------------------------------------------------------
(* A demonstration that fails has a cause *)

(* Every import that was answered 201 has its job. *)
Posted == \A r \in Requests : phase[r] = "created" /\ req[r].op = "import" => r \in jobs

(* As long as nothing was carried over, there was no seeding, and the system is
   as it is without one; the script met nobody when it began.                *)
Alone ==
  carried = {} =>
    /\ IInv /\ Paths /\ Posted
    /\ runs = 0 /\ seeding = "idle"
    /\ at # "ready" => FreshStart

(* No step answers an import 201 without its job. *)
LEMMA PostedStep ==
  ASSUME TypeOK, Posted, Next
  PROVE  Posted'
<1> USE DEF Posted, Goto, TypeOK, Outcomes, storeVars, providerVars
<1>1. ASSUME NEW r \in Requests, Arrive(r)
      PROVE  Posted'
  BY <1>1 DEF Arrive
<1>2. ASSUME NEW r \in Requests, Admission(r)
      PROVE  Posted'
  BY <1>2 DEF Admission, RefuseBatch, Reserve, RefuseAllowance
<1>3. ASSUME NEW r \in Requests, Calling(r)
      PROVE  Posted'
  BY <1>3 DEF Calling, TakeSlot, Shed, Answer, CallFails, Deadline, LeaveSlot
<1>4. ASSUME NEW r \in Requests, Completion(r)
      PROVE  Posted'
  BY <1>4 DEF Completion, Upsert, Settle, SettleViolatesCheck, InsertJob
<1>5. ASSUME NEW r \in Requests, Unwinding(r)
      PROVE  Posted'
  BY <1>5 DEF Unwinding, Unwind, UnwindViolatesCheck
<1>6. ASSUME NEW r \in Requests, Provider(r)
      PROVE  Posted'
  BY <1>6 DEF Provider, AcceptCall, RefuseCall, ChargeCall, ProviderMoves
<1>7. ASSUME NEW r \in Requests, Fault(r)
      PROVE  Posted'
  BY <1>7 DEF Fault, ReserveFails, ReserveAckLost, CompletionFails, SettleAckLost, InsertJobFails,
     UnwindFails, UnwindAckLost
<1>8. ASSUME NEW p \in Replicas, Crash(p)
      PROVE  Posted'
  BY <1>8 DEF Crash
<1>9. CASE Rest
  BY <1>9 DEF Rest, vars
<1>10. QED
  BY <1>1, <1>2, <1>3, <1>4, <1>5, <1>6, <1>7, <1>8, <1>9 DEF Next, Handler

(* At first nothing is carried over ... *)
LEMMA AloneInit ==
  ASSUME DemoInit
  PROVE  Alone
BY InvariantInit, PathsInit DEF DemoInit, ReseedInit, SeedInit, Init, Alone, Posted

(* The step of the application or of the client's next request. *)
LEMMA AloneNext ==
  ASSUME Alone, Next, Noted, at' = at, at # "ready" /\ FreshStart => FreshStart'
  PROVE  Alone'
<1>1. SUFFICES ASSUME carried' = {}
               PROVE  Alone'
  BY DEF Alone
<1>2. carried = {} /\ runs' = runs /\ seeding' = seeding
  BY <1>1 DEF Noted
<1>3. IInv /\ Paths /\ Posted /\ TypeOK
  BY <1>2 DEF Alone, IInv
<1>4. IInv' /\ Paths' /\ Posted'
  BY <1>3, InvariantStep, PathsStep, PostedStep
<1>5. QED
  BY <1>2, <1>4 DEF Alone

(* ... the client's own steps and its faults leave it so ... *)
LEMMA AloneAside ==
  ASSUME RunInv, Alone,
         UNCHANGED <<account, period, jobs, inFlight, req, phase, attempted, hold, call, ledger,
                     lostAcks, crashes, runs, seeding, carried>>,
         errors' \in 0..MaxErrors, errors' = errors \/ errors' = errors + 1,
         at' # "ready" => at # "ready" \/ runs > 0 \/ FreshStart
  PROVE  Alone'
<1>1. SUFFICES ASSUME carried = {}
               PROVE  Alone'
  BY DEF Alone
<1>2. IInv /\ Paths /\ Posted /\ runs = 0 /\ TypeOK
  BY <1>1 DEF Alone, IInv
<1>3. IInv'
  BY <1>2, InvariantAside DEF TypeOK
<1>4. Paths'
  <2>1. errors \in Nat /\ lostAcks \in Nat /\ crashes \in Nat
    BY <1>2, PipelineAssumption DEF TypeOK
  <2>2. NoFaults' => NoFaults
    <3>1. PICK e \in Nat, d \in Nat, l \in Nat, c \in Nat :
            e = errors /\ d = errors' /\ l = lostAcks /\ c = crashes
      BY <2>1
    <3>2. d = e \/ d = e + 1
      BY <3>1
    <3>3. d + l + c = 0 => e + l + c = 0
      BY <3>2
    <3>4. QED
      BY <3>1, <3>3 DEF NoFaults
  <2>3. QED
    BY <1>2, <2>2 DEF Paths, Active
<1>5. Posted'
  BY <1>2 DEF Posted
<1>6. at' # "ready" => FreshStart
  BY <1>1, <1>2 DEF Alone
<1>7. QED
  BY <1>1, <1>3, <1>4, <1>5, <1>6 DEF Alone, FreshStart

(* ... and a seeding that cuts into traffic carries something over. *)
LEMMA AloneStep ==
  ASSUME RunInv, Scripted, Alone, [DemoNext]_demoVars
  PROVE  Alone'
<1>1. TypeOK /\ SeedTypeOK
  BY DEF RunInv
<1>2. CASE Client /\ ~Send /\ Aside
  <2>1. errors' = errors \/ errors' = errors + 1
    BY <1>2 DEF Aside, DatabaseError
  <2>2. errors' \in 0..MaxErrors
    BY <1>1, <1>2, PipelineAssumption DEF Aside, DatabaseError, TypeOK
  <2>3. at' # "ready" => at # "ready" \/ runs > 0 \/ FreshStart
    BY <1>2 DEF Client, Begin, Receive, LoseReplica, ReadList, ReadJob, ReadUsage, ReadSpent, Read,
       ReadFails, Bounce, ReadBill, Summary, Scripted, InTurn, Working
  <2>4. QED
    BY <1>2, <2>1, <2>2, <2>3, AloneAside DEF Aside
<1>3. CASE Send
  <2>1. PICK n : n = sequence + 1
    OBVIOUS
  <2>2. n \in Issued /\ n \in Requests /\ n \notin Earlier
    BY <1>3, <2>1, NextIsIssued, WhoAsks DEF Send
  <2>3. Arrive(n) /\ Noted /\ at' = at
    BY <1>3, <2>1 DEF Send
  <2>4. FreshStart => FreshStart'
    BY <1>1, <2>2, <2>3, WhoAsks DEF Arrive, Goto, FreshStart, TypeOK
  <2>5. QED
    BY <2>2, <2>3, <2>4, AloneNext DEF Next
<1>4. ASSUME NEW r \in Earlier, EarlierArrives(r)
      PROVE  Alone'
  <2>1. Arrive(r) /\ Noted /\ at' = at /\ at = "ready" /\ r \in Requests
    BY <1>4, WhoAsks DEF EarlierArrives, clientVars
  <2>2. QED
    BY <2>1, AloneNext DEF Next
<1>5. CASE SeedStep
  <2>1. carried' # {}
    <3>1. CASE seeding = "rows"
      BY <1>5, <3>1 DEF SeedStep, Seed, ResetRows, ResetBill, Alone
    <3>2. CASE seeding # "rows"
      BY <1>5, <3>2, WhoAsks DEF SeedStep, Seed, ResetRows, ResetBill
    <3>3. QED
      BY <3>1, <3>2
  <2>2. QED
    BY <2>1 DEF Alone
<1>6. CASE Beneath
  <2>1. Next /\ Noted /\ at' = at
    BY <1>6, BeneathIsNext DEF Beneath, clientVars
  <2>2. FreshStart => FreshStart'
    <3>1. \A x \in Requests : phase[x] = "absent" => phase'[x] = phase[x]
      BY <1>1, <1>6, PhasesMove DEF Beneath
    <3>2. QED
      BY <3>1, WhoAsks DEF FreshStart
  <2>3. QED
    BY <2>1, <2>2, AloneNext
<1>7. CASE UNCHANGED demoVars
  <2>1. errors' \in 0..MaxErrors
    BY <1>1, <1>7 DEF demoVars, seededVars, vars, TypeOK
  <2>2. QED
    BY <1>7, <2>1, AloneAside DEF demoVars, seededVars, vars, seedVars, clientVars
<1>8. QED
  BY <1>2, <1>3, <1>4, <1>5, <1>6, <1>7, DemoSteps

(* Nothing went wrong that a demonstration may blame. *)
Calm == NoFaults /\ carried = {} /\ \A r \in Issued : phase[r] # "failed"

(* What a calm run's requests have come to: each is answered as its step expects,
   and none that was turned away reached the provider.                       *)
Course ==
  /\ failures = {}
  /\ \A r \in Issued :
       /\ Active(r) \/ phase[r] \in {"absent", "created", "too_large", "exhausted"}
       /\ phase[r] \in {"too_large", "exhausted"} => call[r] = "unsent"
       /\ phase[r] = "unwinding" => attempted[r]
       /\ r # awaiting /\ phase[r] # "absent" /\ at \notin {"summary", "done"}
            => Tenant(r) = Spender
  /\ awaiting # 0 =>
       /\ at \in {"enrich", "import", "bystander"} => phase[awaiting] \notin {"too_large", "exhausted"}
       /\ at = "batch" => phase[awaiting] \in {"arrived", "too_large"}
       /\ at = "exhaust" => phase[awaiting] # "too_large"

(* What the client of a calm run has been told when it comes to a step. *)
Score ==
  /\ at \in {"ready", "enrich"} => told = 0
  /\ at \in {"list", "import"} => told = Ordinary
  /\ at \in {"job", "usage", "bill", "before", "body", "batch", "page", "bomb", "unmoved"}
       => told = Ordinary + Bundle
  /\ at = "exhaust" => told = Ordinary + Bundle + batches * MaxBatch
  /\ at \in {"body", "batch", "page", "bomb", "unmoved"} => before = told
  /\ at = "job" => phase[3] = "created" /\ req[3].op = "import"

Smooth == Calm => Course /\ Score

(* A calm run has met no fault of any kind. *)
LEMMA CalmNumbers ==
  ASSUME TypeOK, NoFaults
  PROVE  errors = 0 /\ lostAcks = 0 /\ crashes = 0
<1>1. PICK e \in Nat, l \in Nat, c \in Nat : e = errors /\ l = lostAcks /\ c = crashes
  BY PipelineAssumption DEF TypeOK
<1>2. e + l + c = 0
  BY <1>1 DEF NoFaults
<1>3. e = 0 /\ l = 0 /\ c = 0
  BY <1>1, <1>2
<1>4. QED
  BY <1>1, <1>3

Created == {r \in Issued : phase[r] = "created"}

(* With no request under way the bill, and the rows, are what was answered 201. *)
LEMMA AtRest ==
  ASSUME RunInv, TwoBooks, Alone, Calm, Course, at # "ready",
         \A r \in Issued : Active(r) => phase[r] = "arrived"
  PROVE  /\ counted = Created
         /\ HoldsOf(Charged) = Created /\ HoldsOf(Open) = {} /\ HoldsOf(Twice) = {}
<1>1. TypeOK /\ SeedTypeOK /\ Standing /\ Shape /\ Paths /\ FreshStart /\ lostAcks = 0
  BY CalmNumbers DEF RunInv, Positions, Calm, Alone, IInv
<1>2. ASSUME NEW r \in Requests
      PROVE  /\ hold[r] \notin {"held", "charged_twice"}
             /\ r \in Created <=> hold[r] = "charged"
             /\ r \in Created <=> r \in counted
  <2>1. hold[r] # "held"
    <3>1. hold[r] = "held" => Active(r)
      BY <1>1 DEF Paths, Calm
    <3>2. CASE r \in Earlier
      BY <1>1, <3>1, <3>2 DEF FreshStart, Active
    <3>3. CASE r \in Issued
      BY <1>1, <3>1, <3>3 DEF Standing
    <3>4. QED
      BY <3>2, <3>3, WhoAsks
  <2>2. hold[r] # "charged_twice"
    BY <1>1 DEF Paths
  <2>3. CASE r \in Created
    <3>1. call[r] = "billed" /\ r \in counted
      BY <2>3, WhoAsks DEF Created, TwoBooks
    <3>2. hold[r] \notin {"none", "released"}
      BY <1>1, <3>1 DEF Shape
    <3>3. QED
      BY <1>1, <2>1, <2>2, <2>3, <3>1, <3>2 DEF TypeOK, Holds
  <2>4. CASE r \notin Created
    <3>1. ~attempted[r] /\ call[r] = "unsent"
      <4>1. CASE r \in Earlier
        BY <1>1, <4>1 DEF FreshStart, Standing
      <4>2. CASE r \in Issued
        BY <1>1, <2>4, <4>2 DEF Standing, Course, Created
      <4>3. QED
        BY <4>1, <4>2, WhoAsks
    <3>2. QED
      BY <1>1, <2>1, <2>2, <2>4, <3>1 DEF Standing
  <2>5. QED
    BY <2>1, <2>2, <2>3, <2>4
<1>3. Created \subseteq Requests /\ counted \subseteq Requests
  BY <1>1, WhoAsks DEF Created, SeedTypeOK
<1>4. counted = Created
  BY <1>2, <1>3
<1>5. HoldsOf(Charged) = Created /\ HoldsOf(Open) = {} /\ HoldsOf(Twice) = {}
  BY <1>2, <1>3 DEF HoldsOf, Charged, Open, Twice
<1>6. QED
  BY <1>4, <1>5

Shares(t) == {r \in Created : Tenant(r) = t}

(* The rows hold nothing then, and carry the charges of those requests. *)
LEMMA RowsAtRest ==
  ASSUME RunInv, TwoBooks, Alone, Calm, Course, at # "ready",
         \A r \in Issued : Active(r) => phase[r] = "arrived"
  PROVE  /\ period.reserved = 0 /\ period.committed = W(req, Created)
         /\ \A t \in Tenants : /\ account[t].reserved = 0
                               /\ account[t].committed = W(req, Shares(t))
                               /\ account[t].committed = Price * account[t].lookups
                               /\ ledger[t] = Cardinality(Units(req, Shares(t)))
         /\ Price * Total(ledger) = period.committed
<1>1. TypeOK /\ SeedTypeOK /\ RowsMatchHolds /\ RunBooks
  BY DEF RunInv, Calm, Alone, IInv
<1>2. /\ counted = Created
      /\ HoldsOf(Charged) = Created /\ HoldsOf(Open) = {} /\ HoldsOf(Twice) = {}
  BY AtRest
<1>3. W(req, {}) = 0
  BY WorthNone
<1>4. ASSUME NEW t \in Tenants
      PROVE  /\ account[t].reserved = 0
             /\ account[t].committed = W(req, Shares(t))
             /\ account[t].committed = Price * account[t].lookups
             /\ ledger[t] = Cardinality(Units(req, Shares(t)))
  <2>1. Of(t, Charged) = Shares(t) /\ Of(t, Open) = {} /\ Of(t, Twice) = {}
    BY <1>2 DEF Of, Shares
  <2>2. MoneyOf(t)
    BY <1>1, RowsAreMoney
  <2>3. account[t].reserved \in Nat /\ account[t].committed \in Nat /\ W(req, Shares(t)) \in Nat
    BY <1>1, WorthIsNat DEF TypeOK
  <2>4. CountedFor(t) = Shares(t)
    BY <1>1, <1>2 DEF CountedFor, Shares, SeedTypeOK
  <2>5. QED
    BY <1>1, <1>3, <2>1, <2>2, <2>3, <2>4 DEF MoneyOf, RunBooks
<1>5. period.reserved = 0 /\ period.committed = W(req, Created)
  <2>1. MoneyOfAll
    BY <1>1, RowsAreMoney
  <2>2. period.reserved \in Nat /\ period.committed \in Nat /\ W(req, Created) \in Nat
    BY <1>1, WorthIsNat DEF TypeOK
  <2>3. QED
    BY <1>2, <1>3, <2>1, <2>2 DEF MoneyOfAll
<1>6. Price * Total(ledger) = period.committed
  BY <1>2, <1>5 DEF TwoBooks, W
<1>7. QED
  BY <1>4, <1>5, <1>6

(* Until the bystander is answered all of it is the spender's. *)
LEMMA SpenderPays ==
  ASSUME RunInv, Scripted, TwoBooks, Alone, Calm, Course, at \notin {"ready", "summary", "done"},
         \A r \in Issued : Active(r) => phase[r] = "arrived",
         at = "bystander" => awaiting = 0 \/ phase[awaiting] # "created"
  PROVE  /\ Shares(Spender) = Created /\ \A t \in Tenants \ {Spender} : Shares(t) = {}
         /\ account[Spender].committed = W(req, Created)
         /\ awaiting = 0 \/ phase[awaiting] # "created" =>
              /\ Served = Created
              /\ account[Spender].committed = Price * told
              /\ account[Spender].lookups = told
              /\ ledger[Spender] = told
              /\ Total(ledger) = told
<1>1. ASSUME NEW r \in Created
      PROVE  Tenant(r) = Spender
  <2>1. r \in Issued /\ phase[r] = "created"
    BY <1>1 DEF Created
  <2>2. CASE r # awaiting
    BY <2>1, <2>2 DEF Course
  <2>3. CASE r = awaiting
    <3>1. at \in {"enrich", "import", "batch", "exhaust"} /\ req[r] = Asked(at, r) /\ r \in Nat /\ r > 0
      BY <2>1, <2>3, WhoAsks, LoopIsLong DEF Scripted, InTurn, Working
    <3>2. req[r].tenant = Spender
      BY <3>1, AskedIs DEF Work
    <3>3. QED
      BY <3>2 DEF Tenant
  <2>4. QED
    BY <2>2, <2>3
<1>2. Shares(Spender) = Created /\ \A t \in Tenants \ {Spender} : Shares(t) = {}
  BY <1>1 DEF Shares
<1>3. Spender \in Tenants
  BY DemoNumbers
<1>4. /\ account[Spender].committed = W(req, Created)
      /\ account[Spender].committed = Price * account[Spender].lookups
      /\ ledger[Spender] = Cardinality(Units(req, Created))
  BY <1>2, <1>3, RowsAtRest
<1>5. ASSUME awaiting = 0 \/ phase[awaiting] # "created"
      PROVE  /\ Served = Created
             /\ account[Spender].committed = Price * told
             /\ account[Spender].lookups = told
             /\ ledger[Spender] = told
             /\ Total(ledger) = told
  <2>1. Served = Created
    BY <1>5, WhoAsks DEF Served, Created
  <2>2. told = Cardinality(Units(req, Created))
    BY <2>1 DEF TwoBooks
  <2>3. account[Spender].committed = Price * told /\ ledger[Spender] = told
    BY <1>4, <2>2 DEF W
  <2>4. counted = Created
    BY AtRest
  <2>5. Total(ledger) = told
    BY <2>2, <2>4 DEF TwoBooks
  <2>6. account[Spender].lookups = told
    <3>1. PICK p \in Nat, n \in Nat, m \in Nat :
            p = Price /\ n = account[Spender].lookups /\ m = told /\ p > 0
      BY <1>3, DemoNumbers DEF RunInv, TypeOK, Scripted, ClientTyped
    <3>2. p * n = p * m
      BY <1>4, <2>3, <3>1
    <3>3. n = m
      BY <3>1, <3>2
    <3>4. QED
      BY <3>1, <3>3
  <2>7. QED
    BY <2>1, <2>3, <2>5, <2>6
<1>6. QED
  BY <1>2, <1>4, <1>5

(* No working request of a calm run is refused for money: the script's fit the
   spender's partition, and the spender's and the bystander's fit the cap.   *)
LEMMA ScriptFits ==
  ASSUME RunInv, Scripted, TwoBooks, Alone, Calm, Course, Score,
         at \in {"enrich", "import", "bystander"}, awaiting # 0, phase[awaiting] = "arrived"
  PROVE  TenantHasRoom(awaiting) /\ PeriodHasRoom(awaiting)
<1>1. \A r \in Issued : Active(r) => phase[r] = "arrived"
  BY DEF Scripted, InTurn
<1>2. /\ Shares(Spender) = Created /\ \A t \in Tenants \ {Spender} : Shares(t) = {}
      /\ account[Spender].committed = W(req, Created)
      /\ account[Spender].committed = Price * told
  BY <1>1, SpenderPays
<1>3. /\ period.reserved = 0 /\ period.committed = W(req, Created)
      /\ \A t \in Tenants : account[t].reserved = 0 /\ account[t].committed = W(req, Shares(t))
  BY <1>1, RowsAtRest
<1>4. awaiting \in Issued /\ awaiting \in Nat /\ awaiting > 0 /\ req[awaiting] = Asked(at, awaiting)
  BY WhoAsks, LoopIsLong DEF Scripted, InTurn
<1>5. PICK p \in Nat, n \in Nat, o \in Nat, b \in Nat, m \in Nat, a \in Nat, c \in Nat :
        /\ p = Price /\ o = Ordinary /\ b = Bundle /\ m = told /\ a = Allowance /\ c = Cap
        /\ n = Cardinality(Units(req, Created))
        /\ p * (o + b) <= a /\ 2 * a <= c
  BY DemoNumbers, UnitsFinite DEF Scripted, ClientTyped
<1>6. p * (o + b) = p * o + p * b /\ p * o \in Nat /\ p * b \in Nat /\ p * m \in Nat
  BY <1>5
<1>7. CASE at = "enrich"
  <2>1. Tenant(awaiting) = Spender /\ Cents(awaiting) = p * o /\ m = 0
    BY <1>4, <1>5, <1>7, AskedIs DEF Tenant, Cents, Work, Score
  <2>2. p * m = 0
    BY <1>5, <2>1
  <2>3. account[Spender].committed = 0 /\ period.committed = 0 /\ account[Spender].reserved = 0
    BY <1>2, <1>3, <1>5, <2>2, DemoNumbers
  <2>4. p * o <= a /\ p * o <= c
    BY <1>5, <1>6
  <2>5. QED
    BY <1>3, <1>5, <1>6, <2>1, <2>3, <2>4 DEF TenantHasRoom, PeriodHasRoom
<1>8. CASE at = "import"
  <2>1. Tenant(awaiting) = Spender /\ Cents(awaiting) = p * b /\ m = o
    BY <1>4, <1>5, <1>8, AskedIs DEF Tenant, Cents, Work, Score
  <2>2. QED
    BY <1>2, <1>3, <1>5, <1>6, <2>1, DemoNumbers DEF TenantHasRoom, PeriodHasRoom
<1>9. CASE at = "bystander"
  <2>1. Tenant(awaiting) = Bystander /\ Cents(awaiting) = p * o
    BY <1>4, <1>5, <1>9, AskedIs DEF Tenant, Cents, Work
  <2>2. account[Bystander].committed = 0 /\ account[Bystander].reserved = 0
    BY <1>2, <1>3, DemoNumbers, WorthNone
  <2>3. p * m <= a
    <3>1. account[Spender].committed + account[Spender].reserved <= a
      BY <1>5, DemoNumbers DEF RunInv, Ceilings
    <3>2. QED
      BY <1>2, <1>3, <1>5, <1>6, <3>1, DemoNumbers
  <2>4. p * o <= a /\ p * m + p * o <= c
    BY <1>5, <1>6, <2>3
  <2>5. period.committed = p * m /\ period.reserved = 0
    BY <1>2, <1>3, <1>5
  <2>6. QED
    BY <1>5, <1>6, <2>1, <2>2, <2>4, <2>5 DEF TenantHasRoom, PeriodHasRoom
<1>10. QED
  BY <1>7, <1>8, <1>9

(* Where the awaited request of a calm run may stand. *)
OnCourse(place, asked, wanted, tried) ==
  /\ place \notin {"shed", "failed", "unavailable", "crashed"}
  /\ place \in {"too_large", "exhausted"} => asked = "unsent"
  /\ place = "unwinding" => tried
  /\ wanted \in {"enrich", "import", "bystander"} => place \notin {"too_large", "exhausted"}
  /\ wanted = "batch" => place \in {"arrived", "too_large"}
  /\ wanted = "exhaust" => place # "too_large"

(* One step of its handler keeps it there, or ends in a failure to be blamed. *)
LEMMA AwaitedGoesOn ==
  ASSUME RunInv, Scripted, TwoBooks, Alone, Calm, Course, Score, at # "ready",
         awaiting # 0, Handler(awaiting)
  PROVE  \/ OnCourse(phase'[awaiting], call'[awaiting], at, attempted'[awaiting])
         \/ phase'[awaiting] = "failed"
<1> DEFINE r == awaiting
           Goal == \/ OnCourse(phase'[r], call'[r], at, attempted'[r])
                   \/ phase'[r] = "failed"
<1>1. TypeOK /\ Standing /\ Shape /\ Paths /\ IInv /\ lostAcks = 0
  BY CalmNumbers DEF RunInv, Positions, Calm, Alone, IInv
<1>2. /\ r \in Issued /\ r \in Requests /\ at \in Working /\ req[r] = Asked(at, r)
      /\ \A x \in Issued : Active(x) => x = r
  BY WhoAsks DEF Scripted, InTurn
<1>3. BatchFits(r) <=> at # "batch"
  <2>1. r \in Nat /\ r > 0
    BY <1>2, WhoAsks, LoopIsLong
  <2>2. Ordinary \in Nat /\ MaxBatch \in Nat /\ Ordinary <= MaxBatch /\ ~(MaxBatch + 1 <= MaxBatch) /\ MaxBatch <= MaxBatch
    BY DemoNumbers
  <2>3. QED
    BY <1>2, <2>1, <2>2, AskedIs DEF BatchFits, Work, Working
<1>4. /\ at = "batch" => phase[r] \in {"arrived", "too_large"}
      /\ phase[r] = "unwinding" => attempted[r]
  BY <1>2 DEF Course
<1> HIDE DEF r
<1> USE DEF OnCourse, Goto, TypeOK
<1>5. ASSUME RefuseBatch(r)
      PROVE  Goal
  <2>1. phase'[r] = "too_large" /\ call'[r] = "unsent" /\ at = "batch"
    BY <1>1, <1>2, <1>3, <1>5 DEF RefuseBatch, Standing, providerVars
  <2>2. QED
    BY <2>1
<1>6. ASSUME Reserve(r)
      PROVE  Goal
  <2>1. phase'[r] = "reserved" /\ at # "batch"
    BY <1>1, <1>2, <1>3, <1>6 DEF Reserve
  <2>2. QED
    BY <2>1
<1>7. ASSUME RefuseAllowance(r)
      PROVE  Goal
  <2>1. phase'[r] = "exhausted" /\ call'[r] = "unsent" /\ at # "batch" /\ phase[r] = "arrived"
    BY <1>1, <1>2, <1>3, <1>7 DEF RefuseAllowance, Standing, providerVars
  <2>2. at \notin {"enrich", "import", "bystander"}
    BY <1>7, <2>1, ScriptFits DEF RefuseAllowance, r
  <2>3. QED
    BY <2>1, <2>2
<1>8. ASSUME TakeSlot(r)
      PROVE  Goal
  <2>1. phase'[r] = "calling" /\ at # "batch"
    BY <1>1, <1>2, <1>4, <1>8 DEF TakeSlot
  <2>2. QED
    BY <2>1
<1>9. ASSUME Shed(r)
      PROVE  FALSE
  <2>1. PICK p \in Replicas : p = req[r].replica
    BY <1>1, <1>2, DescriptorFacts
  <2>2. Callers(p) = {}
    <3>1. ASSUME NEW x \in Requests
          PROVE  phase[x] # "calling"
      <4>1. CASE x \in Earlier
        BY <4>1 DEF Alone, Calm, FreshStart
      <4>2. CASE x \in Issued
        BY <1>2, <1>9, <4>2 DEF Shed, Active, Outcomes
      <4>3. QED
        BY <4>1, <4>2, WhoAsks
    <3>2. QED
      BY <3>1 DEF Callers
  <2>3. inFlight[p] = 0
    BY <2>2, FS_EmptySet DEF RunInv, SlotsMatchCalls, Callers
  <2>4. QED
    BY <1>9, <2>1, <2>3, PipelineAssumption DEF Shed
<1>10. ASSUME Answer(r) \/ CallFails(r) \/ Deadline(r)
       PROVE  Goal
  <2>1. phase'[r] \in {"answered", "unwinding"} /\ phase[r] = "calling" /\ attempted' = attempted
    BY <1>1, <1>2, <1>10 DEF Answer, CallFails, Deadline, LeaveSlot
  <2>2. attempted'[r] /\ at # "batch"
    BY <1>1, <1>2, <1>4, <2>1 DEF Standing
  <2>3. QED
    BY <2>1, <2>2
<1>11. ASSUME Upsert(r) \/ Settle(r) \/ InsertJob(r)
       PROVE  Goal
  <2>1. phase'[r] \in {"stored", "settled", "created"} /\ at # "batch"
    BY <1>1, <1>2, <1>4, <1>11 DEF Upsert, Settle, InsertJob
  <2>2. QED
    BY <2>1
<1>12. ASSUME SettleViolatesCheck(r)
       PROVE  FALSE
  BY <1>1, <1>2, <1>12, OwnHoldIsThere DEF SettleViolatesCheck, Shape
<1>13. ASSUME Unwind(r)
       PROVE  Goal
  BY <1>1, <1>2, <1>4, <1>13 DEF Unwind
<1>14. ASSUME UnwindViolatesCheck(r)
       PROVE  FALSE
  BY <1>1, <1>2, <1>14, OwnHoldIsThere DEF UnwindViolatesCheck, Paths
<1>15. QED
  <2>1. Handler(r)
    BY DEF r
  <2>2. Goal
    BY <1>5, <1>6, <1>7, <1>8, <1>9, <1>10, <1>11, <1>12, <1>13, <1>14, <2>1
       DEF Handler, Admission, Calling, Completion, Unwinding
  <2>3. QED
    BY <2>2 DEF r

(* What was to blame stays to blame. *)
LEMMA FaultsAddUp ==
  ASSUME Next
  PROVE  /\ errors' = errors \/ errors' = errors + 1
         /\ lostAcks' = lostAcks \/ lostAcks' = lostAcks + 1
         /\ crashes' = crashes \/ crashes' = crashes + 1
<1> USE DEF faultVars, DatabaseError, LostAck
<1>1. ASSUME NEW r \in Requests, Arrive(r) \/ Admission(r) \/ Provider(r) \/ Completion(r) \/ Unwinding(r)
      PROVE  UNCHANGED faultVars
  BY <1>1 DEF Arrive, Admission, RefuseBatch, Reserve, RefuseAllowance, Provider, AcceptCall, RefuseCall,
     ChargeCall, ProviderMoves, Completion, Upsert, Settle, SettleViolatesCheck, InsertJob, Unwinding,
     Unwind, UnwindViolatesCheck
<1>2. ASSUME NEW r \in Requests, Calling(r)
      PROVE  UNCHANGED faultVars
  BY <1>2 DEF Calling, TakeSlot, Shed, Answer, CallFails, Deadline, LeaveSlot
<1>3. ASSUME NEW r \in Requests, Fault(r)
      PROVE  /\ errors' = errors \/ errors' = errors + 1
             /\ lostAcks' = lostAcks \/ lostAcks' = lostAcks + 1
             /\ crashes' = crashes
  BY <1>3 DEF Fault, ReserveFails, ReserveAckLost, CompletionFails, SettleAckLost, InsertJobFails,
     UnwindFails, UnwindAckLost
<1>4. ASSUME NEW p \in Replicas, Crash(p)
      PROVE  errors' = errors /\ lostAcks' = lostAcks /\ crashes' = crashes + 1
  BY <1>4 DEF Crash
<1>5. CASE Rest
  BY <1>5 DEF Rest, vars
<1>6. QED
  BY <1>1, <1>2, <1>3, <1>4, <1>5 DEF Next, Handler

(* The same, of the state after a step. *)
LEMMA CalmNumbersNext ==
  ASSUME TypeOK', NoFaults'
  PROVE  errors' = 0 /\ lostAcks' = 0 /\ crashes' = 0
<1>1. PICK e \in Nat, l \in Nat, c \in Nat : e = errors' /\ l = lostAcks' /\ c = crashes'
  BY PipelineAssumption DEF TypeOK
<1>2. e + l + c = 0
  BY <1>1 DEF NoFaults
<1>3. \A i, j, k \in Nat : i + j + k = 0 => i = 0 /\ j = 0 /\ k = 0
  OBVIOUS
<1>4. QED
  BY <1>1, <1>2, <1>3

(* A run that is calm has been so all along. *)
LEMMA CalmBefore ==
  ASSUME RunInv, Scripted, Alone, Alone', RunInv', [DemoNext]_demoVars, Calm'
  PROVE  Calm
<1>1. TypeOK /\ TypeOK'
  BY DEF RunInv
<1>2. errors' = 0 /\ lostAcks' = 0 /\ crashes' = 0
  BY <1>1, CalmNumbersNext DEF Calm
<1>3. PICK e \in Nat, l \in Nat, c \in Nat : e = errors /\ l = lostAcks /\ c = crashes
  BY <1>1, PipelineAssumption DEF TypeOK
<1>4. ASSUME /\ errors' = errors \/ errors' = errors + 1
             /\ lostAcks' = lostAcks \/ lostAcks' = lostAcks + 1
             /\ crashes' = crashes \/ crashes' = crashes + 1,
             carried' = carried, \A r \in Issued : phase[r] = "failed" => phase'[r] = "failed"
      PROVE  Calm
  <2>1. e = 0 /\ l = 0 /\ c = 0
    BY <1>2, <1>3, <1>4
  <2>2. NoFaults
    BY <1>3, <2>1 DEF NoFaults
  <2>3. QED
    BY <1>4, <2>2 DEF Calm
<1>5. CASE Client /\ ~Send /\ Aside
  BY <1>4, <1>5 DEF Aside, DatabaseError
<1>6. ASSUME NEW r \in Requests, Arrive(r), Noted
      PROVE  Calm
  BY <1>1, <1>4, <1>6 DEF Arrive, Noted, Goto, faultVars, TypeOK
<1>7. CASE Send
  BY <1>6, <1>7, NextIsIssued, WhoAsks DEF Send
<1>8. ASSUME NEW r \in Earlier, EarlierArrives(r)
      PROVE  Calm
  BY <1>6, <1>8, WhoAsks DEF EarlierArrives
<1>9. CASE SeedStep
  <2>1. CASE ResetRows
    <3>1. seeding' = "rows"
      BY <2>1 DEF ResetRows
    <3>2. QED
      BY <3>1 DEF Alone, Calm
  <2>2. CASE ResetBill
    BY <1>4, <2>2 DEF ResetBill, faultVars
  <2>3. QED
    BY <1>9, <2>1, <2>2 DEF SeedStep, Seed
<1>10. CASE Beneath
  <2>1. \A r \in Issued : phase[r] = "failed" => phase'[r] = "failed"
    BY <1>1, <1>10, PhasesMove, WhoAsks DEF Beneath, Terminal, Outcomes
  <2>2. QED
    BY <1>4, <1>10, <2>1, BeneathIsNext, FaultsAddUp DEF Beneath, Noted
<1>11. CASE UNCHANGED demoVars
  BY <1>4, <1>11 DEF demoVars, seededVars, vars, seedVars
<1>12. QED
  BY <1>5, <1>7, <1>8, <1>9, <1>10, <1>11, DemoSteps

(* The application takes a calm run's requests the way the script expects. *)
LEMMA SmoothBeneath ==
  ASSUME RunInv, Scripted, TwoBooks, Alone, Calm, Course, Score, RunInv', Calm', Beneath
  PROVE  Course' /\ Score'
<1>1. TypeOK /\ TypeOK' /\ Standing
  BY DEF RunInv, Positions
<1>2. errors' = 0 /\ lostAcks' = 0 /\ crashes' = 0
  BY <1>1, CalmNumbersNext DEF Calm
<1>3. /\ req' = req
      /\ \A x \in Requests :
           /\ phase[x] = "absent" \/ Terminal(x) => phase'[x] = phase[x]
           /\ Active(x) => phase'[x] # "absent"
  BY <1>1, PhasesMove DEF Beneath
<1>4. UNCHANGED clientVars /\ AppStep
  BY DEF Beneath
<1>5. \A r \in Issued : r # awaiting => phase'[r] = phase[r]
  BY <1>3, WhoAsks DEF Scripted, InTurn, Active, Terminal
<1>6. Score'
  <2>1. 3 \in Issued /\ 3 \in Requests
    BY WhoAsks, LoopIsLong
  <2>2. at = "job" => phase'[3] = "created" /\ req'[3].op = "import"
    BY <1>3, <2>1 DEF Score, Terminal, Outcomes
  <2>3. QED
    BY <1>4, <2>2 DEF Score, clientVars
<1>7. CASE at = "ready"
  <2>1. awaiting = 0 /\ \A r \in Issued : phase[r] = "absent"
    BY <1>7, WhoAsks, LoopIsLong DEF Scripted, InTurn, Numbered, Sent, Working
  <2>2. awaiting' = 0 /\ \A r \in Issued : phase'[r] = "absent"
    BY <1>4, <1>5, <2>1, WhoAsks DEF clientVars
  <2>3. QED
    BY <1>4, <1>6, <2>2 DEF Course, clientVars
<1>8. CASE at # "ready"
  <2>1. \A r \in Requests : Active(r) => awaiting # 0 /\ r = awaiting
    <3>1. \A r \in Earlier : ~Active(r)
      BY <1>8 DEF Alone, Calm, FreshStart, Active
    <3>2. \A r \in Issued : Active(r) => awaiting # 0 /\ r = awaiting
      BY WhoAsks DEF Scripted, InTurn
    <3>3. QED
      BY <3>1, <3>2, WhoAsks
  <2>2. PICK r \in Requests : Handler(r) \/ Provider(r)
    <3>1. ASSUME NEW r \in Requests, Fault(r)
          PROVE  FALSE
      BY <1>1, <1>2, <3>1, FaultsAreCounted
    <3>2. ASSUME NEW p \in Replicas, Crash(p)
          PROVE  FALSE
      <4>1. PICK c \in Nat : c = crashes
        BY <1>1, PipelineAssumption DEF TypeOK
      <4>2. c + 1 = 0
        BY <1>2, <3>2, <4>1 DEF Crash
      <4>3. QED
        BY <4>1, <4>2
    <3>3. QED
      BY <1>4, <3>1, <3>2 DEF AppStep
  <2>3. \A x \in Issued : x # awaiting => (call[x] = "unsent" => call'[x] = "unsent")
    <3>1. ASSUME NEW x \in Issued, x # awaiting, call[x] = "unsent"
          PROVE  call'[x] = "unsent"
      <4>1. CASE Provider(r)
        BY <1>1, <3>1, <4>1, WhoAsks DEF Provider, AcceptCall, RefuseCall, ChargeCall, ProviderMoves, TypeOK
      <4>2. CASE Handler(r)
        <5>1. Active(r)
          BY <4>2 DEF Handler, Admission, RefuseBatch, Reserve, RefuseAllowance, Calling, TakeSlot, Shed, Answer,
             CallFails, Deadline, LeaveSlot, Completion, Upsert, Settle, SettleViolatesCheck, InsertJob,
             Unwinding, Unwind, UnwindViolatesCheck, Active, Outcomes
        <5>2. r # x
          BY <2>1, <3>1, <5>1
        <5>3. call'[x] = call[x]
          BY <1>1, <3>1, <4>2, <5>2, WhoAsks DEF Handler, Admission, RefuseBatch, Reserve, RefuseAllowance, Calling,
             TakeSlot, Shed, Answer, CallFails, Deadline, LeaveSlot, Completion, Upsert, Settle,
             SettleViolatesCheck, InsertJob, Unwinding, Unwind, UnwindViolatesCheck, providerVars, TypeOK
        <5>4. QED
          BY <3>1, <5>3
      <4>3. QED
        BY <2>2, <4>1, <4>2
    <3>2. QED
      BY <3>1
  <2>4. awaiting # 0 =>
          OnCourse(phase'[awaiting], call'[awaiting], at, attempted'[awaiting])
    <3>1. CASE awaiting = 0
      BY <3>1
    <3>2. CASE awaiting # 0
      <4>0. awaiting \in Issued /\ awaiting \in Requests /\ at \in Working
        BY <3>2, WhoAsks DEF Scripted, InTurn
      <4>1. CASE Handler(r)
        <5>1. r = awaiting
          <6>1. Active(r)
            BY <4>1 DEF Handler, Admission, RefuseBatch, Reserve, RefuseAllowance, Calling, TakeSlot, Shed, Answer,
               CallFails, Deadline, LeaveSlot, Completion, Upsert, Settle, SettleViolatesCheck, InsertJob,
               Unwinding, Unwind, UnwindViolatesCheck, Active, Outcomes
          <6>2. QED
            BY <2>1, <6>1
        <5>2. QED
          BY <1>4, <1>8, <3>2, <4>0, <4>1, <5>1, AwaitedGoesOn DEF Calm, clientVars
      <4>2. CASE Provider(r)
        <5>1. phase' = phase /\ attempted' = attempted
              /\ (call[awaiting] = "unsent" => call'[awaiting] = "unsent")
          BY <1>1, <4>0, <4>2 DEF Provider, AcceptCall, RefuseCall, ChargeCall, ProviderMoves, TypeOK
        <5>2. Active(awaiting) \/ phase[awaiting] \in {"absent", "created", "too_large", "exhausted"}
          BY <4>0 DEF Course
        <5>3. QED
          BY <3>2, <4>0, <5>1, <5>2 DEF Course, OnCourse, Active, Outcomes
      <4>3. QED
        BY <2>2, <4>1, <4>2
    <3>3. QED
      BY <3>1, <3>2
  <2>5. ASSUME NEW x \in Issued
        PROVE  /\ Active(x)' \/ phase'[x] \in {"absent", "created", "too_large", "exhausted"}
               /\ phase'[x] \in {"too_large", "exhausted"} => call'[x] = "unsent"
               /\ phase'[x] = "unwinding" => attempted'[x]
    <3>1. CASE x = awaiting
      <4>1. phase'[x] \in Phases /\ x # 0
        BY <1>1, WhoAsks DEF TypeOK
      <4>2. OnCourse(phase'[x], call'[x], at, attempted'[x])
        BY <2>4, <3>1, <4>1
      <4>3. QED
        BY <4>1, <4>2 DEF OnCourse, Phases, InPerform, Active, Outcomes
    <3>2. CASE x # awaiting
      <4>1. ~Active(x)
        BY <2>1, <3>2, WhoAsks
      <4>2. phase'[x] = phase[x] /\ phase[x] # "unwinding"
        BY <1>5, <3>2, <4>1 DEF Active, Outcomes
      <4>3. QED
        BY <2>3, <3>2, <4>1, <4>2 DEF Course
    <3>3. QED
      BY <3>1, <3>2
  <2>6. \A x \in Issued : x # awaiting' /\ phase'[x] # "absent" /\ at' \notin {"summary", "done"}
                            => Tenant(x)' = Spender
    BY <1>3, <1>4, <1>5 DEF Course, Tenant, clientVars
  <2>7. Course'
    BY <1>4, <2>4, <2>5, <2>6 DEF Course, OnCourse, clientVars
  <2>8. QED
    BY <1>6, <2>7
<1>9. QED
  BY <1>7, <1>8

(* A client that notes no failure and awaits nothing stays on course. *)
LEMMA CourseKept ==
  ASSUME Course, UNCHANGED <<req, phase, call, attempted>>, awaiting' = 0, failures' = {},
         at' \notin {"summary", "done"} =>
           \A x \in Issued : phase[x] # "absent" => Tenant(x) = Spender
  PROVE  Course'
BY DEF Course, Active, Tenant

(* The steps of a calm run that read what the requests have left behind. *)
LEMMA SmoothAside ==
  ASSUME RunInv, Scripted, TwoBooks, Alone, Calm, Course, Score, RunInv', Calm',
         Client, ~Send, ~Receive, Aside
  PROVE  Course' /\ Score'
<1>1. /\ UNCHANGED <<req, phase, call, attempted>>
      /\ TypeOK /\ failures = {}
  BY DEF Aside, Course, RunInv
<1>2. ~DatabaseError
  <2>1. errors = 0 /\ errors' = 0
    BY CalmNumbers, CalmNumbersNext DEF Calm, RunInv
  <2>2. QED
    BY <2>1 DEF DatabaseError
<1>3. \A place : ~ReadFails(place)
  BY <1>2 DEF ReadFails
<1>4. ~LoseReplica
  BY WhoAsks DEF LoseReplica, Scripted, InTurn, Course, Active, Outcomes
<1>5. CASE Begin
  <2>1. awaiting = 0 /\ awaiting' = 0
    BY <1>5 DEF Begin, Scripted, InTurn, Working
  <2>2. \A x \in Issued : phase[x] # "absent" => Tenant(x) = Spender
    BY <1>5, <2>1, WhoAsks DEF Begin, Course
  <2>3. QED
    BY <1>1, <1>5, <2>1, <2>2, CourseKept DEF Begin, Score
<1>6. CASE Summary
  <2>1. awaiting = 0 /\ awaiting' = 0 /\ at' = "done" /\ at = "summary"
    BY <1>6, AfterIs DEF Summary, Scripted, InTurn, Working
  <2>2. \A r \in Issued : ~Active(r)
    BY <2>1, WhoAsks DEF Scripted, InTurn
  <2>3. counted = Created /\ Price * Total(ledger) = period.committed
    BY <2>1, <2>2, AtRest, RowsAtRest
  <2>4. told = Total(ledger)
    <3>1. Served = Created
      BY <2>1, WhoAsks DEF Served, Created
    <3>2. QED
      BY <2>3, <3>1 DEF TwoBooks
  <2>5. Price * Total(ledger) <= Cap
    <3>1. PICK c \in Nat, v \in Nat : c = period.committed /\ v = period.reserved
      BY <1>1 DEF TypeOK
    <3>2. c + v <= Cap
      BY <3>1 DEF RunInv, Ceilings
    <3>3. c <= Cap
      BY <3>1, <3>2, DemoNumbers
    <3>4. QED
      BY <2>3, <3>1, <3>3
  <2>6. failures' = {}
    BY <1>1, <1>6, <2>4, <2>5 DEF Summary, Require, TotalBill
  <2>7. Score'
    BY <2>1 DEF Score
  <2>8. QED
    BY <1>1, <2>1, <2>6, <2>7, CourseKept
<1>7. CASE ReadList \/ ReadJob \/ ReadUsage \/ ReadSpent \/ Bounce \/ ReadBill
  <2>1. /\ at \in {"list", "job", "usage", "spent", "body", "page", "bomb", "bill", "before", "unmoved"}
        /\ at' = After(at) /\ UNCHANGED <<awaiting, told, batches>>
    BY <1>7 DEF ReadList, ReadJob, ReadUsage, ReadSpent, Read, ReadFails, Bounce, ReadBill
  <2>2. awaiting = 0 /\ awaiting' = 0
    BY <2>1 DEF Scripted, InTurn, Working
  <2>3. \A r \in Issued : ~Active(r)
    BY <2>2, WhoAsks DEF Scripted, InTurn
  <2>4. /\ account[Spender].committed = Price * told /\ account[Spender].lookups = told
        /\ ledger[Spender] = told /\ Total(ledger) = told
    BY <2>1, <2>2, <2>3, SpenderPays
  <2>5. failures' = {} /\ (at' = "body" => before' = told) /\ (at # "before" => before' = before)
    <3>1. CASE ReadList
      BY <1>1, <1>3, <3>1, AfterIs DEF ReadList, Read, Require
    <3>2. CASE ReadJob
      <4>1. at = "job" /\ 3 \in Requests
        BY <3>2, WhoAsks, LoopIsLong DEF ReadJob, Read, ReadFails
      <4>2. 3 \in jobs /\ phase[3] = "created"
        BY <4>1 DEF Score, Alone, Calm, Posted
      <4>3. QED
        BY <1>1, <1>3, <3>2, <4>2, AfterIs DEF ReadJob, Read, Require
    <3>3. CASE ReadUsage
      <4>1. at = "usage"
        BY <3>3 DEF ReadUsage, Read, ReadFails
      <4>2. UsageIs(Ordinary + Bundle)
        BY <2>4, <4>1 DEF Score, UsageIs
      <4>3. QED
        BY <1>1, <1>3, <3>3, <4>1, <4>2, AfterIs DEF ReadUsage, Read, Require
    <3>4. CASE ReadSpent
      <4>1. account[Spender].committed <= Allowance
        <5>1. PICK c \in Nat, v \in Nat : c = account[Spender].committed /\ v = account[Spender].reserved
          BY <1>1, DemoNumbers DEF TypeOK
        <5>2. c + v <= Allowance
          BY <5>1, DemoNumbers DEF RunInv, Ceilings
        <5>3. c <= Allowance
          BY <5>1, <5>2, DemoNumbers
        <5>4. QED
          BY <5>1, <5>3
      <4>2. QED
        BY <1>1, <1>3, <3>4, <4>1, AfterIs DEF ReadSpent, Read, Require
    <3>5. CASE Bounce
      BY <1>1, <3>5, AfterIs DEF Bounce
    <3>6. CASE ReadBill
      <4>1. at = "bill" => BillOf(Spender) = Ordinary + Bundle
        BY <2>4 DEF Score, BillOf
      <4>2. at = "unmoved" => TotalBill = before
        BY <2>4 DEF Score, TotalBill
      <4>3. QED
        BY <1>1, <2>4, <3>6, <4>1, <4>2, AfterIs DEF ReadBill, Require, TotalBill
    <3>7. QED
      BY <1>7, <3>1, <3>2, <3>3, <3>4, <3>5, <3>6
  <2>6. Score'
    <3>1. at' = "exhaust" => told = Ordinary + Bundle + batches * MaxBatch
      <4>1. at = "unmoved" => told = Ordinary + Bundle /\ batches = 0
        BY DEF Score, Scripted, InTurn, Numbered
      <4>2. 0 * MaxBatch = 0 /\ Ordinary + Bundle + 0 = Ordinary + Bundle
        BY DemoNumbers
      <4>3. at' = "exhaust" => at = "unmoved"
        BY <2>1, AfterIs
      <4>4. QED
        BY <4>1, <4>2, <4>3
    <3>2. QED
      BY <1>1, <2>1, <2>5, <3>1, AfterIs DEF Score
  <2>7. \A x \in Issued : phase[x] # "absent" => Tenant(x) = Spender
    BY <2>1, <2>2, WhoAsks DEF Course
  <2>8. QED
    BY <1>1, <2>2, <2>5, <2>6, <2>7, CourseKept
<1>8. QED
  BY <1>4, <1>5, <1>6, <1>7 DEF Client

(* A calm run's answers are the expected ones, and the exhausting loop ends with
   a refusal: the partition cannot pay for as many batches as it has turns.  *)
LEMMA SmoothReceive ==
  ASSUME RunInv, Scripted, TwoBooks, Alone, Calm, Course, Score, Receive
  PROVE  Course' /\ Score'
<1>1. /\ UNCHANGED <<req, phase, call, attempted, before>> /\ awaiting' = 0
      /\ awaiting # 0 /\ told' = told + Reported(awaiting) /\ failures = {}
  BY DEF Receive, seededVars, vars, Course
<1>2. PICK r \in Issued : r = awaiting /\ r \in Requests /\ r \in Nat /\ r > 0
  BY <1>1, WhoAsks, LoopIsLong DEF Scripted, InTurn
<1>3. at \in Working /\ req[r] = Asked(at, r) /\ req \in [Requests -> Workload]
  BY <1>1, <1>2 DEF Scripted, InTurn, RunInv, TypeOK
<1>4. /\ phase[r] \in {"created", "too_large", "exhausted"}
      /\ at \in {"enrich", "import", "bystander"} => phase[r] = "created"
      /\ at = "batch" => phase[r] = "too_large"
      /\ at = "exhaust" => phase[r] # "too_large"
  <2>1. phase[r] \in Outcomes /\ (Active(r) \/ phase[r] \in {"absent", "created", "too_large", "exhausted"})
    BY <1>1, <1>2 DEF Receive, Course, Terminal
  <2>2. phase[r] \in {"created", "too_large", "exhausted"}
    BY <2>1 DEF Active, Outcomes
  <2>3. QED
    BY <1>1, <1>2, <2>2 DEF Course
<1>5. /\ phase[r] = "created" => StatusOf(r) = 201
      /\ phase[r] = "too_large" => StatusOf(r) = 413
      /\ phase[r] = "exhausted" => StatusOf(r) = 429
  BY DEF StatusOf
<1>6. \A x \in Issued : ~Active(x)
  BY <1>1, <1>2, <1>4 DEF Scripted, InTurn, Active, Outcomes
<1>7. at' \notin {"summary", "done"} => \A x \in Issued : phase[x] # "absent" => Tenant(x) = Spender
  <2>1. at' \notin {"summary", "done"} => at # "bystander"
    BY AfterIs DEF Receive
  <2>2. at # "bystander" => Tenant(r) = Spender
    BY <1>2, <1>3, AskedIs DEF Working, Work, Tenant
  <2>3. at \notin {"summary", "done"}
    BY <1>3 DEF Working
  <2>4. QED
    BY <1>2, <2>1, <2>2, <2>3 DEF Course
<1>8. CASE at # "exhaust"
  <2>1. /\ at' = After(at) /\ batches' = batches
        /\ failures' = {}
    BY <1>1, <1>2, <1>3, <1>4, <1>5, <1>8 DEF Receive, Require, Expected, Working
  <2>2. Course'
    BY <1>1, <1>7, <2>1, CourseKept
  <2>3. Score'
    <3>1. CASE at = "enrich"
      <4>1. told = 0 /\ Reported(r) = Ordinary
        BY <1>2, <1>3, <1>4, <3>1, AskedIs DEF Score, Reported, Work
      <4>2. told' = Ordinary
        BY <1>1, <1>2, <4>1, DemoNumbers
      <4>3. QED
        BY <2>1, <3>1, <4>2, AfterIs DEF Score
    <3>2. CASE at = "import"
      <4>1. told = Ordinary /\ Reported(r) = Bundle /\ phase[r] = "created" /\ req[r].op = "import"
        BY <1>2, <1>3, <1>4, <3>2, AskedIs DEF Score, Reported, Work
      <4>2. told' = Ordinary + Bundle
        BY <1>1, <1>2, <4>1
      <4>3. r = 3
        <5>1. sequence - 1 = 2 /\ r = sequence
          BY <1>1, <1>2, <3>2 DEF Scripted, InTurn, Sent, Numbered
        <5>2. QED
          BY <1>2, <5>1
      <4>4. QED
        BY <1>1, <2>1, <3>2, <4>1, <4>2, <4>3, AfterIs DEF Score
    <3>3. CASE at = "batch"
      <4>1. told' = told
        BY <1>1, <1>2, <1>4, <3>3 DEF Reported, Scripted, ClientTyped
      <4>2. QED
        BY <1>1, <2>1, <3>3, <4>1, AfterIs DEF Score
    <3>4. CASE at = "bystander"
      BY <2>1, <3>4, AfterIs DEF Score
    <3>5. QED
      BY <1>3, <1>8, <3>1, <3>2, <3>3, <3>4 DEF Working
  <2>4. QED
    BY <2>2, <2>3
<1>9. CASE at = "exhaust" /\ phase[r] = "exhausted"
  <2>1. at' = "spent" /\ failures' = {}
    BY <1>1, <1>2, <1>5, <1>9 DEF Receive, LoopGoesOn
  <2>2. Course'
    BY <1>1, <1>7, <2>1, CourseKept
  <2>3. QED
    BY <2>1, <2>2 DEF Score
<1>10. CASE at = "exhaust" /\ phase[r] = "created"
  <2>1. Reported(r) = MaxBatch /\ req[r].lookups = MaxBatch
    BY <1>2, <1>3, <1>10, AskedIs DEF Reported, Work
  <2>2. PICK o \in Nat, d \in Nat, k \in Nat, m \in Nat, n \in Nat :
          /\ o = Ordinary /\ d = Bundle /\ k = batches /\ m = MaxBatch /\ n = told
          /\ k < MaxBatches
    BY <1>10, DemoNumbers DEF Scripted, ClientTyped, InTurn, Numbered
  <2>3. /\ batches' = k + 1
        /\ at' = IF k + 1 = MaxBatches THEN "spent" ELSE "exhaust"
        /\ failures' = IF at' = "exhaust" THEN {} ELSE {"exhaust"}
    BY <1>1, <1>2, <1>5, <1>10, <2>2 DEF Receive, LoopGoesOn, Require
  <2>4. n = o + d + k * m /\ told' = n + m
    BY <1>1, <1>2, <1>10, <2>1, <2>2 DEF Score
  <2>5. k * m \in Nat /\ (k + 1) * m = k * m + m /\ (k + 1) * m \in Nat
    BY <2>2
  <2>6. n + m = o + d + (k + 1) * m
    BY <2>2, <2>4, <2>5
  <2>7. k + 1 # MaxBatches
    <3>1. SUFFICES ASSUME k + 1 = MaxBatches
                   PROVE  FALSE
      OBVIOUS
    <3>2. account[Spender].committed = W(req, Created)
      BY <1>2, <1>6, <1>10, SpenderPays
    <3>3. Cardinality(Units(req, Created)) = n + m
      <4>1. Created = Served \cup {r} /\ r \notin Served
        BY <1>2, <1>10, WhoAsks DEF Created, Served
      <4>2. Cardinality(Units(req, Served \cup {r})) = Cardinality(Units(req, Served)) + req[r].lookups
        BY <1>2, <1>3, <4>1, ServedAreRequests, UnitsAdd
      <4>3. QED
        BY <2>1, <2>2, <4>1, <4>2 DEF TwoBooks
    <3>4. PICK p \in Nat, a \in Nat, c \in Nat, v \in Nat :
            /\ p = Price /\ a = Allowance /\ c = account[Spender].committed
            /\ v = account[Spender].reserved /\ c + v <= a
      BY DemoNumbers DEF RunInv, TypeOK, Ceilings
    <3>5. p * (n + m) <= a
      <4>1. c = p * (n + m)
        BY <3>2, <3>3, <3>4 DEF W
      <4>2. c <= a
        BY <3>4
      <4>3. QED
        BY <4>1, <4>2
    <3>6. PICK s \in Nat : s = (k + 1) * m
      BY <2>5
    <3>7. s <= n + m
      BY <2>2, <2>6, <3>6
    <3>8. p * s <= p * (n + m)
      BY <2>2, <3>4, <3>6, <3>7
    <3>9. a < (k + 1) * (m * p)
      BY <2>2, <3>1, <3>4, LoopIsLong
    <3>10. (k + 1) * (m * p) = p * ((k + 1) * m)
      BY <2>2, <3>4
    <3>11. p * s \in Nat /\ p * (n + m) \in Nat
      BY <2>2, <3>4, <3>6
    <3>12. QED
      BY <3>4, <3>5, <3>6, <3>8, <3>9, <3>10, <3>11
  <2>8. at' = "exhaust" /\ failures' = {}
    BY <2>3, <2>7
  <2>9. Course'
    BY <1>1, <1>7, <2>8, CourseKept
  <2>10. told' = Ordinary + Bundle + batches' * MaxBatch
    BY <2>2, <2>3, <2>4, <2>6
  <2>11. QED
    BY <2>8, <2>9, <2>10 DEF Score
<1>11. QED
  BY <1>4, <1>8, <1>9, <1>10

(* Every step keeps a calm run on course. *)
LEMMA SmoothStep ==
  ASSUME RunInv, Scripted, TwoBooks, Alone, Smooth, RunInv', Alone', [DemoNext]_demoVars
  PROVE  Smooth'
<1>1. SUFFICES ASSUME Calm'
               PROVE  Course' /\ Score'
  BY DEF Smooth
<1>2. Calm
  BY <1>1, CalmBefore
<1>3. Course /\ Score /\ TypeOK
  BY <1>2 DEF Smooth, RunInv
<1>4. CASE Receive
  BY <1>2, <1>3, <1>4, SmoothReceive
<1>5. CASE Client /\ ~Send /\ ~Receive /\ Aside
  BY <1>1, <1>2, <1>3, <1>5, SmoothAside
<1>6. CASE Beneath
  BY <1>1, <1>2, <1>3, <1>6, SmoothBeneath
<1>7. ASSUME NEW n \in Requests, Arrive(n), at' = at, failures' = failures, told' = told,
             before' = before, batches' = batches, awaiting' \in {awaiting, n},
             awaiting' = n => awaiting = 0,
             n \in Issued => awaiting' = n /\ at \in Working
      PROVE  Course' /\ Score'
  <2>1. /\ phase[n] = "absent" /\ phase'[n] = "arrived"
        /\ \A x \in Requests : x # n => phase'[x] = phase[x] /\ req'[x] = req[x]
        /\ call' = call /\ attempted' = attempted
    BY <1>3, <1>7 DEF Arrive, Goto, TypeOK, providerVars
  <2>2. Score'
    <3>1. 3 \in Requests
      BY WhoAsks, LoopIsLong
    <3>2. at = "job" => phase'[3] = "created" /\ req'[3].op = "import"
      BY <1>3, <2>1, <3>1 DEF Score
    <3>3. QED
      BY <1>3, <1>7, <3>2 DEF Score
  <2>3. \A x \in Issued :
          /\ Active(x)' \/ phase'[x] \in {"absent", "created", "too_large", "exhausted"}
          /\ phase'[x] \in {"too_large", "exhausted"} => call'[x] = "unsent"
          /\ phase'[x] = "unwinding" => attempted'[x]
    BY <1>3, <2>1, WhoAsks DEF Course, Active, Outcomes
  <2>4. ASSUME NEW x \in Issued, x # awaiting', phase'[x] # "absent", at' \notin {"summary", "done"}
        PROVE  Tenant(x)' = Spender
    <3>1. x # n
      BY <1>7, <2>4
    <3>2. phase[x] # "absent" /\ Tenant(x)' = Tenant(x)
      BY <2>1, <2>4, <3>1, WhoAsks DEF Tenant
    <3>3. x # awaiting
      BY <1>7, <2>4, WhoAsks
    <3>4. QED
      BY <1>3, <1>7, <2>4, <3>2, <3>3 DEF Course
  <2>5. awaiting' # 0 =>
          /\ at' \in {"enrich", "import", "bystander"} => phase'[awaiting'] \notin {"too_large", "exhausted"}
          /\ at' = "batch" => phase'[awaiting'] \in {"arrived", "too_large"}
          /\ at' = "exhaust" => phase'[awaiting'] # "too_large"
    <3>1. CASE awaiting' = n
      BY <1>7, <2>1, <3>1
    <3>2. CASE awaiting' = awaiting /\ awaiting # n /\ awaiting # 0
      <4>1. phase'[awaiting] = phase[awaiting]
        BY <2>1, <3>2, WhoAsks DEF Scripted, InTurn
      <4>2. QED
        BY <1>3, <1>7, <3>2, <4>1 DEF Course
    <3>3. QED
      BY <1>7, <3>1, <3>2
  <2>6. QED
    BY <1>3, <1>7, <2>2, <2>3, <2>4, <2>5 DEF Course
<1>8. CASE Send
  <2>1. PICK n : n = sequence + 1
    OBVIOUS
  <2>2. n \in Issued /\ n \in Requests
    BY <1>8, <2>1, NextIsIssued, WhoAsks DEF Send
  <2>3. Arrive(n) /\ awaiting' = n /\ awaiting = 0 /\ at \in Working
        /\ UNCHANGED <<at, told, failures, before, batches>>
    BY <1>8, <2>1 DEF Send
  <2>4. QED
    BY <1>7, <2>2, <2>3
<1>9. ASSUME NEW n \in Earlier, EarlierArrives(n)
      PROVE  Course' /\ Score'
  <2>1. n \in Requests /\ n \notin Issued /\ Arrive(n)
        /\ UNCHANGED <<at, told, failures, before, batches, awaiting>>
    BY <1>9, WhoAsks DEF EarlierArrives, clientVars
  <2>2. awaiting' = n => awaiting = 0
    <3>1. awaiting = 0 \/ awaiting \in Issued
      BY DEF Scripted, InTurn
    <3>2. QED
      BY <2>1, <3>1
  <2>3. QED
    BY <1>7, <2>1, <2>2
<1>10. ASSUME UNCHANGED <<at, awaiting, told, failures, before, batches, req, phase, call, attempted>>
       PROVE  Course' /\ Score'
  BY <1>3, <1>10 DEF Course, Score, Active, Tenant
<1>11. CASE SeedStep
  BY <1>10, <1>11 DEF SeedStep, Seed, ResetRows, ResetBill, clientVars, providerVars
<1>12. CASE UNCHANGED demoVars
  BY <1>10, <1>12 DEF demoVars, seededVars, vars, clientVars
<1>13. QED
  BY <1>4, <1>5, <1>6, <1>8, <1>9, <1>11, <1>12, DemoSteps

(* The demonstration fails only for a cause it may blame: without a fault, an
   abandoned call or a request of an earlier run every answer, every figure of
   the rows and every line of the bill is the expected one.                  *)
THEOREM FailuresHaveACause == DemoSpec => []FailureHasCause
<1> DEFINE Inv == DemoBase /\ TwoBooks /\ Alone /\ Smooth
<1>1. ASSUME DemoInit
      PROVE  Inv
  <2>1. DemoBase /\ TwoBooks /\ Alone
    BY <1>1, ScriptedInit, TwoBooksInit, AloneInit DEF DemoBase
  <2>2. \A r \in Issued : phase[r] = "absent"
    BY <1>1, WhoAsks DEF DemoInit, ReseedInit, Init
  <2>3. Course /\ Score
    BY <1>1, <2>2 DEF DemoInit, Course, Score
  <2>4. QED
    BY <2>1, <2>3 DEF Smooth
<1>2. ASSUME Inv, [DemoNext]_demoVars
      PROVE  Inv'
  <2>1. RunInv /\ Scripted /\ TwoBooks /\ Alone /\ Smooth
    BY <1>2 DEF DemoBase
  <2>2. RunInv' /\ Scripted' /\ TwoBooks' /\ Alone'
    BY <1>2, <2>1, SystemStep, ScriptedStep, TwoBooksStep, AloneStep
  <2>3. Smooth'
    BY <1>2, <2>1, <2>2, SmoothStep
  <2>4. QED
    BY <2>2, <2>3 DEF DemoBase
<1>3. Inv => FailureHasCause
  BY DEF Smooth, Calm, Course, FailureHasCause
<1>4. QED
  BY <1>1, <1>2, <1>3, PTL DEF DemoSpec
=============================================================================
