---------------------- MODULE StoreTransactionsProofs ----------------------
(***************************************************************************)
(* For any number of tenants, requests, records and failures: no set of    *)
(* requests waits for one another's rows, the committed rows always add    *)
(* up, and they move by whole transactions of SpendPartition.              *)
(*                                                                         *)
(* Two invariants carry it. LockOrder ranks the rows: what a transaction   *)
(* has still to write ranks above everything it has locked. Balanced says  *)
(* of every open transaction on money that the version it has written is   *)
(* right for the row as committed now, which is so because it holds the    *)
(* row's lock; the WHERE clause was judged under that lock.                *)
(***************************************************************************)
EXTENDS StoreTransactions, Counting

-----------------------------------------------------------------------------
(* The order in which rows are locked *)

(* Ascending lists the members of a finite set of numbers, smallest first. *)
LEMMA AscendingSorts ==
  ASSUME NEW S, S \subseteq Nat, IsFiniteSet(S)
  PROVE  /\ Cardinality(S) \in Nat
         /\ \A i \in 1..Cardinality(S) : Ascending(S)[i] \in S
         /\ \A i, j \in 1..Cardinality(S) : i < j => Ascending(S)[i] < Ascending(S)[j]
<1> DEFINE n == Cardinality(S)
           UpTo(k) == {x \in S : x <= k}
           f == [k \in S |-> Place(k, S)]
<1>1. n \in Nat
  BY FS_CardinalityType
<1>2. ASSUME NEW k \in S
      PROVE  /\ IsFiniteSet(UpTo(k)) /\ Place(k, S) = Cardinality(UpTo(k))
             /\ Place(k, S) \in 1..n /\ Place(k, S) \in Nat
  <2>1. UpTo(k) \in SUBSET S /\ k \in UpTo(k)
    OBVIOUS
  <2>2. Place(k, S) = Cardinality(UpTo(k))
    BY DEF Place
  <2> HIDE DEF UpTo
  <2>3. IsFiniteSet(UpTo(k)) /\ Cardinality(UpTo(k)) <= n
    BY <2>1, FS_Subset
  <2>4. Cardinality(UpTo(k)) \in Nat /\ Cardinality(UpTo(k)) # 0
    BY <2>1, <2>3, FS_CardinalityType, FS_EmptySet
  <2>5. QED
    BY <1>1, <2>2, <2>3, <2>4
<1>3. ASSUME NEW j \in S, NEW k \in S, j < k
      PROVE  Place(j, S) < Place(k, S)
  <2>1. UpTo(j) \in SUBSET UpTo(k) /\ k \in UpTo(k) /\ k \notin UpTo(j)
    <3>1. j \in Nat /\ k \in Nat /\ \A x \in S : x \in Nat
      OBVIOUS
    <3>2. ASSUME NEW x \in S, x <= j
          PROVE  x <= k
      BY <1>3, <3>1, <3>2
    <3>3. k <= k /\ ~(k <= j)
      BY <1>3, <3>1
    <3>4. QED
      BY <3>2, <3>3
  <2>2. IsFiniteSet(UpTo(k))
    BY <1>2
  <2>3. Cardinality(UpTo(j)) <= Cardinality(UpTo(k)) /\ Cardinality(UpTo(k)) # Cardinality(UpTo(j))
    <3> HIDE DEF UpTo
    <3> QED
      BY <2>1, <2>2, FS_Subset
  <2>4. Place(j, S) = Cardinality(UpTo(j)) /\ Place(k, S) = Cardinality(UpTo(k))
    BY <1>2
  <2>5. Place(j, S) \in Nat /\ Place(k, S) \in Nat
    BY <1>2
  <2> HIDE DEF UpTo
  <2>6. QED
    BY <2>3, <2>4, <2>5
<1>4. f \in Injection(S, 1..n)
  <2>1. f \in [S -> 1..n]
    BY <1>2
  <2>2. ASSUME NEW j \in S, NEW k \in S, j # k
        PROVE  Place(j, S) # Place(k, S)
    <3>1. j \in Nat /\ k \in Nat /\ Place(j, S) \in Nat /\ Place(k, S) \in Nat
      BY <1>2
    <3>2. QED
      BY <1>3, <2>2, <3>1
  <2>3. QED
    BY <2>1, <2>2 DEF Injection, IsInjective
<1>5. f \in Surjection(S, 1..n)
  <2>1. IsFiniteSet(1..n) /\ Cardinality(1..n) = n
    BY <1>1, FS_Interval
  <2> HIDE DEF f
  <2>2. QED
    BY <1>4, <2>1, FS_Injection
<1>6. ASSUME NEW i \in 1..n
      PROVE  Ascending(S)[i] \in S /\ Place(Ascending(S)[i], S) = i
  <2>1. \E k \in S : Place(k, S) = i
    BY <1>5 DEF Surjection
  <2>2. Ascending(S)[i] = CHOOSE k \in S : Place(k, S) = i
    BY DEF Ascending
  <2>3. QED
    BY <2>1, <2>2
<1>7. ASSUME NEW i \in 1..n, NEW j \in 1..n, i < j
      PROVE  Ascending(S)[i] < Ascending(S)[j]
  <2>1. PICK a \in S : a = Ascending(S)[i] /\ Place(a, S) = i
    BY <1>6
  <2>2. PICK b \in S : b = Ascending(S)[j] /\ Place(b, S) = j
    BY <1>6
  <2>3. a # b /\ ~(b < a)
    BY <1>1, <1>3, <1>7, <2>1, <2>2
  <2>4. QED
    BY <2>1, <2>2, <2>3
<1>8. QED
  BY <1>1, <1>6, <1>7

(* Every transaction takes its rows in the order of their ranks. *)
Rank(row) ==
  IF row = PeriodRow THEN 1 ELSE IF row[1] = "tenant" THEN 0 ELSE row[2]

LEMMA RowFacts ==
  /\ PeriodRow \in Rows /\ Rank(PeriodRow) = 1
  /\ \A t \in Tenants : /\ TenantRow(t) \in Rows /\ Rank(TenantRow(t)) = 0
                        /\ TenantRow(t) # PeriodRow
  /\ \A k \in Keys : /\ RecordRow(k) \in Rows /\ Rank(RecordRow(k)) = k
                     /\ RecordRow(k) # PeriodRow
                     /\ \A t \in Tenants : RecordRow(k) # TenantRow(t)
  /\ \A t, u \in Tenants : TenantRow(t) = TenantRow(u) => t = u
  /\ \A row \in Rows : Rank(row) \in Nat
<1>1. \A k \in Keys : k \in Nat
  BY StoreAssumption
<1>2. PeriodRow \in Rows /\ Rank(PeriodRow) = 1
  BY DEF Rows, Rank
<1>3. ASSUME NEW t \in Tenants
      PROVE  TenantRow(t) \in Rows /\ TenantRow(t) # PeriodRow /\ Rank(TenantRow(t)) = 0
  <2>1. TenantRow(t) # PeriodRow
    BY DEF TenantRow, PeriodRow
  <2>2. QED
    BY <2>1 DEF Rows, Rank, TenantRow
<1>4. ASSUME NEW k \in Keys
      PROVE  /\ RecordRow(k) \in Rows /\ RecordRow(k) # PeriodRow /\ Rank(RecordRow(k)) = k
             /\ \A t \in Tenants : RecordRow(k) # TenantRow(t)
  <2>1. RecordRow(k) # PeriodRow /\ \A t \in Tenants : RecordRow(k) # TenantRow(t)
    BY DEF TenantRow, PeriodRow, RecordRow
  <2>2. QED
    BY <2>1 DEF Rows, Rank, RecordRow
<1>5. \A t, u \in Tenants : TenantRow(t) = TenantRow(u) => t = u
  BY DEF TenantRow
<1>6. \A row \in Rows : Rank(row) \in Nat
  BY <1>1, <1>2, <1>3, <1>4 DEF Rows
<1>7. QED
  BY <1>2, <1>3, <1>4, <1>5, <1>6

Ascends(s) == \A i, j \in 1..Len(s) : i < j => Rank(s[i]) < Rank(s[j])

(* What a request is: the rows it writes exist and are in order. *)
LEMMA RowsAscend ==
  ASSUME req \in [Requests -> Workload], NEW r \in Requests
  PROVE  /\ req[r].tenant \in Tenants /\ req[r].cents \in 0..MaxCents
         /\ RecordRows(r) \in Seq(Rows) /\ Ascends(RecordRows(r))
         /\ \A i \in 1..Len(RecordRows(r)) : \E k \in Keys : RecordRows(r)[i] = RecordRow(k)
         /\ \A o : RowsOf(r, o) \in Seq(Rows) /\ Ascends(RowsOf(r, o))
<1> DEFINE S == {req[r].records[i] : i \in DOMAIN req[r].records}
           n == Cardinality(S)
<1>1. req[r] \in Descriptor
  BY StoreAssumption
<1>2. req[r].tenant \in Tenants /\ req[r].cents \in 0..MaxCents /\ req[r].records \in Payloads
  BY <1>1 DEF Descriptor
<1>3. S \in SUBSET Keys
  BY <1>2 DEF Payloads
<1>4. S \subseteq Nat /\ IsFiniteSet(S)
  <2> HIDE DEF S
  <2> QED
    BY <1>3, StoreAssumption, FS_Subset
<1>5. /\ n \in Nat
      /\ \A i \in 1..n : Ascending(S)[i] \in S
      /\ \A i, j \in 1..n : i < j => Ascending(S)[i] < Ascending(S)[j]
  <2> HIDE DEF S
  <2> QED
    BY <1>4, AscendingSorts
<1>6. /\ Len(Ascending(S)) = n
      /\ RecordRows(r) = [i \in 1..n |-> RecordRow(Ascending(S)[i])]
  <2>1. Ascending(S) = [i \in 1..n |-> CHOOSE k \in S : Place(k, S) = i]
    BY DEF Ascending
  <2>2. Len(Ascending(S)) = n
    <3> HIDE DEF S, n
    <3> QED
      BY <1>5, <2>1
  <2>3. QED
    BY <2>2 DEF RecordRows
<1>7. \A i \in 1..n : \E k \in Keys : RecordRows(r)[i] = RecordRow(k) /\ k = Ascending(S)[i]
  <2> HIDE DEF S, n
  <2> QED
    BY <1>3, <1>5, <1>6
<1>8. RecordRows(r) \in Seq(Rows) /\ Len(RecordRows(r)) = n
  <2> HIDE DEF S, n
  <2>1. RecordRows(r) \in [1..n -> Rows]
    BY <1>6, <1>7, RowFacts
  <2>2. QED
    BY <1>5, <2>1
<1>9. Ascends(RecordRows(r))
  <2> HIDE DEF S, n
  <2>1. \A i \in 1..n : Rank(RecordRows(r)[i]) = Ascending(S)[i]
    BY <1>7, RowFacts
  <2>2. QED
    BY <1>5, <1>8, <2>1 DEF Ascends
<1>10. \A i \in 1..Len(RecordRows(r)) : \E k \in Keys : RecordRows(r)[i] = RecordRow(k)
  BY <1>7, <1>8
<1>11. ASSUME NEW o
       PROVE  RowsOf(r, o) \in Seq(Rows) /\ Ascends(RowsOf(r, o))
  <2>1. CASE o = "upsert"
    BY <1>8, <1>9, <2>1 DEF RowsOf
  <2>2. CASE o # "upsert"
    <3>1. RowsOf(r, o) = <<TenantRow(req[r].tenant), PeriodRow>>
      BY <2>2 DEF RowsOf
    <3>2. QED
      BY <1>2, <3>1, RowFacts DEF Ascends
  <2>3. QED
    BY <2>1, <2>2
<1>12. QED
  BY <1>2, <1>8, <1>9, <1>10, <1>11

(* No request waits for a row below one it holds. *)
Kinds ==
  /\ lock \in [Rows -> Requests \cup {Nobody}]
  /\ req \in [Requests -> Workload]
  /\ stage \in [Requests -> Stages]
  /\ op \in [Requests -> Ops]
  /\ todo \in [Requests -> Seq(Rows)]
  /\ matched \in [Requests -> BOOLEAN]
Orderly(r) ==
  /\ matched[r] => todo[r] # <<>>
  /\ op[r] = "none" => todo[r] = <<>> /\ \A row \in Rows : lock[row] # r
  /\ Ascends(todo[r])
  /\ \A row \in Rows, i \in 1..Len(todo[r]) : lock[row] = r => Rank(row) < Rank(todo[r][i])
LockOrder == Kinds /\ \A r \in Requests : Orderly(r)

(* A transaction that ends leaves its request with nothing and the others as
   they were.                                                               *)
LEMMA EndKeepsLockOrder ==
  ASSUME LockOrder, NEW r \in Requests, NEW next \in Stages, EndTransaction(r, next)
  PROVE  LockOrder'
<1> USE DEF LockOrder, Kinds
<1>1. Kinds'
  BY StoreAssumption DEF EndTransaction, Ops
<1>2. /\ op'[r] = "none" /\ todo'[r] = <<>> /\ matched'[r] = FALSE
      /\ \A row \in Rows : lock'[row] # r
  BY StoreAssumption DEF EndTransaction
<1>3. Orderly(r)'
  BY <1>2 DEF Orderly, Ascends
<1>4. ASSUME NEW q \in Requests, q # r
      PROVE  Orderly(q)'
  <2>1. /\ op'[q] = op[q] /\ todo'[q] = todo[q] /\ matched'[q] = matched[q]
        /\ \A row \in Rows : lock'[row] = q => lock[row] = q
    BY <1>4, StoreAssumption DEF EndTransaction
  <2>2. Orderly(q)
    OBVIOUS
  <2>3. QED
    BY <2>1, <2>2 DEF Orderly, Ascends
<1>5. QED
  BY <1>1, <1>3, <1>4

LEMMA StepKeepsLockOrder ==
  ASSUME LockOrder, NEW r \in Requests, Step(r) \/ Fail(r)
  PROVE  LockOrder'
<1>1. Kinds /\ \A q \in Requests : Orderly(q)
  BY DEF LockOrder
<1>2. ASSUME Begin(r)
      PROVE  LockOrder'
  <2>1. PICK o \in MayStart(r) :
          /\ op[r] = "none"
          /\ op' = [op EXCEPT ![r] = o]
          /\ todo' = [todo EXCEPT ![r] = RowsOf(r, o)]
          /\ UNCHANGED <<lock, req, stage, matched>>
    BY <1>2 DEF Begin
  <2>2. RowsOf(r, o) \in Seq(Rows) /\ Ascends(RowsOf(r, o))
    BY <1>1, RowsAscend DEF Kinds
  <2>3. o \in Ops
    BY <2>1 DEF MayStart, Ops
  <2>4. Kinds'
    BY <1>1, <2>1, <2>2, <2>3 DEF Kinds
  <2>5. ASSUME NEW q \in Requests, q # r
        PROVE  Orderly(q)'
    <3>1. Orderly(q) /\ todo'[q] = todo[q] /\ op'[q] = op[q]
      BY <1>1, <2>1, <2>5 DEF Kinds
    <3>2. QED
      BY <2>1, <3>1 DEF Orderly, Ascends
  <2>6. Orderly(r)'
    <3>1. todo'[r] = RowsOf(r, o) /\ op'[r] = o /\ o # "none"
      BY <1>1, <2>1 DEF Kinds, MayStart
    <3>2. ~matched[r] /\ \A row \in Rows : lock[row] # r
      BY <1>1, <2>1 DEF Orderly, Kinds
    <3>3. QED
      BY <2>1, <2>2, <3>1, <3>2 DEF Orderly, Ascends
  <2>7. QED
    BY <2>4, <2>5, <2>6 DEF LockOrder
<1>3. ASSUME Match(r)
      PROVE  LockOrder'
  <2>1. Kinds'
    BY <1>1, <1>3 DEF Kinds, Match
  <2>2. ASSUME NEW q \in Requests
        PROVE  Orderly(q)'
    BY <1>1, <1>3 DEF Kinds, Match, Orderly, Ascends
  <2>3. QED
    BY <2>1, <2>2 DEF LockOrder
<1>4. ASSUME Write(r)
      PROVE  LockOrder'
  <2>1. PICK s \in Seq(Rows) : s = todo[r] /\ s # <<>>
    BY <1>1, <1>4 DEF Kinds, Orderly, Write
  <2>2. PICK row \in Rows : row = Head(s) /\ row = s[1]
    BY <2>1
  <2>3. /\ lock' = [lock EXCEPT ![row] = r] /\ lock[row] = Nobody
        /\ todo' = [todo EXCEPT ![r] = Tail(s)]
        /\ matched' = [matched EXCEPT ![r] = FALSE]
        /\ UNCHANGED <<req, stage, op>>
    BY <1>4, <2>1, <2>2 DEF Write
  <2>4. /\ Tail(s) \in Seq(Rows) /\ Len(Tail(s)) = Len(s) - 1
        /\ \A i \in 1..Len(Tail(s)) : Tail(s)[i] = s[i+1]
    BY <2>1
  <2>5. Kinds'
    BY <1>1, <2>3, <2>4 DEF Kinds
  <2>6. ASSUME NEW q \in Requests, q # r
        PROVE  Orderly(q)'
    <3>1. Orderly(q) /\ todo'[q] = todo[q] /\ op'[q] = op[q] /\ matched'[q] = matched[q]
      BY <1>1, <2>3, <2>6 DEF Kinds
    <3>2. \A other \in Rows : lock'[other] = q => lock[other] = q
      BY <1>1, <2>3, <2>6 DEF Kinds
    <3>3. QED
      BY <3>1, <3>2 DEF Orderly, Ascends
  <2>7. Orderly(r)'
    <3>1. todo'[r] = Tail(s) /\ op'[r] = op[r] /\ matched'[r] = FALSE
      BY <1>1, <2>3 DEF Kinds
    <3>2. op[r] # "none"
      BY <1>1, <2>1 DEF Orderly
    <3>3. Len(s) \in Nat /\ Len(s) >= 1 /\ Ascends(s)
      BY <1>1, <2>1 DEF Orderly
    <3>4. Ascends(Tail(s))
      BY <2>4, <3>3 DEF Ascends
    <3>5. ASSUME NEW other \in Rows, NEW i \in 1..Len(Tail(s)), lock'[other] = r
          PROVE  Rank(other) < Rank(Tail(s)[i])
      <4>1. i + 1 \in 1..Len(s) /\ 1 < i + 1 /\ 1 \in 1..Len(s) /\ Tail(s)[i] = s[i+1]
        BY <2>4, <3>3
      <4>2. CASE other = row
        BY <2>2, <3>3, <4>1, <4>2 DEF Ascends
      <4>3. CASE other # row
        <5>1. lock[other] = r
          BY <1>1, <2>3, <3>5, <4>3 DEF Kinds
        <5>2. QED
          BY <1>1, <2>1, <4>1, <5>1 DEF Orderly
      <4>4. QED
        BY <4>2, <4>3
    <3>6. QED
      BY <3>1, <3>2, <3>4, <3>5 DEF Orderly, Ascends
  <2>8. QED
    BY <2>5, <2>6, <2>7 DEF LockOrder
<1>5. CASE Refuse(r)
  BY <1>5, EndKeepsLockOrder DEF Refuse, Stages
<1>6. CASE Commit(r)
  <2>1. AfterCommit(r) \in Stages
    BY DEF AfterCommit, Stages
  <2>2. QED
    BY <1>6, <2>1, EndKeepsLockOrder DEF Commit
<1>7. CASE Fail(r)
  <2>1. AfterError(r) \in Stages
    BY DEF AfterError, Stages
  <2>2. QED
    BY <1>7, <2>1, EndKeepsLockOrder DEF Fail
<1>8. QED
  BY <1>2, <1>3, <1>4, <1>5, <1>6, <1>7 DEF Step

LEMMA LockOrderHolds == Spec => []LockOrder
<1>1. Init => LockOrder
  <2>1. ASSUME Init
        PROVE  Kinds /\ \A r \in Requests : Orderly(r)
    BY <2>1, StoreAssumption DEF Init, Kinds, Orderly, Ascends, Stages, Ops
  <2>2. QED
    BY <2>1 DEF LockOrder
<1>2. LockOrder /\ [Next]_vars => LockOrder'
  <2>1. ASSUME LockOrder, UNCHANGED vars
        PROVE  LockOrder'
    BY <2>1 DEF LockOrder, Kinds, Orderly, Ascends, vars
  <2>2. QED
    BY <2>1, StepKeepsLockOrder DEF Next, Rest
<1>3. QED
  BY <1>1, <1>2, PTL DEF Spec

(* However many requests, replicas, records and tenants there are, no set of
   them waits for one another's rows: the one whose next row ranks highest
   waits for nobody in the set.                                             *)
THEOREM NoWaitCycleHolds == Spec => []NoWaitCycle
<1>1. LockOrder => NoWaitCycle
  <2>1. SUFFICES ASSUME LockOrder, NEW S \in (SUBSET Requests) \ {{}}
                 PROVE  \E r \in S : WaitsFor(r) \cap S = {}
    BY DEF NoWaitCycle
  <2>13. S \in SUBSET Requests /\ S # {}
    OBVIOUS
  <2>2. SUFFICES ASSUME \A r \in S : WaitsFor(r) \cap S # {}
                 PROVE  FALSE
    OBVIOUS
  <2> DEFINE next == [r \in S |-> Rank(Head(todo[r]))]
  <2>3. ASSUME NEW r \in S
        PROVE  /\ matched[r] /\ todo[r] \in Seq(Rows) /\ todo[r] # <<>>
               /\ lock[Head(todo[r])] \in S
    BY <2>1, <2>2 DEF LockOrder, Kinds, Orderly, WaitsFor
  <2>4. \A r \in S : /\ Head(todo[r]) \in Rows /\ Head(todo[r]) = todo[r][1]
                     /\ 1 \in 1..Len(todo[r])
    BY <2>3
  <2>5. next \in [S -> Nat]
    BY <2>4, RowFacts
  <2>6. IsFiniteSet(S)
    BY <2>13, StoreAssumption, FS_Subset
  <2>7. PICK a \in S : \A b \in S : next[b] <= next[a]
    <3> HIDE DEF next
    <3> QED
      BY <2>5, <2>6, <2>13, LargestAtMember
  <2>8. PICK h \in S : h = lock[Head(todo[a])]
    BY <2>3
  <2>9. Rank(Head(todo[a])) < Rank(todo[h][1])
    BY <2>1, <2>4, <2>8 DEF LockOrder, Orderly
  <2>10. next[h] <= next[a] /\ next[h] = Rank(Head(todo[h])) /\ next[a] = Rank(Head(todo[a]))
    BY <2>7
  <2>11. Rank(Head(todo[a])) \in Nat /\ Rank(Head(todo[h])) \in Nat
    BY <2>4, RowFacts
  <2>12. QED
    BY <2>4, <2>9, <2>10, <2>11
<1>2. QED
  BY <1>1, LockOrderHolds, PTL

-----------------------------------------------------------------------------
(* The money *)

LEMMA RequestFacts ==
  ASSUME req \in [Requests -> Workload], NEW r \in Requests
  PROVE  /\ req[r].tenant \in Tenants /\ req[r].cents \in Nat /\ req[r].cents <= MaxCents
         /\ TenantRow(req[r].tenant) \in Rows
<1>1. req[r].tenant \in Tenants /\ req[r].cents \in 0..MaxCents
  BY RowsAscend
<1>2. QED
  BY <1>1, RowFacts, StoreAssumption

(* One more request, its cents more. *)
LEMMA CentsAdd ==
  ASSUME req \in [Requests -> Workload], NEW S \in SUBSET Requests, NEW r \in Requests, r \notin S
  PROVE  CentsOf(S) \in Nat /\ CentsOf(S \cup {r}) = CentsOf(S) + req[r].cents
<1> DEFINE cents == [q \in Requests |-> req[q].cents]
<1>1. cents[r] \in Nat /\ cents[r] <= MaxCents /\ MaxCents \in Nat
  BY RequestFacts, StoreAssumption
<1>2. ASSUME NEW A \in SUBSET Requests
      PROVE  CentsOf(A) = Tally(A, MaxCents, cents)
  <2>1. {u \in A \X (1..MaxCents) : u[2] <= req[u[1]].cents} = Cells(A, MaxCents, cents)
    BY DEF Cells
  <2>2. QED
    BY <2>1 DEF CentsOf, Tally
<1>3. IsFiniteSet(S)
  BY StoreAssumption, FS_Subset
<1>4. S \cup {r} \in SUBSET Requests /\ cents[r] = req[r].cents
  OBVIOUS
<1> HIDE DEF cents
<1>5. QED
  BY <1>1, <1>2, <1>3, <1>4, TallyAdds

(* What an open transaction on money has written is right for the rows as they
   are committed now, and nobody else can write them until it ends.           *)
MoneyOps == {"reserve", "charge", "release"}
TenantWritten(r) ==
  LET money == account[req[r].tenant] IN
  /\ lock[TenantRow(req[r].tenant)] = r
  /\ draft[r].tenant = Written(r, op[r], money)
  /\ op[r] = "reserve" => money.committed + money.reserved + req[r].cents <= Allowance
PeriodWritten(r) ==
  /\ lock[PeriodRow] = r
  /\ draft[r].period = Written(r, op[r], period)
  /\ op[r] = "reserve" => period.committed + period.reserved + req[r].cents <= Cap
Shape(r) ==
  /\ op[r] \in MayStart(r) \cup {"none"}
  /\ op[r] \in MoneyOps =>
       \/ todo[r] = <<TenantRow(req[r].tenant), PeriodRow>>
       \/ todo[r] = <<PeriodRow>> /\ TenantWritten(r)
       \/ todo[r] = <<>> /\ TenantWritten(r) /\ PeriodWritten(r)
Ceilings ==
  /\ \A t \in Tenants : account[t].committed + account[t].reserved <= Allowance
  /\ period.committed + period.reserved <= Cap
Balanced == TypeOK /\ Ceilings /\ CommittedRowsAgree /\ \A r \in Requests : Shape(r)

HeldStages == {"held", "stored", "unwinding", "stranded"}
LEMMA HeldFacts ==
  ASSUME req \in [Requests -> Workload]
  PROVE  /\ UNION {HeldBy(t) : t \in Tenants} = {r \in Requests : stage[r] \in HeldStages}
         /\ UNION {ChargedTo(t) : t \in Tenants} = {r \in Requests : stage[r] = "charged"}
<1>1. \A r \in Requests : req[r].tenant \in Tenants
  BY RequestFacts
<1>2. QED
  BY <1>1 DEF HeldBy, ChargedTo, HeldStages

(* The rows still hold what a request has on hold. *)
LEMMA HoldIsCovered ==
  ASSUME TypeOK, CommittedRowsAgree, NEW r \in Requests, stage[r] \in HeldStages
  PROVE  /\ req[r].cents <= account[req[r].tenant].reserved
         /\ req[r].cents <= period.reserved
<1> DEFINE t == req[r].tenant
           All == {q \in Requests : stage[q] \in HeldStages}
<1>1. req \in [Requests -> Workload] /\ t \in Tenants /\ req[r].cents \in Nat
  BY RequestFacts DEF TypeOK
<1>2. ASSUME NEW S \in SUBSET Requests, r \in S
      PROVE  req[r].cents <= CentsOf(S)
  <2>1. PICK rest \in SUBSET Requests : r \notin rest /\ S = rest \cup {r}
    <3>1. S \ {r} \in SUBSET Requests /\ r \notin S \ {r} /\ S = (S \ {r}) \cup {r}
      BY <1>2
    <3>2. QED
      BY <3>1
  <2>2. CentsOf(rest) \in Nat /\ CentsOf(rest \cup {r}) = CentsOf(rest) + req[r].cents
    BY <1>1, <2>1, CentsAdd
  <2>3. QED
    BY <1>1, <2>1, <2>2
<1>3. HeldBy(t) \in SUBSET Requests /\ r \in HeldBy(t) /\ All \in SUBSET Requests /\ r \in All
  BY DEF HeldBy, HeldStages
<1>4. account[t].reserved = CentsOf(HeldBy(t)) /\ period.reserved = CentsOf(All)
  BY <1>1, HeldFacts DEF CommittedRowsAgree
<1> HIDE DEF All
<1>5. QED
  BY <1>2, <1>3, <1>4

LEMMA WrittenFacts ==
  ASSUME req \in [Requests -> Workload], NEW r \in Requests, NEW money \in Money
  PROVE  /\ Written(r, "reserve", money)
              = [reserved |-> money.reserved + req[r].cents, committed |-> money.committed]
         /\ Written(r, "charge", money)
              = [reserved |-> money.reserved - req[r].cents,
                 committed |-> money.committed + req[r].cents]
         /\ Written(r, "release", money)
              = [reserved |-> money.reserved - req[r].cents, committed |-> money.committed]
         /\ Written(r, "upsert", money) = money
         /\ \A o \in Ops \ {"none"} :
              (o \in {"charge", "release"} => req[r].cents <= money.reserved)
                => Written(r, o, money) \in Money
<1>1. req[r].cents \in Nat
  BY RequestFacts
<1>2. money.reserved \in Nat /\ money.committed \in Nat
  BY DEF Money
<1>3. /\ Written(r, "reserve", money)
           = [reserved |-> money.reserved + req[r].cents, committed |-> money.committed]
      /\ Written(r, "charge", money)
           = [reserved |-> money.reserved - req[r].cents,
              committed |-> money.committed + req[r].cents]
      /\ Written(r, "release", money)
           = [reserved |-> money.reserved - req[r].cents, committed |-> money.committed]
      /\ Written(r, "upsert", money) = money
  BY DEF Written, Money
<1>4. ASSUME NEW o \in Ops \ {"none"},
             o \in {"charge", "release"} => req[r].cents <= money.reserved
      PROVE  Written(r, o, money) \in Money
  <2>1. CASE o = "reserve"
    BY <1>1, <1>2, <1>3, <2>1 DEF Money
  <2>2. CASE o = "upsert"
    BY <1>3, <2>2
  <2>3. CASE o \in {"charge", "release"}
    <3>1. money.reserved - req[r].cents \in Nat
      BY <1>1, <1>2, <1>4, <2>3
    <3>2. QED
      BY <1>1, <1>2, <1>3, <2>3, <3>1 DEF Money
  <2>4. QED
    BY <2>1, <2>2, <2>3 DEF Ops
<1>5. QED
  BY <1>3, <1>4

(* Requests that do not move keep their shape while their locks do. *)
LEMMA OthersKeepShape ==
  ASSUME req \in [Requests -> Workload], NEW q \in Requests, Shape(q),
         UNCHANGED req, op'[q] = op[q], todo'[q] = todo[q], draft'[q] = draft[q], stage'[q] = stage[q],
         \A row \in Rows : lock[row] = q => lock'[row] = q,
         lock[TenantRow(req[q].tenant)] = q => account'[req[q].tenant] = account[req[q].tenant],
         lock[PeriodRow] = q => period' = period
  PROVE  Shape(q)'
<1>1. TenantRow(req[q].tenant) \in Rows /\ PeriodRow \in Rows
  BY RequestFacts, RowFacts
<1>2. TenantWritten(q) => TenantWritten(q)'
  BY <1>1 DEF TenantWritten, Written
<1>3. PeriodWritten(q) => PeriodWritten(q)'
  BY <1>1 DEF PeriodWritten, Written
<1>4. MayStart(q)' = MayStart(q)
  BY DEF MayStart
<1>5. QED
  BY <1>2, <1>3, <1>4 DEF Shape

(* The sums move with the holds. *)
LEMMA StillAgree ==
  ASSUME TypeOK, CommittedRowsAgree, UNCHANGED <<req, account, period>>,
         \A r \in Requests : /\ stage'[r] \in HeldStages <=> stage[r] \in HeldStages
                             /\ stage'[r] = "charged" <=> stage[r] = "charged"
  PROVE  CommittedRowsAgree'
<1>1. \A t \in Tenants : HeldBy(t)' = HeldBy(t) /\ ChargedTo(t)' = ChargedTo(t)
  BY DEF HeldBy, ChargedTo, HeldStages
<1>2. \A S : CentsOf(S)' = CentsOf(S)
  BY DEF CentsOf
<1>3. /\ (UNION {HeldBy(t) : t \in Tenants})' = UNION {HeldBy(t) : t \in Tenants}
      /\ (UNION {ChargedTo(t) : t \in Tenants})' = UNION {ChargedTo(t) : t \in Tenants}
  BY <1>1
<1>4. QED
  BY <1>1, <1>2, <1>3 DEF CommittedRowsAgree

LEMMA EndKeepsBalance ==
  ASSUME Balanced, NEW r \in Requests, NEW next \in Stages, EndTransaction(r, next),
         UNCHANGED rowVars, errors' \in 0..MaxErrors,
         next \in HeldStages <=> stage[r] \in HeldStages,
         next # "charged", stage[r] # "charged"
  PROVE  Balanced'
<1>1. TypeOK /\ Ceilings /\ CommittedRowsAgree /\ \A q \in Requests : Shape(q)
  BY DEF Balanced
<1>2. UNCHANGED <<req, account, period>>
  BY DEF EndTransaction, rowVars
<1>3. TypeOK'
  <2>1. NoMoney \in Money
    BY DEF NoMoney, Money
  <2>2. /\ stage' \in [Requests -> Stages] /\ op' \in [Requests -> Ops]
        /\ todo' \in [Requests -> Seq(Rows)] /\ matched' \in [Requests -> BOOLEAN]
        /\ lock' \in [Rows -> Requests \cup {Nobody}]
    BY <1>1, StoreAssumption DEF EndTransaction, TypeOK, Ops
  <2>3. draft' \in [Requests -> [tenant: Money, period: Money]]
    BY <1>1, <2>1 DEF EndTransaction, TypeOK
  <2>4. QED
    BY <1>1, <1>2, <2>2, <2>3 DEF TypeOK
<1>4. CommittedRowsAgree'
  <2>1. \A q \in Requests : stage'[q] = IF q = r THEN next ELSE stage[q]
    BY <1>1 DEF EndTransaction, TypeOK
  <2>2. QED
    BY <1>1, <1>2, <2>1, StillAgree
<1>5. Ceilings'
  BY <1>1, <1>2 DEF Ceilings
<1>6. ASSUME NEW q \in Requests
      PROVE  Shape(q)'
  <2>1. CASE q = r
    <3>1. op'[r] = "none"
      BY <1>1 DEF EndTransaction, TypeOK
    <3>2. QED
      BY <2>1, <3>1 DEF Shape, MoneyOps
  <2>2. CASE q # r
    <3>1. /\ op'[q] = op[q] /\ todo'[q] = todo[q] /\ draft'[q] = draft[q] /\ stage'[q] = stage[q]
          /\ \A row \in Rows : lock[row] = q => lock'[row] = q
      BY <1>1, <2>2 DEF EndTransaction, TypeOK
    <3>2. req \in [Requests -> Workload] /\ Shape(q)
      BY <1>1 DEF TypeOK
    <3>3. QED
      BY <1>2, <3>1, <3>2, OthersKeepShape
  <2>3. QED
    BY <2>1, <2>2
<1>7. QED
  BY <1>3, <1>4, <1>5, <1>6 DEF Balanced

LEMMA BeginKeepsBalance ==
  ASSUME Balanced, NEW r \in Requests, Begin(r)
  PROVE  Balanced'
<1>1. TypeOK /\ Ceilings /\ CommittedRowsAgree /\ \A q \in Requests : Shape(q)
  BY DEF Balanced
<1>2. PICK o \in MayStart(r) :
        /\ op[r] = "none"
        /\ op' = [op EXCEPT ![r] = o]
        /\ todo' = [todo EXCEPT ![r] = RowsOf(r, o)]
        /\ UNCHANGED <<account, period, lock, req, stage, matched, draft, errors>>
  BY DEF Begin, rowVars
<1>3. RowsOf(r, o) \in Seq(Rows)
  BY <1>1, RowsAscend DEF TypeOK
<1>4. o \in Ops \ {"none"}
  BY <1>2 DEF MayStart, Ops
<1>5. TypeOK'
  BY <1>1, <1>2, <1>3, <1>4 DEF TypeOK
<1>6. CommittedRowsAgree'
  BY <1>1, <1>2, StillAgree
<1>7. Ceilings'
  BY <1>1, <1>2 DEF Ceilings
<1>8. ASSUME NEW q \in Requests, q # r
      PROVE  Shape(q)'
  <2>1. op'[q] = op[q] /\ todo'[q] = todo[q]
    BY <1>1, <1>2, <1>8 DEF TypeOK
  <2>2. req \in [Requests -> Workload] /\ Shape(q)
    BY <1>1 DEF TypeOK
  <2>3. QED
    BY <1>2, <2>1, <2>2, OthersKeepShape
<1>9. Shape(r)'
  <2>1. op'[r] = o /\ todo'[r] = RowsOf(r, o) /\ MayStart(r)' = MayStart(r) /\ req' = req
    BY <1>1, <1>2 DEF TypeOK, MayStart
  <2>2. o \in MoneyOps => RowsOf(r, o) = <<TenantRow(req[r].tenant), PeriodRow>>
    BY DEF MoneyOps, RowsOf
  <2>3. QED
    BY <1>2, <2>1, <2>2 DEF Shape
<1>10. QED
  BY <1>5, <1>6, <1>7, <1>8, <1>9 DEF Balanced

LEMMA MatchKeepsBalance ==
  ASSUME Balanced, NEW r \in Requests, Match(r)
  PROVE  Balanced'
<1>1. TypeOK /\ Ceilings /\ CommittedRowsAgree /\ \A q \in Requests : Shape(q)
  BY DEF Balanced
<1>2. /\ UNCHANGED <<account, period, lock, req, stage, op, todo, draft, errors>>
      /\ matched' = [matched EXCEPT ![r] = TRUE]
  BY DEF Match, rowVars
<1>3. TypeOK'
  BY <1>1, <1>2 DEF TypeOK
<1>4. CommittedRowsAgree'
  BY <1>1, <1>2, StillAgree
<1>5. Ceilings'
  BY <1>1, <1>2 DEF Ceilings
<1>6. ASSUME NEW q \in Requests
      PROVE  Shape(q)'
  BY <1>1, <1>2, OthersKeepShape DEF TypeOK
<1>7. QED
  BY <1>3, <1>4, <1>5, <1>6 DEF Balanced

LEMMA WriteKeepsBalance ==
  ASSUME Balanced, LockOrder, NEW r \in Requests, Write(r)
  PROVE  Balanced'
<1> DEFINE t == req[r].tenant
<1>1. TypeOK /\ Ceilings /\ CommittedRowsAgree /\ \A q \in Requests : Shape(q)
  BY DEF Balanced
<1>2. /\ matched[r] /\ todo[r] # <<>> /\ todo[r] \in Seq(Rows) /\ op[r] # "none"
      /\ op[r] \in Ops /\ op[r] \in MayStart(r)
  BY <1>1 DEF LockOrder, Orderly, Write, TypeOK, Shape
<1>3. PICK row \in Rows : row = Head(todo[r])
  BY <1>2
<1>4. /\ lock[row] = Nobody /\ Qualifies(r, row)
      /\ lock' = [lock EXCEPT ![row] = r]
      /\ draft' =
           CASE row = PeriodRow -> [draft EXCEPT ![r].period = Written(r, op[r], period)]
             [] row = TenantRow(t) -> [draft EXCEPT ![r].tenant = Written(r, op[r], account[t])]
             [] OTHER -> draft
      /\ todo' = [todo EXCEPT ![r] = Tail(@)]
      /\ matched' = [matched EXCEPT ![r] = FALSE]
      /\ UNCHANGED <<account, period, req, stage, op, errors>>
  BY <1>3 DEF Write, rowVars
<1>5. t \in Tenants /\ TenantRow(t) \in Rows /\ PeriodRow \in Rows /\ TenantRow(t) # PeriodRow
  BY <1>1, RequestFacts, RowFacts DEF TypeOK
<1>6. account[t] \in Money /\ period \in Money
  BY <1>1, <1>5 DEF TypeOK
<1>7. Written(r, op[r], account[t]) \in Money /\ Written(r, op[r], period) \in Money
  <2>1. op[r] \in {"charge", "release"} => stage[r] \in HeldStages
    BY <1>2 DEF MayStart, HeldStages
  <2>2. op[r] \in {"charge", "release"} =>
          req[r].cents <= account[t].reserved /\ req[r].cents <= period.reserved
    BY <1>1, <2>1, HoldIsCovered
  <2>3. QED
    BY <1>1, <1>2, <1>6, <2>2, WrittenFacts DEF TypeOK
<1>8. /\ row = PeriodRow => draft' = [draft EXCEPT ![r].period = Written(r, op[r], period)]
      /\ row = TenantRow(t) => draft' = [draft EXCEPT ![r].tenant = Written(r, op[r], account[t])]
      /\ row # PeriodRow /\ row # TenantRow(t) => draft' = draft
  BY <1>4, <1>5
<1>9. TypeOK'
  <2>1. draft' \in [Requests -> [tenant: Money, period: Money]]
    BY <1>1, <1>7, <1>8 DEF TypeOK
  <2>2. Tail(todo[r]) \in Seq(Rows)
    BY <1>2
  <2>3. QED
    BY <1>1, <1>4, <2>1, <2>2 DEF TypeOK
<1>10. CommittedRowsAgree'
  BY <1>1, <1>4, StillAgree
<1>11. Ceilings'
  BY <1>1, <1>4 DEF Ceilings
<1>12. ASSUME NEW q \in Requests, q # r
       PROVE  Shape(q)'
  <2>1. todo'[q] = todo[q] /\ draft'[q] = draft[q]
    BY <1>1, <1>4, <1>8, <1>12 DEF TypeOK
  <2>2. \A other \in Rows : lock[other] = q => lock'[other] = q
    BY <1>1, <1>4, StoreAssumption DEF TypeOK
  <2>3. req \in [Requests -> Workload] /\ Shape(q)
    BY <1>1 DEF TypeOK
  <2>4. QED
    BY <1>4, <2>1, <2>2, <2>3, OthersKeepShape
<1>13. Shape(r)'
  <2>1. op'[r] = op[r] /\ MayStart(r)' = MayStart(r) /\ todo'[r] = Tail(todo[r])
    BY <1>1, <1>4 DEF TypeOK, MayStart
  <2>2. CASE op[r] \notin MoneyOps
    BY <1>2, <2>1, <2>2 DEF Shape
  <2>3. CASE op[r] \in MoneyOps /\ todo[r] = <<TenantRow(t), PeriodRow>>
    <3>1. row = TenantRow(t) /\ todo'[r] = <<PeriodRow>>
      BY <1>3, <2>1, <2>3
    <3>2. lock'[TenantRow(t)] = r
      BY <1>1, <1>4, <1>5, <3>1 DEF TypeOK
    <3>3. draft'[r].tenant = Written(r, op[r], account[t])
      BY <1>1, <1>8, <3>1 DEF TypeOK
    <3>4. op[r] = "reserve" => account[t].committed + account[t].reserved + req[r].cents <= Allowance
      BY <1>4, <1>5, <3>1 DEF Qualifies
    <3>5. TenantWritten(r)'
      BY <1>4, <2>1, <3>2, <3>3, <3>4 DEF TenantWritten, Written
    <3>6. QED
      BY <1>2, <2>1, <3>1, <3>5 DEF Shape
  <2>4. CASE op[r] \in MoneyOps /\ todo[r] = <<PeriodRow>> /\ TenantWritten(r)
    <3>1. row = PeriodRow /\ todo'[r] = <<>>
      BY <1>3, <2>1, <2>4
    <3>2. lock'[PeriodRow] = r /\ lock'[TenantRow(t)] = r
      BY <1>1, <1>4, <1>5, <2>4, <3>1 DEF TypeOK, TenantWritten
    <3>3. draft'[r].period = Written(r, op[r], period) /\ draft'[r].tenant = draft[r].tenant
      BY <1>1, <1>8, <3>1 DEF TypeOK
    <3>4. op[r] = "reserve" => period.committed + period.reserved + req[r].cents <= Cap
      BY <1>4, <3>1 DEF Qualifies
    <3>5. TenantWritten(r)'
      BY <1>4, <2>1, <2>4, <3>2, <3>3 DEF TenantWritten, Written
    <3>6. PeriodWritten(r)'
      BY <1>4, <2>1, <3>2, <3>3, <3>4 DEF PeriodWritten, Written
    <3>7. QED
      BY <1>2, <2>1, <3>1, <3>5, <3>6 DEF Shape
  <2>5. QED
    BY <1>1, <1>2, <2>2, <2>3, <2>4 DEF Shape
<1>14. QED
  BY <1>9, <1>10, <1>11, <1>12, <1>13 DEF Balanced

LEMMA CentsRemove ==
  ASSUME req \in [Requests -> Workload], NEW S \in SUBSET Requests, NEW r \in S
  PROVE  CentsOf(S \ {r}) = CentsOf(S) - req[r].cents
<1>1. PICK rest \in SUBSET Requests : r \notin rest /\ S = rest \cup {r} /\ rest = S \ {r}
  <2>1. S \ {r} \in SUBSET Requests /\ r \notin S \ {r} /\ S = (S \ {r}) \cup {r}
    OBVIOUS
  <2>2. QED
    BY <2>1
<1>2. CentsOf(rest) \in Nat /\ CentsOf(rest \cup {r}) = CentsOf(rest) + req[r].cents
  BY <1>1, CentsAdd
<1>3. req[r].cents \in Nat
  BY RequestFacts
<1>4. CentsOf(S) = CentsOf(rest) + req[r].cents
  BY <1>1, <1>2
<1>5. CentsOf(rest) = CentsOf(S) - req[r].cents
  BY <1>2, <1>3, <1>4
<1>6. QED
  BY <1>1, <1>5

(* What a COMMIT of a transaction on money leaves in the rows. *)
LEMMA CommitFacts ==
  ASSUME Balanced, NEW r \in Requests, Commit(r), op[r] # "upsert"
  PROVE  LET t == req[r].tenant IN
         /\ op[r] \in MoneyOps /\ TenantWritten(r) /\ PeriodWritten(r)
         /\ account' = [account EXCEPT ![t] = Written(r, op[r], account[t])]
         /\ period' = Written(r, op[r], period)
         /\ account[t] \in Money /\ Written(r, op[r], account[t]) \in Money
         /\ period \in Money /\ Written(r, op[r], period) \in Money
         /\ stage' = [stage EXCEPT ![r] = AfterCommit(r)]
         /\ op[r] = "reserve" => stage[r] = "arrived"
         /\ op[r] \in {"charge", "release"} =>
              /\ stage[r] \in HeldStages
              /\ req[r].cents <= account[t].reserved /\ req[r].cents <= period.reserved
<1> DEFINE t == req[r].tenant
<1>1. TypeOK /\ CommittedRowsAgree /\ Shape(r)
  BY DEF Balanced
<1>2. t \in Tenants
  BY <1>1, RequestFacts DEF TypeOK
<1>3. op[r] \in MoneyOps /\ todo[r] = <<>> /\ op[r] \in MayStart(r)
  BY <1>1 DEF Commit, TypeOK, Ops, MoneyOps, Shape
<1>4. TenantWritten(r) /\ PeriodWritten(r)
  BY <1>1, <1>3 DEF Shape
<1>5. /\ account' = [account EXCEPT ![t] = Written(r, op[r], account[t])]
      /\ period' = Written(r, op[r], period)
  BY <1>4 DEF Commit, TenantWritten, PeriodWritten
<1>6. /\ op[r] = "reserve" => stage[r] = "arrived"
      /\ op[r] \in {"charge", "release"} => stage[r] \in HeldStages
  BY <1>1, <1>3 DEF MayStart, HeldStages
<1>7. op[r] \in {"charge", "release"} =>
        req[r].cents <= account[t].reserved /\ req[r].cents <= period.reserved
  BY <1>1, <1>6, HoldIsCovered
<1>8. account[t] \in Money /\ period \in Money /\ op[r] \in Ops \ {"none"}
  BY <1>1, <1>2, <1>3 DEF TypeOK, MoneyOps, Ops
<1>9. Written(r, op[r], account[t]) \in Money /\ Written(r, op[r], period) \in Money
  BY <1>1, <1>7, <1>8, WrittenFacts DEF TypeOK
<1>10. stage' = [stage EXCEPT ![r] = AfterCommit(r)]
  BY DEF Commit, EndTransaction
<1>11. QED
  BY <1>3, <1>4, <1>5, <1>6, <1>7, <1>8, <1>9, <1>10

LEMMA CommitKeepsAgreement ==
  ASSUME Balanced, NEW r \in Requests, Commit(r), op[r] # "upsert"
  PROVE  CommittedRowsAgree'
<1> DEFINE Held == {q \in Requests : stage[q] \in HeldStages}
           Charged == {q \in Requests : stage[q] = "charged"}
<1>1. TypeOK /\ CommittedRowsAgree
  BY DEF Balanced
<1>17. PICK t \in Tenants, c \in Nat : t = req[r].tenant /\ c = req[r].cents
  BY <1>1, RequestFacts DEF TypeOK
<1>2. /\ req \in [Requests -> Workload] /\ t \in Tenants /\ c \in Nat /\ req' = req
      /\ t = req[r].tenant /\ c = req[r].cents
  BY <1>1, <1>17 DEF TypeOK, Commit, EndTransaction
<1>3. /\ op[r] \in MoneyOps
      /\ account' = [account EXCEPT ![t] = Written(r, op[r], account[t])]
      /\ period' = Written(r, op[r], period)
      /\ account[t] \in Money /\ period \in Money
      /\ op[r] = "reserve" => stage[r] = "arrived"
      /\ op[r] \in {"charge", "release"} => stage[r] \in HeldStages
  BY <1>2, CommitFacts
<1>4. \A q \in Requests : stage'[q] = IF q = r THEN AfterCommit(r) ELSE stage[q]
  BY <1>1, CommitFacts DEF TypeOK
<1>5. \A S : CentsOf(S)' = CentsOf(S)
  BY <1>2 DEF CentsOf
<1>6. \A u \in Tenants : u # t =>
        account'[u] = account[u] /\ HeldBy(u)' = HeldBy(u) /\ ChargedTo(u)' = ChargedTo(u)
  BY <1>1, <1>2, <1>3, <1>4 DEF HeldBy, ChargedTo, TypeOK
<1>7. account'[t] = Written(r, op[r], account[t])
  BY <1>1, <1>2, <1>3 DEF TypeOK
<1>8. /\ UNION {HeldBy(u) : u \in Tenants} = Held
      /\ UNION {ChargedTo(u) : u \in Tenants} = Charged
  BY <1>2, HeldFacts
<1>9. /\ (UNION {HeldBy(u) : u \in Tenants})' = {q \in Requests : stage'[q] \in HeldStages}
      /\ (UNION {ChargedTo(u) : u \in Tenants})' = {q \in Requests : stage'[q] = "charged"}
  <2>1. \A q \in Requests : req'[q].tenant \in Tenants
    BY <1>2, RequestFacts
  <2>2. QED
    BY <2>1 DEF HeldBy, ChargedTo, HeldStages
<1>10. /\ HeldBy(t) \in SUBSET Requests /\ ChargedTo(t) \in SUBSET Requests
       /\ Held \in SUBSET Requests /\ Charged \in SUBSET Requests
  BY DEF HeldBy, ChargedTo
<1>11. /\ account[t].reserved = CentsOf(HeldBy(t)) /\ account[t].committed = CentsOf(ChargedTo(t))
       /\ period.reserved = CentsOf(Held) /\ period.committed = CentsOf(Charged)
  BY <1>1, <1>2, <1>8 DEF CommittedRowsAgree
<1>12. SUFFICES
         /\ account'[t].reserved = CentsOf(HeldBy(t)')
         /\ account'[t].committed = CentsOf(ChargedTo(t)')
         /\ period'.reserved = CentsOf({q \in Requests : stage'[q] \in HeldStages})
         /\ period'.committed = CentsOf({q \in Requests : stage'[q] = "charged"})
  <2>1. \A u \in Tenants : u # t =>
          account'[u].reserved = CentsOf(HeldBy(u))' /\ account'[u].committed = CentsOf(ChargedTo(u))'
    BY <1>1, <1>5, <1>6 DEF CommittedRowsAgree
  <2>2. \A u \in Tenants :
          CentsOf(HeldBy(u))' = CentsOf(HeldBy(u)') /\ CentsOf(ChargedTo(u))' = CentsOf(ChargedTo(u)')
    BY <1>2 DEF CentsOf
  <2>3. /\ CentsOf(UNION {HeldBy(u) : u \in Tenants})'
             = CentsOf({q \in Requests : stage'[q] \in HeldStages})
        /\ CentsOf(UNION {ChargedTo(u) : u \in Tenants})'
             = CentsOf({q \in Requests : stage'[q] = "charged"})
    BY <1>2, <1>9 DEF CentsOf
  <2>4. ASSUME NEW u \in Tenants
        PROVE  /\ account'[u].reserved = CentsOf(HeldBy(u))'
               /\ account'[u].committed = CentsOf(ChargedTo(u))'
    <3>1. CASE u = t
      BY <1>12, <2>2, <3>1
    <3>2. CASE u # t
      BY <2>1, <3>2
    <3>3. QED
      BY <3>1, <3>2
  <2>5. QED
    BY <1>12, <2>3, <2>4 DEF CommittedRowsAgree
<1>13. CASE op[r] = "reserve"
  <2>1. stage[r] = "arrived" /\ AfterCommit(r) = "held"
    BY <1>3, <1>13 DEF AfterCommit
  <2>2. /\ HeldBy(t)' = HeldBy(t) \cup {r} /\ ChargedTo(t)' = ChargedTo(t)
        /\ r \notin HeldBy(t) /\ r \notin Held
        /\ {q \in Requests : stage'[q] \in HeldStages} = Held \cup {r}
        /\ {q \in Requests : stage'[q] = "charged"} = Charged
    BY <1>2, <1>4, <2>1 DEF HeldBy, ChargedTo, HeldStages
  <2>3. CentsOf(HeldBy(t) \cup {r}) = CentsOf(HeldBy(t)) + c /\ CentsOf(Held \cup {r}) = CentsOf(Held) + c
    <3> HIDE DEF Held
    <3> QED
      BY <1>2, <1>10, <2>2, CentsAdd
  <2>4. /\ account'[t].reserved = account[t].reserved + c /\ account'[t].committed = account[t].committed
        /\ period'.reserved = period.reserved + c /\ period'.committed = period.committed
    BY <1>2, <1>3, <1>7, <1>13, WrittenFacts
  <2> HIDE DEF Held, Charged
  <2>5. QED
    BY <1>11, <2>2, <2>3, <2>4
<1>14. CASE op[r] = "release"
  <2>1. stage[r] \in HeldStages /\ AfterCommit(r) = "released"
    BY <1>3, <1>14 DEF AfterCommit
  <2>2. /\ HeldBy(t)' = HeldBy(t) \ {r} /\ ChargedTo(t)' = ChargedTo(t)
        /\ r \in HeldBy(t) /\ r \in Held
        /\ {q \in Requests : stage'[q] \in HeldStages} = Held \ {r}
        /\ {q \in Requests : stage'[q] = "charged"} = Charged
    BY <1>2, <1>4, <2>1 DEF HeldBy, ChargedTo, HeldStages
  <2>3. CentsOf(HeldBy(t) \ {r}) = CentsOf(HeldBy(t)) - c /\ CentsOf(Held \ {r}) = CentsOf(Held) - c
    <3> HIDE DEF Held
    <3> QED
      BY <1>2, <1>10, <2>2, CentsRemove
  <2>4. /\ account'[t].reserved = account[t].reserved - c /\ account'[t].committed = account[t].committed
        /\ period'.reserved = period.reserved - c /\ period'.committed = period.committed
    BY <1>2, <1>3, <1>7, <1>14, WrittenFacts
  <2> HIDE DEF Held, Charged
  <2>5. QED
    BY <1>11, <2>2, <2>3, <2>4
<1>15. CASE op[r] = "charge"
  <2>1. stage[r] \in HeldStages /\ AfterCommit(r) = "charged"
    BY <1>3, <1>15 DEF AfterCommit
  <2>2. /\ HeldBy(t)' = HeldBy(t) \ {r} /\ ChargedTo(t)' = ChargedTo(t) \cup {r}
        /\ r \in HeldBy(t) /\ r \in Held /\ r \notin ChargedTo(t) /\ r \notin Charged
        /\ {q \in Requests : stage'[q] \in HeldStages} = Held \ {r}
        /\ {q \in Requests : stage'[q] = "charged"} = Charged \cup {r}
    BY <1>2, <1>4, <2>1 DEF HeldBy, ChargedTo, HeldStages
  <2>3. /\ CentsOf(HeldBy(t) \ {r}) = CentsOf(HeldBy(t)) - c /\ CentsOf(Held \ {r}) = CentsOf(Held) - c
        /\ CentsOf(ChargedTo(t) \cup {r}) = CentsOf(ChargedTo(t)) + c
        /\ CentsOf(Charged \cup {r}) = CentsOf(Charged) + c
    <3> HIDE DEF Held, Charged
    <3> QED
      BY <1>2, <1>10, <2>2, CentsAdd, CentsRemove
  <2>4. /\ account'[t].reserved = account[t].reserved - c
        /\ account'[t].committed = account[t].committed + c
        /\ period'.reserved = period.reserved - c /\ period'.committed = period.committed + c
    BY <1>2, <1>3, <1>7, <1>15, WrittenFacts
  <2> HIDE DEF Held, Charged
  <2>5. QED
    BY <1>11, <2>2, <2>3, <2>4
<1>16. QED
  BY <1>3, <1>13, <1>14, <1>15 DEF MoneyOps

LEMMA CommitKeepsBalance ==
  ASSUME Balanced, NEW r \in Requests, Commit(r)
  PROVE  Balanced'
<1>1. TypeOK /\ Ceilings /\ CommittedRowsAgree /\ \A q \in Requests : Shape(q)
  BY DEF Balanced
<1>2. AfterCommit(r) \in Stages /\ errors \in 0..MaxErrors
  BY <1>1 DEF AfterCommit, Stages, TypeOK
<1>3. CASE op[r] = "upsert"
  <2>1. stage[r] = "held"
    BY <1>1, <1>3 DEF Shape, MayStart
  <2>2. AfterCommit(r) = "stored"
    BY <1>3 DEF AfterCommit
  <2>3. EndTransaction(r, "stored") /\ UNCHANGED rowVars /\ errors' = errors
    BY <1>3, <2>2 DEF Commit
  <2>4. QED
    BY <1>2, <2>1, <2>2, <2>3, EndKeepsBalance DEF HeldStages
<1>4. CASE op[r] # "upsert"
  <2>1. PICK t \in Tenants, c \in Nat : t = req[r].tenant /\ c = req[r].cents
    BY <1>1, RequestFacts DEF TypeOK
  <2>2. /\ op[r] \in MoneyOps /\ TenantWritten(r) /\ PeriodWritten(r)
        /\ account' = [account EXCEPT ![t] = Written(r, op[r], account[t])]
        /\ period' = Written(r, op[r], period)
        /\ account[t] \in Money /\ Written(r, op[r], account[t]) \in Money
        /\ period \in Money /\ Written(r, op[r], period) \in Money
        /\ op[r] \in {"charge", "release"} =>
             c <= account[t].reserved /\ c <= period.reserved
    BY <1>4, <2>1, CommitFacts
  <2>3. EndTransaction(r, AfterCommit(r)) /\ errors' = errors
    BY DEF Commit
  <2>4. TypeOK'
    <3>1. NoMoney \in Money
      BY DEF NoMoney, Money
    <3>2. /\ stage' \in [Requests -> Stages] /\ op' \in [Requests -> Ops]
          /\ todo' \in [Requests -> Seq(Rows)] /\ matched' \in [Requests -> BOOLEAN]
          /\ lock' \in [Rows -> Requests \cup {Nobody}] /\ req' = req
      BY <1>1, <1>2, <2>3, StoreAssumption DEF EndTransaction, TypeOK, Ops
    <3>3. draft' \in [Requests -> [tenant: Money, period: Money]]
      BY <1>1, <2>3, <3>1 DEF EndTransaction, TypeOK
    <3>4. account' \in [Tenants -> Money] /\ period' \in Money
      BY <1>1, <2>2 DEF TypeOK
    <3>5. QED
      BY <1>1, <1>2, <2>3, <3>2, <3>3, <3>4 DEF TypeOK
  <2>5. Ceilings'
    <3>1. \A u \in Tenants : account'[u] = IF u = t THEN Written(r, op[r], account[t]) ELSE account[u]
      BY <1>1, <2>2 DEF TypeOK
    <3>2. /\ account[t].reserved \in Nat /\ account[t].committed \in Nat
          /\ period.reserved \in Nat /\ period.committed \in Nat
          /\ account[t].committed + account[t].reserved <= Allowance
          /\ period.committed + period.reserved <= Cap
      BY <1>1, <2>2 DEF Money, Ceilings
    <3>3. Allowance \in Nat /\ Cap \in Nat
      BY StoreAssumption
    <3>4. /\ Written(r, op[r], account[t]).committed + Written(r, op[r], account[t]).reserved <= Allowance
          /\ Written(r, op[r], period).committed + Written(r, op[r], period).reserved <= Cap
      <4>1. CASE op[r] = "reserve"
        <5>1. /\ account[t].committed + account[t].reserved + c <= Allowance
              /\ period.committed + period.reserved + c <= Cap
          BY <2>1, <2>2, <4>1 DEF TenantWritten, PeriodWritten
        <5>2. /\ Written(r, op[r], account[t])
                   = [reserved |-> account[t].reserved + c, committed |-> account[t].committed]
              /\ Written(r, op[r], period)
                   = [reserved |-> period.reserved + c, committed |-> period.committed]
          BY <1>1, <2>1, <2>2, <4>1, WrittenFacts DEF TypeOK
        <5>3. QED
          BY <2>1, <3>2, <3>3, <5>1, <5>2
      <4>2. CASE op[r] = "charge"
        <5>1. /\ Written(r, op[r], account[t])
                   = [reserved |-> account[t].reserved - c, committed |-> account[t].committed + c]
              /\ Written(r, op[r], period)
                   = [reserved |-> period.reserved - c, committed |-> period.committed + c]
          BY <1>1, <2>1, <2>2, <4>2, WrittenFacts DEF TypeOK
        <5>2. QED
          BY <2>1, <3>2, <3>3, <5>1
      <4>3. CASE op[r] = "release"
        <5>1. /\ Written(r, op[r], account[t])
                   = [reserved |-> account[t].reserved - c, committed |-> account[t].committed]
              /\ Written(r, op[r], period)
                   = [reserved |-> period.reserved - c, committed |-> period.committed]
          BY <1>1, <2>1, <2>2, <4>3, WrittenFacts DEF TypeOK
        <5>2. QED
          BY <2>1, <3>2, <3>3, <5>1
      <4>4. QED
        BY <2>2, <4>1, <4>2, <4>3 DEF MoneyOps
    <3>5. QED
      BY <1>1, <2>2, <3>1, <3>4 DEF Ceilings
  <2>6. CommittedRowsAgree'
    BY <1>4, CommitKeepsAgreement
  <2>7. ASSUME NEW q \in Requests
        PROVE  Shape(q)'
    <3>1. CASE q = r
      <4>1. op'[r] = "none"
        BY <1>1, <2>3 DEF EndTransaction, TypeOK
      <4>2. QED
        BY <3>1, <4>1 DEF Shape, MoneyOps
    <3>2. CASE q # r
      <4>1. /\ op'[q] = op[q] /\ todo'[q] = todo[q] /\ draft'[q] = draft[q] /\ stage'[q] = stage[q]
            /\ \A row \in Rows : lock[row] = q => lock'[row] = q
            /\ req' = req
        BY <1>1, <2>3, <3>2 DEF EndTransaction, TypeOK
      <4>2. req \in [Requests -> Workload] /\ Shape(q)
        BY <1>1 DEF TypeOK
      <4>3. lock[TenantRow(t)] = r /\ lock[PeriodRow] = r
        BY <2>1, <2>2 DEF TenantWritten, PeriodWritten
      <4>4. lock[TenantRow(req[q].tenant)] = q => account'[req[q].tenant] = account[req[q].tenant]
        BY <1>1, <2>2, <3>2, <4>3 DEF TypeOK
      <4>5. QED
        BY <3>2, <4>1, <4>2, <4>3, <4>4, OthersKeepShape
    <3>3. QED
      BY <3>1, <3>2
  <2>8. QED
    BY <2>4, <2>5, <2>6, <2>7 DEF Balanced
<1>5. QED
  BY <1>3, <1>4

(* A transaction that is refused or fails commits nothing. *)
LEMMA UnwindKeepsBalance ==
  ASSUME Balanced, NEW r \in Requests, Refuse(r) \/ Fail(r)
  PROVE  Balanced'
<1>1. TypeOK /\ Shape(r)
  BY DEF Balanced
<1>2. errors \in 0..MaxErrors /\ MaxErrors \in Nat
  BY <1>1, StoreAssumption DEF TypeOK
<1>3. op[r] \in MayStart(r)
  BY <1>1 DEF Shape, Refuse, Fail
<1>4. CASE Refuse(r)
  <2>1. op[r] = "reserve"
    BY <1>4 DEF Refuse, Qualifies
  <2>2. stage[r] = "arrived"
    BY <1>3, <2>1 DEF MayStart
  <2>3. EndTransaction(r, "refused") /\ UNCHANGED rowVars /\ errors' = errors
    BY <1>4 DEF Refuse
  <2>4. QED
    BY <1>2, <2>2, <2>3, EndKeepsBalance DEF HeldStages, Stages
<1>5. CASE Fail(r)
  <2>1. EndTransaction(r, AfterError(r)) /\ UNCHANGED rowVars /\ errors' \in 0..MaxErrors
    BY <1>2, <1>5 DEF Fail
  <2>2. /\ AfterError(r) \in Stages /\ AfterError(r) # "charged" /\ stage[r] # "charged"
        /\ AfterError(r) \in HeldStages <=> stage[r] \in HeldStages
    BY <1>3 DEF AfterError, MayStart, HeldStages, Stages
  <2>3. QED
    BY <2>1, <2>2, EndKeepsBalance
<1>6. QED
  BY <1>4, <1>5

LEMMA CentsOfNobody == CentsOf({}) = 0
<1>1. {u \in {} \X (1..MaxCents) : u[2] <= req[u[1]].cents} = {}
  OBVIOUS
<1>2. QED
  BY <1>1, FS_EmptySet DEF CentsOf

LEMMA BalancedHolds == Spec => []Balanced
<1>1. Init => Balanced
  <2>1. SUFFICES ASSUME Init
                 PROVE  Balanced
    OBVIOUS
  <2>2. TypeOK
    BY <2>1, StoreAssumption DEF Init, TypeOK, NoMoney, Money, Stages, Ops
  <2>3. Ceilings
    BY <2>1, StoreAssumption DEF Init, Ceilings, NoMoney
  <2>4. CommittedRowsAgree
    <3>1. \A t \in Tenants : HeldBy(t) = {} /\ ChargedTo(t) = {}
      BY <2>1 DEF Init, HeldBy, ChargedTo
    <3>2. UNION {HeldBy(t) : t \in Tenants} = {} /\ UNION {ChargedTo(t) : t \in Tenants} = {}
      BY <3>1
    <3>3. QED
      BY <2>1, <3>1, <3>2, CentsOfNobody DEF Init, CommittedRowsAgree, NoMoney
  <2>5. \A r \in Requests : Shape(r)
    BY <2>1 DEF Init, Shape, MoneyOps
  <2>6. QED
    BY <2>2, <2>3, <2>4, <2>5 DEF Balanced
<1>2. Balanced /\ LockOrder /\ [Next]_vars => Balanced'
  <2>1. ASSUME Balanced, UNCHANGED vars
        PROVE  Balanced'
    <3>1. UNCHANGED <<account, period, lock, req, stage, op, todo, matched, draft, errors>>
      BY <2>1 DEF vars
    <3>2. TypeOK /\ Ceilings /\ CommittedRowsAgree /\ \A q \in Requests : Shape(q)
      BY <2>1 DEF Balanced
    <3>3. TypeOK' /\ Ceilings'
      BY <3>1, <3>2 DEF TypeOK, Ceilings
    <3>4. CommittedRowsAgree'
      BY <3>1, <3>2, StillAgree
    <3>5. \A q \in Requests : Shape(q)'
      BY <3>1, <3>2, OthersKeepShape DEF TypeOK
    <3>6. QED
      BY <3>3, <3>4, <3>5 DEF Balanced
  <2>2. QED
    BY <2>1, BeginKeepsBalance, MatchKeepsBalance, WriteKeepsBalance, CommitKeepsBalance,
       UnwindKeepsBalance DEF Next, Step, Rest
<1>3. QED
  BY <1>1, <1>2, LockOrderHolds, PTL DEF Spec

(* The rows and the open transactions keep their types, and no row its money
   below zero (the CHECKs of schema.py).                                     *)
THEOREM TypeCorrect == Spec => []TypeOK
<1>1. Balanced => TypeOK
  BY DEF Balanced
<1>2. QED
  BY <1>1, BalancedHolds, PTL

(* In every committed state, whatever runs beside it and wherever it fails, a
   request's cents are in exactly one place and the rows add up.            *)
THEOREM CommittedRowsAlwaysAgree == Spec => []CommittedRowsAgree
<1>1. Balanced => CommittedRowsAgree
  BY DEF Balanced
<1>2. QED
  BY <1>1, BalancedHolds, PTL

-----------------------------------------------------------------------------
(* The committed rows move by whole transactions of SpendPartition: the commit
   of a reservation authorises, that of a release gives back, that of a charge
   bills, each with the room it needs when it takes effect; everything else
   leaves the three figures alone.                                           *)
THEOREM CommitsWholeTransactionsHolds == Spec => CommitsWholeTransactions
<1> DEFINE Authorised == [t \in Tenants |-> account[t].committed + account[t].reserved]
           Pool == period.committed + period.reserved
           Billed == [t \in Tenants |-> account[t].committed]
<1>1. Init => Partition!Init
  BY DEF Init, NoMoney, Partition!Init
<1>2. ASSUME UNCHANGED <<account, period>>
      PROVE  UNCHANGED Partition!partitionVars
  BY <1>2 DEF Partition!partitionVars
<1>3. ASSUME Balanced, NEW r \in Requests, Commit(r), op[r] # "upsert"
      PROVE  Partition!Next
  <2>1. TypeOK /\ Ceilings
    BY <1>3 DEF Balanced
  <2>2. PICK t \in Tenants, c \in Nat : t = req[r].tenant /\ c = req[r].cents
    BY <2>1, RequestFacts DEF TypeOK
  <2>3. /\ op[r] \in MoneyOps /\ TenantWritten(r) /\ PeriodWritten(r)
        /\ account' = [account EXCEPT ![t] = Written(r, op[r], account[t])]
        /\ period' = Written(r, op[r], period)
        /\ account[t] \in Money /\ period \in Money
        /\ op[r] \in {"charge", "release"} =>
             c <= account[t].reserved /\ c <= period.reserved
    BY <1>3, <2>2, CommitFacts
  <2>4. \A u \in Tenants : account[u].committed \in Nat /\ account[u].reserved \in Nat
    BY <2>1 DEF TypeOK, Money
  <2>5. period.committed \in Nat /\ period.reserved \in Nat
    BY <2>3 DEF Money
  <2>6. account[t].committed + account[t].reserved <= Allowance /\ Allowance \in Nat /\ Cap \in Nat
    BY <2>1, StoreAssumption DEF Ceilings
  <2>7. \A u \in Tenants : account'[u] = IF u = t THEN Written(r, op[r], account[t]) ELSE account[u]
    BY <2>1, <2>3 DEF TypeOK
  <2>8. CASE op[r] = "reserve"
    <3>1. /\ account[t].committed + account[t].reserved + c <= Allowance
          /\ period.committed + period.reserved + c <= Cap
      BY <2>2, <2>3, <2>8 DEF TenantWritten, PeriodWritten
    <3>2. /\ Written(r, op[r], account[t])
               = [reserved |-> account[t].reserved + c, committed |-> account[t].committed]
          /\ period' = [reserved |-> period.reserved + c, committed |-> period.committed]
      BY <2>1, <2>2, <2>3, <2>8, WrittenFacts DEF TypeOK
    <3>3. c \in 0..Allowance
      BY <2>2, <2>4, <2>6, <3>1
    <3>4. Authorised' = [Authorised EXCEPT ![t] = @ + c]
      <4>1. \A u \in Tenants :
              account'[u].committed + account'[u].reserved
                = IF u = t THEN account[u].committed + account[u].reserved + c
                           ELSE account[u].committed + account[u].reserved
        BY <2>2, <2>4, <2>7, <3>2
      <4>2. QED
        BY <4>1
    <3>5. Pool' = Pool + c
      BY <2>2, <2>5, <3>2
    <3>6. Billed' = Billed
      BY <2>7, <3>2
    <3>7. Partition!Authorise(t, c)
      BY <3>1, <3>4, <3>5, <3>6 DEF Partition!Authorise
    <3>8. QED
      BY <3>3, <3>7 DEF Partition!Next
  <2>9. CASE op[r] = "release"
    <3>1. /\ Written(r, op[r], account[t])
               = [reserved |-> account[t].reserved - c, committed |-> account[t].committed]
          /\ period' = [reserved |-> period.reserved - c, committed |-> period.committed]
      BY <2>1, <2>2, <2>3, <2>9, WrittenFacts DEF TypeOK
    <3>2. c <= account[t].reserved /\ c <= period.reserved
      BY <2>3, <2>9
    <3>3. c \in 0..Allowance
      BY <2>2, <2>4, <2>6, <3>2
    <3>4. Authorised' = [Authorised EXCEPT ![t] = @ - c]
      <4>1. \A u \in Tenants :
              account'[u].committed + account'[u].reserved
                = IF u = t THEN (account[u].committed + account[u].reserved) - c
                           ELSE account[u].committed + account[u].reserved
        BY <2>2, <2>4, <2>7, <3>1
      <4>2. QED
        BY <4>1
    <3>5. Pool' = Pool - c /\ c <= Pool
      BY <2>2, <2>5, <3>1, <3>2
    <3>6. Billed' = Billed
      BY <2>7, <3>1
    <3>7. account[t].committed + c <= account[t].committed + account[t].reserved
      BY <2>2, <2>4, <3>2
    <3>8. Partition!Return(t, c)
      BY <3>4, <3>5, <3>6, <3>7 DEF Partition!Return
    <3>9. QED
      BY <3>3, <3>8 DEF Partition!Next
  <2>10. CASE op[r] = "charge"
    <3>1. /\ Written(r, op[r], account[t])
               = [reserved |-> account[t].reserved - c, committed |-> account[t].committed + c]
          /\ period' = [reserved |-> period.reserved - c, committed |-> period.committed + c]
      BY <2>1, <2>2, <2>3, <2>10, WrittenFacts DEF TypeOK
    <3>2. c <= account[t].reserved
      BY <2>3, <2>10
    <3>3. c \in 0..Allowance
      BY <2>2, <2>4, <2>6, <3>2
    <3>4. Authorised' = Authorised
      <4>1. \A u \in Tenants :
              account'[u].committed + account'[u].reserved = account[u].committed + account[u].reserved
        BY <2>2, <2>4, <2>7, <3>1
      <4>2. QED
        BY <4>1
    <3>5. Pool' = Pool
      BY <2>2, <2>5, <3>1
    <3>6. Billed' = [Billed EXCEPT ![t] = @ + c]
      BY <2>2, <2>4, <2>7, <3>1
    <3>7. account[t].committed + c <= account[t].committed + account[t].reserved
      BY <2>2, <2>4, <3>2
    <3>8. Partition!Bill(t, c)
      BY <3>4, <3>5, <3>6, <3>7 DEF Partition!Bill
    <3>9. QED
      BY <3>3, <3>8 DEF Partition!Next
  <2>11. QED
    BY <2>3, <2>8, <2>9, <2>10 DEF MoneyOps
<1>4. ASSUME Balanced, [Next]_vars
      PROVE  [Partition!Next]_Partition!partitionVars
  <2>1. ASSUME NEW r \in Requests, Begin(r) \/ Match(r) \/ Write(r) \/ Refuse(r) \/ Fail(r)
                                     \/ (Commit(r) /\ op[r] = "upsert")
        PROVE  UNCHANGED <<account, period>>
    BY <2>1 DEF Begin, Match, Write, Refuse, Fail, Commit, rowVars
  <2>2. QED
    BY <1>2, <1>3, <1>4, <2>1 DEF Next, Step, Rest, vars
<1>5. QED
  BY <1>1, <1>4, BalancedHolds, PTL DEF Spec, CommitsWholeTransactions, Partition!Spec
=============================================================================
