------------------------- MODULE StoreTransactions -------------------------
(***************************************************************************)
(* The inside of the store's transactions: their statements one by one,    *)
(* the row locks PostgreSQL takes for them and the READ COMMITTED rule by  *)
(* which an UPDATE first matches its row in the statement's snapshot, then *)
(* waits for the row and evaluates its predicate again on what it finds.   *)
(*                                                                         *)
(* Every metered request runs reserve, then upsert_records, then settle;   *)
(* one that was shed releases instead, and one whose call or completion    *)
(* failed settles in its except block. SecurePipeline takes each of these  *)
(* as one step; here many requests of several replicas interleave inside   *)
(* them. PostgreSQL itself is modelled from how store.py relies on it.     *)
(***************************************************************************)
EXTENDS Naturals, FiniteSets, Sequences

CONSTANTS
  Tenants,     (* tenants with a row in tenant_allowances                    *)
  Requests,    (* metered requests, each with a connection of its own        *)
  Workload,    (* what a request may be: see Descriptor                      *)
  Keys,        (* record_id values; the order of numbers is that of strings  *)
  MaxEntries,  (* no payload names more companies                            *)
  MaxCents,    (* no request is worth more                                   *)
  Allowance,   (* allowance_cents of every tenant row                        *)
  Cap,         (* cap_cents of the spend_periods row                         *)
  MaxErrors    (* budget of failed statements, lost connections and COMMITs  *)

(* records: the record ids a request writes, in the order of its payload. *)
Payloads   == UNION {[1..n -> Keys] : n \in 0..MaxEntries}
Descriptor == [tenant: Tenants, cents: 0..MaxCents, records: Payloads]

Nobody == "nobody"   (* holds the rows that nobody has locked *)

ASSUME StoreAssumption ==
  /\ IsFiniteSet(Requests) /\ IsFiniteSet(Keys) /\ Keys \subseteq Nat
  /\ Nobody \notin Requests
  /\ Workload \subseteq Descriptor /\ Workload # {}
  /\ MaxEntries \in Nat /\ MaxCents \in Nat
  /\ Allowance \in Nat /\ Cap \in Nat /\ MaxErrors \in Nat

VARIABLES
  account,   (* committed tenant_allowances rows: reserved, committed        *)
  period,    (* the committed spend_periods row: reserved, committed         *)
  lock,      (* who has written a row and not yet committed                  *)
  req,       (* what each request is                                         *)
  stage,     (* where each request stands between its transactions           *)
  op,        (* the operation whose transaction is open, or "none"           *)
  todo,      (* the rows its statements have still to write                  *)
  matched,   (* the next statement has matched its row in its snapshot       *)
  draft,     (* the uncommitted versions a request has written               *)
  errors     (* failures injected so far                                     *)

rowVars == <<account, period>>
txnVars == <<op, todo, matched, draft>>
vars == <<account, period, lock, req, stage, op, todo, matched, draft, errors>>

-----------------------------------------------------------------------------
TenantRow(t) == <<"tenant", t>>
PeriodRow    == <<"period">>
RecordRow(k) == <<"record", k>>
Rows == {TenantRow(t) : t \in Tenants} \cup {PeriodRow} \cup {RecordRow(k) : k \in Keys}

Money  == [reserved: Nat, committed: Nat]
Stages == {"arrived", "held", "stored", "unwinding", "charged", "released",
           "refused", "unavailable", "stranded"}
Ops    == {"none", "reserve", "upsert", "charge", "release"}
Ended(r) ==
  stage[r] \in {"charged", "released", "refused", "unavailable", "stranded"}

TypeOK ==
  /\ account \in [Tenants -> Money]
  /\ period \in Money
  /\ lock \in [Rows -> Requests \cup {Nobody}]
  /\ req \in [Requests -> Workload]
  /\ stage \in [Requests -> Stages]
  /\ op \in [Requests -> Ops]
  /\ todo \in [Requests -> Seq(Rows)]
  /\ matched \in [Requests -> BOOLEAN]
  /\ draft \in [Requests -> [tenant: Money, period: Money]]
  /\ errors \in 0..MaxErrors

NoMoney == [reserved |-> 0, committed |-> 0]

Init ==
  /\ account = [t \in Tenants |-> NoMoney]
  /\ period = NoMoney
  /\ lock = [row \in Rows |-> Nobody]
  /\ req \in [Requests -> Workload]
  /\ stage = [r \in Requests |-> "arrived"]
  /\ op = [r \in Requests |-> "none"]
  /\ todo = [r \in Requests |-> <<>>]
  /\ matched = [r \in Requests |-> FALSE]
  /\ draft = [r \in Requests |-> [tenant |-> NoMoney, period |-> NoMoney]]
  /\ errors = 0

-----------------------------------------------------------------------------
(* Mutant: records are written in the order their payload arrived in. *)
RecordRowsAsArrived(r) ==
  [i \in 1..Len(req[r].records) |-> RecordRow(req[r].records[i])]

(* A set of numbers in ascending order, each at its own place. *)
Place(k, S)  == Cardinality({j \in S : j <= k})
Ascending(S) == [i \in 1..Cardinality(S) |-> CHOOSE k \in S : Place(k, S) = i]

(* upsert_records writes each key once, in ascending order. *)
RecordRows(r) ==
  LET keys == Ascending({req[r].records[i] : i \in DOMAIN req[r].records})
  IN  [i \in 1..Len(keys) |-> RecordRow(keys[i])]

(* The rows an operation writes, one statement each, in order. *)
RowsOf(r, o) ==
  IF o = "upsert" THEN RecordRows(r) ELSE <<TenantRow(req[r].tenant), PeriodRow>>

(* What a statement writes over a version of its row. *)
Written(r, o, money) ==
  CASE o = "reserve" -> [money EXCEPT !.reserved = @ + req[r].cents]
    [] o = "charge"  -> [reserved  |-> money.reserved - req[r].cents,
                         committed |-> money.committed + req[r].cents]
    [] o = "release" -> [money EXCEPT !.reserved = @ - req[r].cents]
    [] OTHER         -> money

(* The WHERE clause, on the committed version: only reserve has one that can
   fail. The rows are the request's own tenant's and the period's.           *)
Qualifies(r, row) ==
  op[r] = "reserve" =>
    IF row = PeriodRow
    THEN period.committed + period.reserved + req[r].cents <= Cap
    ELSE account[req[r].tenant].committed + account[req[r].tenant].reserved
           + req[r].cents <= Allowance

-----------------------------------------------------------------------------
(* Which operation a request may start, and where that leaves it. The call to
   the provider lies between reserve and upsert; it may have been shed
   (release) or have failed (charge in the except block).                    *)
MayStart(r) ==
  CASE stage[r] = "arrived"   -> {"reserve"}
    [] stage[r] = "held"      -> {"upsert", "charge", "release"}
    [] stage[r] = "stored"    -> {"charge"}
    [] stage[r] = "unwinding" -> {"charge"}
    [] OTHER                  -> {}

AfterCommit(r) ==
  CASE op[r] = "reserve" -> "held"
    [] op[r] = "upsert"  -> "stored"
    [] op[r] = "charge"  -> "charged"
    [] OTHER             -> "released"

(* A failed reserve answers 503; a failed completion runs the except block; a
   failed except block leaves its hold behind.                               *)
AfterError(r) ==
  CASE op[r] = "reserve" -> "unavailable"
    [] op[r] = "upsert" \/ stage[r] = "stored" -> "unwinding"
    [] OTHER -> "stranded"

(* The transaction ends: its locks go, and its uncommitted versions. *)
EndTransaction(r, next) ==
  /\ lock' = [row \in Rows |-> IF lock[row] = r THEN Nobody ELSE lock[row]]
  /\ stage' = [stage EXCEPT ![r] = next]
  /\ op' = [op EXCEPT ![r] = "none"]
  /\ todo' = [todo EXCEPT ![r] = <<>>]
  /\ matched' = [matched EXCEPT ![r] = FALSE]
  /\ draft' = [draft EXCEPT ![r] = [tenant |-> NoMoney, period |-> NoMoney]]
  /\ UNCHANGED req

Begin(r) ==
  /\ op[r] = "none"
  /\ \E o \in MayStart(r) :
       /\ op' = [op EXCEPT ![r] = o]
       /\ todo' = [todo EXCEPT ![r] = RowsOf(r, o)]
  /\ UNCHANGED <<rowVars, lock, req, stage, matched, draft, errors>>

(* The statement's snapshot: the row as last committed, whoever has it locked. *)
Match(r) ==
  /\ op[r] # "none" /\ todo[r] # <<>> /\ ~matched[r]
  /\ Qualifies(r, Head(todo[r]))
  /\ matched' = [matched EXCEPT ![r] = TRUE]
  /\ UNCHANGED <<rowVars, lock, req, stage, op, todo, draft, errors>>

(* Mutant: a balance read earlier is trusted when the row is written. *)
WriteUnrechecked(r) ==
  /\ matched[r]
  /\ LET row == Head(todo[r]) IN
     /\ lock[row] = Nobody
     /\ lock' = [lock EXCEPT ![row] = r]
     /\ draft' =
          CASE row = PeriodRow -> [draft EXCEPT ![r].period = Written(r, op[r], period)]
            [] row = TenantRow(req[r].tenant) ->
                 [draft EXCEPT ![r].tenant = Written(r, op[r], account[req[r].tenant])]
            [] OTHER -> draft
  /\ todo' = [todo EXCEPT ![r] = Tail(@)]
  /\ matched' = [matched EXCEPT ![r] = FALSE]
  /\ UNCHANGED <<rowVars, req, stage, op, errors>>

(* The row is free, and its current version still qualifies: write it. *)
Write(r) ==
  /\ matched[r]
  /\ LET row == Head(todo[r]) IN
     /\ lock[row] = Nobody
     /\ Qualifies(r, row)
     /\ lock' = [lock EXCEPT ![row] = r]
     /\ draft' =
          CASE row = PeriodRow -> [draft EXCEPT ![r].period = Written(r, op[r], period)]
            [] row = TenantRow(req[r].tenant) ->
                 [draft EXCEPT ![r].tenant = Written(r, op[r], account[req[r].tenant])]
            [] OTHER -> draft
  /\ todo' = [todo EXCEPT ![r] = Tail(@)]
  /\ matched' = [matched EXCEPT ![r] = FALSE]
  /\ UNCHANGED <<rowVars, req, stage, op, errors>>

(* No row affected, in the snapshot or once the row is free: the transaction
   unwinds and takes the other row's hold with it.                           *)
Refuse(r) ==
  /\ op[r] # "none" /\ todo[r] # <<>>
  /\ matched[r] => lock[Head(todo[r])] = Nobody
  /\ ~Qualifies(r, Head(todo[r]))
  /\ EndTransaction(r, "refused")
  /\ UNCHANGED <<rowVars, errors>>

(* Mutant: the tenant row's version becomes visible, the period row's not. *)
CommitTenantOnly(r) ==
  /\ op[r] # "none" /\ todo[r] = <<>>
  /\ IF op[r] = "upsert" THEN UNCHANGED rowVars
     ELSE /\ account' = [account EXCEPT ![req[r].tenant] = draft[r].tenant]
          /\ UNCHANGED period
  /\ EndTransaction(r, AfterCommit(r))
  /\ UNCHANGED errors

(* Both versions become visible at once. *)
Commit(r) ==
  /\ op[r] # "none" /\ todo[r] = <<>>
  /\ IF op[r] = "upsert" THEN UNCHANGED rowVars
     ELSE /\ account' = [account EXCEPT ![req[r].tenant] = draft[r].tenant]
          /\ period' = draft[r].period
  /\ EndTransaction(r, AfterCommit(r))
  /\ UNCHANGED errors

(* A statement or the COMMIT fails, or the connection is lost: rolled back. *)
Fail(r) ==
  /\ op[r] # "none"
  /\ errors < MaxErrors
  /\ errors' = errors + 1
  /\ EndTransaction(r, AfterError(r))
  /\ UNCHANGED rowVars

(* Every request has ended. *)
Rest ==
  /\ \A r \in Requests : Ended(r)
  /\ UNCHANGED vars

-----------------------------------------------------------------------------
Step(r) == Begin(r) \/ Match(r) \/ Write(r) \/ Refuse(r) \/ Commit(r)

Next ==
  \/ \E r \in Requests : Step(r) \/ Fail(r)
  \/ Rest

Spec == Init /\ [][Next]_vars

-----------------------------------------------------------------------------
(* Properties *)

(* What the requests of S are worth together; none is worth more than MaxCents. *)
CentsOf(S) == Cardinality({u \in S \X (1..MaxCents) : u[2] <= req[u[1]].cents})
HeldBy(t) ==
  {r \in Requests : req[r].tenant = t /\ stage[r] \in {"held", "stored", "unwinding", "stranded"}}
ChargedTo(t) == {r \in Requests : req[r].tenant = t /\ stage[r] = "charged"}

(* In every committed state a request's cents are in exactly one place, the
   period row is the sum of the tenant rows: no update is lost and no half of
   a reservation or a settlement survives.                                   *)
CommittedRowsAgree ==
  /\ \A t \in Tenants :
       /\ account[t].reserved = CentsOf(HeldBy(t))
       /\ account[t].committed = CentsOf(ChargedTo(t))
  /\ period.reserved = CentsOf(UNION {HeldBy(t) : t \in Tenants})
  /\ period.committed = CentsOf(UNION {ChargedTo(t) : t \in Tenants})

(* No set of requests waits for one another's rows: reserve, settle and release
   take the tenant row before the period row, and every upsert takes its
   records in one agreed order (upsert_records: "no two writers ever hold locks
   in opposite orders, so the deadlock cannot form at all").                 *)
WaitsFor(r) == IF matched[r] THEN {lock[Head(todo[r])]} \ {Nobody} ELSE {}
NoWaitCycle ==
  \A S \in (SUBSET Requests) \ {{}} : \E r \in S : WaitsFor(r) \cap S = {}

(* One level down, the same promise: the committed rows move by whole
   reservations and releases, the tenant's partition and the company's figure
   in the same step, each with room for what it takes at that moment: a check
   made against a snapshot is never trusted for a newer version of the row
   (store.py: "no interval between deciding and taking").                    *)
Partition == INSTANCE SpendPartition WITH
  authorised <- [t \in Tenants |-> account[t].committed + account[t].reserved],
  pool       <- period.committed + period.reserved,
  billed     <- [t \in Tenants |-> account[t].committed]
CommitsWholeTransactions == Partition!Spec
=============================================================================
