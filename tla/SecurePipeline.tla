--------------------------- MODULE SecurePipeline ---------------------------
(***************************************************************************)
(* The secure application's metered path: what POST /v1/enrich and         *)
(* POST /v1/imports do from the moment their body is in memory to the      *)
(* moment they answer, on several replicas that share one store and one    *)
(* metered provider.                                                       *)
(*                                                                         *)
(* A request holds the money for its lookups in the store, takes one of    *)
(* its replica's in-flight slots, calls the provider under a cancelling    *)
(* deadline, stores the records and converts the hold into a charge. When  *)
(* anything fails the handler's "except" block unwinds: a request whose    *)
(* call was attempted is charged in full, one that was shed gives its hold *)
(* back. The environment may fail a database statement, lose the answer to *)
(* a COMMIT that took effect, or kill a replica, each within a budget.     *)
(*                                                                         *)
(* Each store transaction (reserve, settle) is one step here; its          *)
(* statements and row locks are the subject of StoreTransactions. That     *)
(* every request is answered is stated in Reseeding, with the fairness.    *)
(***************************************************************************)
EXTENDS Naturals, FiniteSets

CONSTANTS
  Tenants,       (* tenant_id of the bearer credentials                     *)
  Replicas,      (* application processes, each with its own limiter        *)
  Requests,      (* identities of the requests that may arrive              *)
  Workload,      (* what a request may be: see Descriptor                   *)
  MaxLookups,    (* no request names more: the import bounds imply one      *)
  Price,         (* lookup_price_cents, shared by application and provider  *)
  Allowance,     (* allowance_cents of every tenant row                     *)
  Cap,           (* cap_cents of the spend_periods row                      *)
  MaxBatch,      (* bounds.max_batch_items                                  *)
  MaxInFlight,   (* bounds.max_in_flight_upstream, per replica              *)
  MaxErrors,     (* budget of failed database operations                    *)
  MaxLostAcks,   (* budget of COMMITs whose answer never arrives            *)
  MaxCrashes     (* budget of replica deaths                                *)

(* One metered request, as its handler sees it once its body is parsed. *)
Descriptor ==
  [tenant: Tenants, replica: Replicas, op: {"enrich", "import"}, lookups: 0..MaxLookups]

ASSUME PipelineAssumption ==
  /\ IsFiniteSet(Requests)
  /\ Workload \subseteq Descriptor /\ Workload # {}
  /\ MaxLookups \in Nat /\ Price \in Nat /\ MaxBatch \in Nat
  /\ Allowance \in Nat /\ Cap \in Nat
  /\ MaxInFlight \in Nat \ {0}
  /\ MaxErrors \in Nat /\ MaxLostAcks \in Nat /\ MaxCrashes \in Nat

VARIABLES
  account,    (* tenant_allowances: per tenant, reserved, committed, lookups *)
  period,     (* the spend_periods row: reserved, committed                  *)
  jobs,       (* requests whose row is in the jobs table                     *)
  inFlight,   (* InFlightLimiter._in_flight of each replica                  *)
  req,        (* what each request is                                        *)
  phase,      (* where each request's handler stands                         *)
  attempted,  (* perform_lookups' local of that name                         *)
  hold,       (* history: what the rows carry for each request               *)
  call,       (* the provider's side of each request's upstream call         *)
  ledger,     (* the provider's books: lookups billed per tenant             *)
  errors, lostAcks, crashes   (* faults injected so far                      *)

storeVars    == <<account, period, hold>>
providerVars == <<call, ledger>>
faultVars    == <<errors, lostAcks, crashes>>
vars == <<account, period, jobs, inFlight, req, phase, attempted, hold,
          call, ledger, errors, lostAcks, crashes>>

-----------------------------------------------------------------------------
(* Handler positions. "answered" has the provider's answer in hand, "stored"
   has written the records, "unwinding" is the except block, "settled" has
   only the job row left to write.                                          *)
InPerform == {"reserved", "calling", "answered", "stored", "unwinding"}
Outcomes  == {"created", "too_large", "exhausted", "shed", "failed",
              "unavailable", "crashed"}
Phases    == {"absent", "arrived", "settled"} \cup InPerform \cup Outcomes
Calls     == {"unsent", "sent", "working", "billed", "refused"}
Holds     == {"none", "held", "charged", "charged_twice", "released"}

Terminal(r) == phase[r] \in Outcomes
Active(r)   == phase[r] \notin Outcomes \cup {"absent"}

TypeOK ==
  /\ account \in [Tenants -> [reserved: Nat, committed: Nat, lookups: Nat]]
  /\ period \in [reserved: Nat, committed: Nat]
  /\ jobs \subseteq Requests
  /\ inFlight \in [Replicas -> Nat]
  /\ req \in [Requests -> Workload]
  /\ phase \in [Requests -> Phases]
  /\ attempted \in [Requests -> BOOLEAN]
  /\ hold \in [Requests -> Holds]
  /\ call \in [Requests -> Calls]
  /\ ledger \in [Tenants -> Nat]
  /\ errors \in 0..MaxErrors /\ lostAcks \in 0..MaxLostAcks /\ crashes \in 0..MaxCrashes

Tenant(r) == req[r].tenant
Cents(r)  == Price * req[r].lookups

(* The lookups that the requests of S name, one element for each; their
   number is what S costs, in units of Price.                               *)
Lookups(S) == {u \in Requests \X (1..MaxLookups) : u[1] \in S /\ u[2] <= req[u[1]].lookups}
Worth(S)   == Price * Cardinality(Lookups(S))

Init ==
  /\ account = [t \in Tenants |-> [reserved |-> 0, committed |-> 0, lookups |-> 0]]
  /\ period = [reserved |-> 0, committed |-> 0]
  /\ jobs = {}
  /\ inFlight = [p \in Replicas |-> 0]
  /\ req = [r \in Requests |-> CHOOSE w \in Workload : TRUE]
  /\ phase = [r \in Requests |-> "absent"]
  /\ attempted = [r \in Requests |-> FALSE]
  /\ hold = [r \in Requests |-> "none"]
  /\ call = [r \in Requests |-> "unsent"]
  /\ ledger = [t \in Tenants |-> 0]
  /\ errors = 0 /\ lostAcks = 0 /\ crashes = 0

Goto(r, place) == phase' = [phase EXCEPT ![r] = place]
DatabaseError == errors < MaxErrors /\ errors' = errors + 1 /\ UNCHANGED <<lostAcks, crashes>>
LostAck == lostAcks < MaxLostAcks /\ lostAcks' = lostAcks + 1 /\ UNCHANGED <<errors, crashes>>

-----------------------------------------------------------------------------
(* Admission: one request enters the handler of one replica. *)
Arrive(r) ==
  /\ phase[r] = "absent"
  /\ \E w \in Workload : req' = [req EXCEPT ![r] = w]
  /\ Goto(r, "arrived")
  /\ UNCHANGED <<storeVars, providerVars, faultVars, jobs, inFlight, attempted>>

(* require_batch_within guards the enrich route; an import is bounded only in
   bytes, so any number of records its bytes can hold goes on.               *)
BatchFits(r) == req[r].op = "enrich" => req[r].lookups <= MaxBatch

RefuseBatch(r) ==
  /\ phase[r] = "arrived"
  /\ ~BatchFits(r)
  /\ Goto(r, "too_large")
  /\ UNCHANGED <<storeVars, providerVars, faultVars, jobs, inFlight, req, attempted>>

(* The predicates of the two guarded UPDATEs of store.reserve. *)
TenantHasRoom(r) ==
  account[Tenant(r)].committed + account[Tenant(r)].reserved + Cents(r) <= Allowance
PeriodHasRoom(r) ==
  period.committed + period.reserved + Cents(r) <= Cap

ReserveRows(r) ==
  /\ account' = [account EXCEPT ![Tenant(r)].reserved = @ + Cents(r)]
  /\ period' = [period EXCEPT !.reserved = @ + Cents(r)]
  /\ hold' = [hold EXCEPT ![r] = "held"]

(* Mutant: one undivided pool, as if the tenant predicate were dropped. *)
ReserveFromPool(r) ==
  /\ phase[r] = "arrived"
  /\ BatchFits(r)
  /\ PeriodHasRoom(r)
  /\ ReserveRows(r)
  /\ Goto(r, "reserved")
  /\ UNCHANGED <<providerVars, faultVars, jobs, inFlight, req, attempted>>

Reserve(r) ==
  /\ phase[r] = "arrived"
  /\ BatchFits(r)
  /\ TenantHasRoom(r) /\ PeriodHasRoom(r)
  /\ ReserveRows(r)
  /\ Goto(r, "reserved")
  /\ UNCHANGED <<providerVars, faultVars, jobs, inFlight, req, attempted>>

(* Either UPDATE touches no row: the transaction unwinds both. *)
RefuseAllowance(r) ==
  /\ phase[r] = "arrived"
  /\ BatchFits(r)
  /\ ~(TenantHasRoom(r) /\ PeriodHasRoom(r))
  /\ Goto(r, "exhausted")
  /\ UNCHANGED <<storeVars, providerVars, faultVars, jobs, inFlight, req, attempted>>

(* No connection, or the transaction failed and was rolled back: 503. *)
ReserveFails(r) ==
  /\ phase[r] = "arrived"
  /\ BatchFits(r)
  /\ DatabaseError
  /\ Goto(r, "unavailable")
  /\ UNCHANGED <<storeVars, providerVars, jobs, inFlight, req, attempted>>

(* The COMMIT took effect and its answer was lost: the handler has no
   Reservation to release, so the hold stays in the rows.                   *)
ReserveAckLost(r) ==
  /\ phase[r] = "arrived"
  /\ BatchFits(r)
  /\ TenantHasRoom(r) /\ PeriodHasRoom(r)
  /\ ReserveRows(r)
  /\ LostAck
  /\ Goto(r, "unavailable")
  /\ UNCHANGED <<providerVars, jobs, inFlight, req, attempted>>

-----------------------------------------------------------------------------
(* Mutant: "attempted" is set only once the provider has answered. *)
TakeSlotUnmarked(r) ==
  LET p == req[r].replica IN
  /\ phase[r] = "reserved"
  /\ inFlight[p] < MaxInFlight
  /\ inFlight' = [inFlight EXCEPT ![p] = @ + 1]
  /\ call' = [call EXCEPT ![r] = "sent"]
  /\ Goto(r, "calling")
  /\ UNCHANGED <<storeVars, faultVars, ledger, jobs, req, attempted>>

(* The slot and the call. Checking for a slot, claiming it, setting
   "attempted" and starting the call are one step: no await lies between.   *)
TakeSlot(r) ==
  LET p == req[r].replica IN
  /\ phase[r] = "reserved"
  /\ inFlight[p] < MaxInFlight
  /\ inFlight' = [inFlight EXCEPT ![p] = @ + 1]
  /\ attempted' = [attempted EXCEPT ![r] = TRUE]
  /\ call' = [call EXCEPT ![r] = "sent"]
  /\ Goto(r, "calling")
  /\ UNCHANGED <<storeVars, faultVars, ledger, jobs, req>>

(* Mutant: a shed request is answered at once and its hold forgotten. *)
ShedOutright(r) ==
  /\ phase[r] = "reserved"
  /\ inFlight[req[r].replica] >= MaxInFlight
  /\ Goto(r, "shed")
  /\ UNCHANGED <<storeVars, providerVars, faultVars, jobs, inFlight, req, attempted>>

Shed(r) ==
  /\ phase[r] = "reserved"
  /\ inFlight[req[r].replica] >= MaxInFlight
  /\ Goto(r, "unwinding")
  /\ UNCHANGED <<storeVars, providerVars, faultVars, jobs, inFlight, req, attempted>>

(* Mutant: the slot comes back only on the way to an answer. *)
LeaveSlotLeaking(r, place) ==
  /\ phase[r] = "calling"
  /\ inFlight' = IF place = "answered"
                 THEN [inFlight EXCEPT ![req[r].replica] = @ - 1] ELSE inFlight
  /\ Goto(r, place)
  /\ UNCHANGED <<storeVars, providerVars, faultVars, jobs, req, attempted>>

(* Every way out of the "async with" gives the slot back. *)
LeaveSlot(r, place) ==
  /\ phase[r] = "calling"
  /\ inFlight' = [inFlight EXCEPT ![req[r].replica] = @ - 1]
  /\ Goto(r, place)
  /\ UNCHANGED <<storeVars, providerVars, faultVars, jobs, req, attempted>>

Answer(r)    == call[r] = "billed" /\ LeaveSlot(r, "answered")
CallFails(r) == call[r] = "refused" /\ LeaveSlot(r, "unwinding")

(* Mutant: a deadline checked only between awaits, so a silent provider is
   waited for.                                                               *)
DeadlineBetweenAwaits(r) == call[r] = "billed" /\ LeaveSlot(r, "unwinding")

(* The upstream deadline cancels the wait, whatever the provider is doing. *)
Deadline(r)  == LeaveSlot(r, "unwinding")

-----------------------------------------------------------------------------
(* The provider. It may take any time over a call (slow mode, a hold), and an
   abandoned call goes on: nobody tells the provider its caller has gone.    *)
ProviderMoves(r, from, to) ==
  /\ call[r] = from
  /\ call' = [call EXCEPT ![r] = to]
  /\ UNCHANGED <<storeVars, faultVars, jobs, inFlight, req, phase, attempted>>

AcceptCall(r) == ProviderMoves(r, "sent", "working") /\ UNCHANGED ledger

(* The connection failed, or the payload was turned away: nothing is billed. *)
RefuseCall(r) == ProviderMoves(r, "sent", "refused") /\ UNCHANGED ledger

(* Ledger.charge and the answer, with no await between them. *)
ChargeCall(r) ==
  /\ ProviderMoves(r, "working", "billed")
  /\ ledger' = [ledger EXCEPT ![Tenant(r)] = @ + req[r].lookups]

-----------------------------------------------------------------------------
(* store.settle and store.release. The CHECK constraints reject a row whose
   reserved_cents would go below zero, and with it the whole transaction.    *)
CanSettle(r) ==
  /\ account[Tenant(r)].reserved >= Cents(r)
  /\ period.reserved >= Cents(r)

(* Mutant: the period row is left out of the settle. *)
ChargeTenantRowOnly(r) ==
  /\ CanSettle(r)
  /\ account' = [account EXCEPT ![Tenant(r)] =
       [reserved  |-> @.reserved - Cents(r),
        committed |-> @.committed + Cents(r),
        lookups   |-> @.lookups + req[r].lookups]]
  /\ hold' = [hold EXCEPT ![r] = IF @ = "held" THEN "charged" ELSE "charged_twice"]
  /\ UNCHANGED period

ChargeRows(r) ==
  /\ CanSettle(r)
  /\ account' = [account EXCEPT ![Tenant(r)] =
       [reserved  |-> @.reserved - Cents(r),
        committed |-> @.committed + Cents(r),
        lookups   |-> @.lookups + req[r].lookups]]
  /\ period' = [reserved  |-> period.reserved - Cents(r),
                committed |-> period.committed + Cents(r)]
  /\ hold' = [hold EXCEPT ![r] = IF @ = "held" THEN "charged" ELSE "charged_twice"]

ReleaseRows(r) ==
  /\ CanSettle(r)
  /\ account' = [account EXCEPT ![Tenant(r)].reserved = @ - Cents(r)]
  /\ period' = [period EXCEPT !.reserved = @ - Cents(r)]
  /\ hold' = [hold EXCEPT ![r] = "released"]

-----------------------------------------------------------------------------
(* Completion: upsert_records, then settle, then (an import) insert_job. *)
Upsert(r) ==
  /\ phase[r] = "answered"
  /\ Goto(r, "stored")
  /\ UNCHANGED <<storeVars, providerVars, faultVars, jobs, inFlight, req, attempted>>

(* Mutant: something that can fail comes after the settle, inside the try. *)
SettleTooEarly(r) ==
  /\ phase[r] = "stored"
  /\ ChargeRows(r)
  /\ \/ Goto(r, IF req[r].op = "import" THEN "settled" ELSE "created")
     \/ Goto(r, "unwinding")
  /\ UNCHANGED <<providerVars, faultVars, jobs, inFlight, req, attempted>>

Settle(r) ==
  /\ phase[r] = "stored"
  /\ ChargeRows(r)
  /\ Goto(r, IF req[r].op = "import" THEN "settled" ELSE "created")
  /\ UNCHANGED <<providerVars, faultVars, jobs, inFlight, req, attempted>>

(* The connection, the upsert or the settle fails: nothing of the settle is
   applied and the except block runs.                                       *)
CompletionFails(r) ==
  /\ phase[r] \in {"answered", "stored"}
  /\ DatabaseError
  /\ Goto(r, "unwinding")
  /\ UNCHANGED <<storeVars, providerVars, jobs, inFlight, req, attempted>>

SettleViolatesCheck(r) ==
  /\ phase[r] = "stored"
  /\ ~CanSettle(r)
  /\ Goto(r, "unwinding")
  /\ UNCHANGED <<storeVars, providerVars, faultVars, jobs, inFlight, req, attempted>>

(* The settle took effect, its COMMIT's answer was lost, and the except block
   runs against a completed charge.                                         *)
SettleAckLost(r) ==
  /\ phase[r] = "stored"
  /\ ChargeRows(r)
  /\ LostAck
  /\ Goto(r, "unwinding")
  /\ UNCHANGED <<providerVars, jobs, inFlight, req, attempted>>

(* Mutant: the job row is written as soon as the provider has answered. *)
InsertJobUpFront(r) ==
  /\ phase[r] \in {"answered", "settled"}
  /\ req[r].op = "import"
  /\ jobs' = jobs \cup {r}
  /\ IF phase[r] = "settled" THEN Goto(r, "created") ELSE UNCHANGED phase
  /\ UNCHANGED <<storeVars, providerVars, faultVars, inFlight, req, attempted>>

InsertJob(r) ==
  /\ phase[r] = "settled"
  /\ jobs' = jobs \cup {r}
  /\ Goto(r, "created")
  /\ UNCHANGED <<storeVars, providerVars, faultVars, inFlight, req, attempted>>

(* The charge stands and the caller is told the service is unavailable; the
   row is there or not, as the statement took effect or not.                *)
InsertJobFails(r) ==
  /\ phase[r] = "settled"
  /\ \/ DatabaseError /\ UNCHANGED jobs
     \/ LostAck /\ jobs' = jobs \cup {r}
  /\ Goto(r, "unavailable")
  /\ UNCHANGED <<storeVars, providerVars, inFlight, req, attempted>>

-----------------------------------------------------------------------------
(* Mutants: every failure gives the hold back; only what the provider has
   already billed is charged.                                               *)
UnwindByRelease(r) == ReleaseRows(r)
UnwindByBill(r) == IF call[r] = "billed" THEN ChargeRows(r) ELSE ReleaseRows(r)

(* The except block: one more transaction, and no retry if it fails. *)
UnwindRows(r) == IF attempted[r] THEN ChargeRows(r) ELSE ReleaseRows(r)

Unwind(r) ==
  /\ phase[r] = "unwinding"
  /\ UnwindRows(r)
  /\ Goto(r, IF attempted[r] THEN "failed" ELSE "shed")
  /\ UNCHANGED <<providerVars, faultVars, jobs, inFlight, req, attempted>>

UnwindFails(r) ==
  /\ phase[r] = "unwinding"
  /\ DatabaseError
  /\ Goto(r, "unavailable")
  /\ UNCHANGED <<storeVars, providerVars, jobs, inFlight, req, attempted>>

UnwindViolatesCheck(r) ==
  /\ phase[r] = "unwinding"
  /\ ~CanSettle(r)
  /\ Goto(r, "unavailable")
  /\ UNCHANGED <<storeVars, providerVars, faultVars, jobs, inFlight, req, attempted>>

UnwindAckLost(r) ==
  /\ phase[r] = "unwinding"
  /\ UnwindRows(r)
  /\ LostAck
  /\ Goto(r, "unavailable")
  /\ UNCHANGED <<providerVars, jobs, inFlight, req, attempted>>

(* A replica dies and comes back with an empty limiter: its handlers are gone
   wherever they stood, and nothing looks for the holds they left.           *)
Crash(p) ==
  LET victims == {r \in Requests : Active(r) /\ req[r].replica = p} IN
  /\ crashes < MaxCrashes
  /\ victims # {}
  /\ crashes' = crashes + 1
  /\ phase' = [r \in Requests |-> IF r \in victims THEN "crashed" ELSE phase[r]]
  /\ inFlight' = [inFlight EXCEPT ![p] = 0]
  /\ UNCHANGED <<storeVars, providerVars, jobs, req, attempted, errors, lostAcks>>

(* Every request is answered and the provider is idle. *)
Rest ==
  /\ \A r \in Requests : Terminal(r) /\ call[r] \notin {"sent", "working"}
  /\ UNCHANGED vars

-----------------------------------------------------------------------------
Admission(r)  == RefuseBatch(r) \/ Reserve(r) \/ RefuseAllowance(r)
Calling(r)    == TakeSlot(r) \/ Shed(r) \/ Answer(r) \/ CallFails(r) \/ Deadline(r)
Completion(r) == Upsert(r) \/ Settle(r) \/ SettleViolatesCheck(r) \/ InsertJob(r)
Unwinding(r)  == Unwind(r) \/ UnwindViolatesCheck(r)

(* A step of r's own handler with no fault in it. *)
Handler(r) == Admission(r) \/ Calling(r) \/ Completion(r) \/ Unwinding(r)

Provider(r) == AcceptCall(r) \/ RefuseCall(r) \/ ChargeCall(r)

Fault(r) ==
  \/ ReserveFails(r) \/ ReserveAckLost(r)
  \/ CompletionFails(r) \/ SettleAckLost(r) \/ InsertJobFails(r)
  \/ UnwindFails(r) \/ UnwindAckLost(r)

Next ==
  \/ \E r \in Requests : Arrive(r) \/ Handler(r) \/ Provider(r) \/ Fault(r)
  \/ \E p \in Replicas : Crash(p)
  \/ Rest

Spec == Init /\ [][Next]_vars

-----------------------------------------------------------------------------
(* Properties *)

HoldsOf(kinds) == {r \in Requests : hold[r] \in kinds}
Of(t, kinds)   == {r \in HoldsOf(kinds) : Tenant(r) = t}

(* The store backs what it authorised: a tenant's holds and charges stay in its
   partition, the company's in the cap, and the provider's bill for a tenant
   stays within that tenant's holds and charges. It holds through failed
   statements, lost COMMIT answers, double settles and crashes, because a call
   is billed only after its hold is in the rows and an attempted call's hold is
   never given back (app.py perform_lookups, "fail closed").                 *)
BillWithinAuthorisation ==
  /\ \A t \in Tenants :
       /\ Price * ledger[t] <= account[t].committed + account[t].reserved
       /\ account[t].committed + account[t].reserved <= Allowance
  /\ period.committed + period.reserved <= Cap

(* What the rows say is what the requests did. A request's money is in exactly
   one place: held, charged or given back; only a settle repeated after a lost
   COMMIT answer takes a hold that belongs to somebody else. The period row is
   the sum of the partitions.                                               *)
RowsMatchHolds ==
  /\ \A t \in Tenants :
       /\ account[t].reserved + Worth(Of(t, {"charged_twice"})) = Worth(Of(t, {"held"}))
       /\ account[t].committed = Worth(Of(t, {"charged", "charged_twice"}))
                                 + Worth(Of(t, {"charged_twice"}))
       /\ account[t].committed = Price * account[t].lookups
  /\ period.reserved + Worth(HoldsOf({"charged_twice"})) = Worth(HoldsOf({"held"}))
  /\ period.committed = Worth(HoldsOf({"charged", "charged_twice"}))
                        + Worth(HoldsOf({"charged_twice"}))

(* As long as no COMMIT answer was lost, the CHECK constraints are a backstop
   nothing reaches: whoever is about to settle or release still has its own
   hold in both rows, whatever the other replicas did meanwhile (schema.py: "A
   correct application never reaches them").                                *)
ChecksNeverReached ==
  lostAcks = 0 =>
    \A r \in Requests : phase[r] \in {"stored", "unwinding"} => CanSettle(r)

(* A replica's limiter counts the calls its handlers are waiting for, neither
   leaking a slot on a failure path nor giving one back twice, and never more
   than the cap (capacity.py InFlightLimiter.slot).                         *)
SlotsMatchCalls ==
  \A p \in Replicas :
    /\ inFlight[p] = Cardinality({r \in Requests : phase[r] = "calling" /\ req[r].replica = p})
    /\ inFlight[p] <= MaxInFlight

(* The job a client may poll speaks of lookups the provider billed and the
   store charged: insert_job is reached by no unwinding request.            *)
JobsWereCharged ==
  \A r \in jobs :
    /\ req[r].op = "import"
    /\ call[r] = "billed"
    /\ hold[r] = "charged"

NoFaults == errors + lostAcks + crashes = 0

(* Without faults, once a tenant's requests are answered nothing of it is held:
   it was charged for exactly the requests that reached the provider, refused
   and shed ones cost it nothing, and the provider's bill is covered.       *)
QuietTenantsReconcile ==
  NoFaults =>
    \A t \in Tenants :
      (\A r \in Requests : Active(r) => Tenant(r) # t) =>
        /\ account[t].reserved = 0
        /\ account[t].committed = Worth({r \in Requests : attempted[r] /\ Tenant(r) = t})
        /\ Price * ledger[t] <= account[t].committed

(* A bystander is never refused for money because of its neighbours: with the
   cap at least the sum of the partitions, a request is turned away for money
   only when its own tenant's partition cannot take it.                      *)
RefusedByOwnPartitionOnly ==
  [][\A r \in Requests :
       phase'[r] = "exhausted" /\ phase[r] # "exhausted" => ~TenantHasRoom(r)]_vars

(* Money already charged is never refunded, and a hold is given back only for
   a request whose call never started, on the evidence available at that step:
   afterwards such a call never reaches the provider (app.py except block).  *)
ReleasedMeansNeverCalled ==
  [][/\ \A t \in Tenants : account'[t].committed >= account[t].committed
     /\ \A r \in Requests : hold'[r] = "released" => call'[r] = "unsent"]_vars

(* The abstract promise, with the rows' holds and charges as what was
   authorised and the provider's books as what was billed.                  *)
Partition == INSTANCE SpendPartition WITH
  authorised <- [t \in Tenants |-> account[t].committed + account[t].reserved],
  pool       <- period.committed + period.reserved,
  billed     <- [t \in Tenants |-> Price * ledger[t]]
KeepsPartition == Partition!Spec
=============================================================================
