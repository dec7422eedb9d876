--------------------------- MODULE SequentialDemo ---------------------------
(***************************************************************************)
(* limitless-demo: the sequential demonstration, driving the secure        *)
(* application through its HTTP boundary. It sends one request at a time,  *)
(* round robin over the replicas, counts what the answers say, and at the  *)
(* end holds its own count against the provider's bill. Every expectation  *)
(* that is not met is one failure; the process exits 0 without any.        *)
(*                                                                         *)
(* The client is alone with the application only if nothing was in flight  *)
(* when the fixtures were seeded: requests of an earlier run (Earlier) may *)
(* still be, and the handlers and the provider may fail, stall or die.     *)
(*                                                                         *)
(* A request that needs no lookups is one step: it reads or is refused     *)
(* before anything is touched. The four credential probes, which read      *)
(* nothing that changes, are left out.                                     *)
(***************************************************************************)
EXTENDS Reseeding, Totals, Sequences

CONSTANTS
  Earlier,      (* requests of an earlier run; the others are numbered 1, 2, ... *)
  EarlierWork,  (* what those may be                                             *)
  Order,        (* the addressed replicas, in the order of the configuration     *)
  Spender,      (* fixtures.ATTACKER_TENANT_ID                                   *)
  Bystander,    (* fixtures.BYSTANDER_TENANT_IDS[0]                              *)
  Ordinary,     (* LEGITIMATE_BATCH_RECORDS                                      *)
  Bundle,       (* LEGITIMATE_IMPORT_RECORDS                                     *)
  Slack         (* batches the exhausting loop grants beyond the allowance's     *)

MaxBatches == Allowance \div (MaxBatch * Price) + Slack

(* The requests before the exhausting loop, the loop, usage, the bystander. *)
Issued == 1..(9 + MaxBatches + 2)

Work(t, p, op, n) == [tenant |-> t, replica |-> p, op |-> op, lookups |-> n]

ASSUME DemoAssumption ==
  /\ Requests = Earlier \cup Issued /\ Earlier \cap Issued = {}
  /\ EarlierWork \subseteq Workload
  /\ Order \in Seq(Replicas) /\ Len(Order) > 0
  /\ Spender \in Tenants /\ Bystander \in Tenants \ {Spender}
  /\ IsFiniteSet(Tenants) /\ 2 * Allowance <= Cap
  /\ MaxBatch > 0 /\ Price > 0 /\ Slack \in Nat \ {0}
  /\ 0 < Ordinary /\ Ordinary <= MaxBatch
  /\ Price * (Ordinary + Bundle) <= Allowance /\ Bundle > 0
  /\ \A t \in {Spender, Bystander}, p \in Replicas :
       {Work(t, p, "enrich", Ordinary), Work(t, p, "import", Bundle),
        Work(t, p, "enrich", MaxBatch), Work(t, p, "enrich", MaxBatch + 1)} \subseteq Workload

VARIABLES
  at,         (* the step of the script that is next                            *)
  over,       (* how the process ended, if it has                               *)
  sequence,   (* Counter.sequence                                               *)
  awaiting,   (* the metered request whose answer is awaited, 0 for none        *)
  told,       (* lookups the answers of working requests reported               *)
  refusals,   (* Counter.refusals                                               *)
  bounced,    (* those of them that were refused on their first bytes           *)
  failures,   (* Counter.failures, by the step that noted them                  *)
  before,     (* the bill before the over-limit inputs                          *)
  batches,    (* turns of the exhausting loop                                   *)
  raised      (* the exception each metered request's handler ended with        *)

clientVars == <<at, over, sequence, awaiting, told, refusals, bounced, failures,
                before, batches>>
demoVars == <<seededVars, clientVars, raised>>

Script == <<"enrich", "list", "import", "job", "usage", "bill", "before", "body",
            "batch", "page", "bomb", "unmoved", "exhaust", "spent", "bystander", "summary">>
Places == {Script[i] : i \in DOMAIN Script} \cup {"ready", "done"}

(* The step of the script that follows place. *)
After(place) ==
  IF place = "summary" THEN "done"
  ELSE Script[1 + CHOOSE i \in DOMAIN Script : Script[i] = place]

DemoTypeOK ==
  /\ TypeOK /\ SeedTypeOK
  /\ at \in Places
  /\ over \in {"no", "passed", "failed", "aborted"}
  /\ sequence \in 0..(9 + MaxBatches + 2)
  /\ awaiting \in 0..sequence
  /\ told \in Nat /\ refusals \in Nat /\ bounced \in Nat /\ before \in Nat
  /\ failures \subseteq Places
  /\ batches \in 0..MaxBatches
  /\ raised \in [Requests -> {"none", "limit", "store", "fault"}]

DemoInit ==
  /\ ReseedInit
  /\ at = "ready" /\ over = "no"
  /\ sequence = 0 /\ awaiting = 0
  /\ told = 0 /\ refusals = 0 /\ bounced = 0 /\ before = 0 /\ batches = 0
  /\ failures = {}
  /\ raised = [r \in Requests |-> "none"]

-----------------------------------------------------------------------------
(* The application. *)

Raise(r, kind) == raised' = [raised EXCEPT ![r] = kind]

(* A limit reached is LimitReachedError, a failed statement or a lost COMMIT
   answer OperationalError; a CHECK violation or a failed provider call has no
   handler of its own. What the except block raises replaces what it caught.  *)
Limited(r)  == RefuseBatch(r) \/ RefuseAllowance(r) \/ Shed(r) \/ Deadline(r)
Erring(r)   == CallFails(r) \/ SettleViolatesCheck(r) \/ UnwindViolatesCheck(r)
Orderly(r)  == Reserve(r) \/ TakeSlot(r) \/ Answer(r) \/ Upsert(r) \/ Settle(r)
               \/ InsertJob(r) \/ Unwind(r)

HandlerStep(r) ==
  /\ \/ Limited(r) /\ Raise(r, "limit")
     \/ Erring(r) /\ Raise(r, "fault")
     \/ Orderly(r) /\ UNCHANGED raised
  /\ Noted
  /\ UNCHANGED clientVars

(* Bound: a run meets an earlier run's traffic or faults, not both at once. *)
FreshStart == \A r \in Earlier : phase[r] = "absent"

FaultStep(r) ==
  /\ FreshStart
  /\ Fault(r) /\ Raise(r, "store")
  /\ Noted
  /\ UNCHANGED clientVars

ProviderStep(r) == Provider(r) /\ Noted /\ UNCHANGED <<clientVars, raised>>

CrashStep(p) == FreshStart /\ Crash(p) /\ Noted /\ UNCHANGED <<clientVars, raised>>

(* Traffic of an earlier run, and the seeding that cuts into it. Bound: one that
   finds nothing in flight leaves what DemoInit describes, and is left out.  *)
EarlierArrives(r) ==
  /\ at = "ready" /\ runs = 0 /\ seeding = "idle"
  /\ Arrive(r) /\ req'[r] \in EarlierWork
  /\ Noted
  /\ UNCHANGED <<clientVars, raised>>

SeedStep ==
  /\ at = "ready"
  /\ seeding = "rows" \/ \E r \in Earlier : Active(r) \/ AtProvider(r)
  /\ Seed
  /\ UNCHANGED <<clientVars, raised>>

(* What the client sees of a request that was answered. *)
StatusOf(r) ==
  CASE phase[r] = "created"    -> 201
    [] phase[r] = "too_large"  -> 413
    [] phase[r] = "exhausted"  -> 429
    [] OTHER -> IF raised[r] = "fault" THEN 500 ELSE 503

(* limit_refusal lines in the replicas' logs: the refusal handler writes one
   for each LimitReachedError that leaves a handler.                         *)
LogLines ==
  bounced + Cardinality({r \in Requests :
               /\ Terminal(r) /\ phase[r] # "crashed"
               /\ raised[r] = "limit"})

-----------------------------------------------------------------------------
(* The client. *)

Target(n) == Order[1 + ((n - 1) % Len(Order))]

Asked(place, n) ==
  CASE place = "enrich"    -> Work(Spender, Target(n), "enrich", Ordinary)
    [] place = "import"    -> Work(Spender, Target(n), "import", Bundle)
    [] place = "batch"     -> Work(Spender, Target(n), "enrich", MaxBatch + 1)
    [] place = "exhaust"   -> Work(Spender, Target(n), "enrich", MaxBatch)
    [] place = "bystander" -> Work(Bystander, Target(n), "enrich", Ordinary)

Working == {"enrich", "import", "batch", "exhaust", "bystander"}

(* The rows and the bill are the run's own before the first request. *)
Begin ==
  /\ at = "ready"
  /\ seeding = "idle"
  /\ runs > 0 \/ FreshStart
  /\ at' = "enrich"
  /\ UNCHANGED <<seededVars, raised, over, sequence, awaiting, told, refusals,
                 bounced, failures, before, batches>>

Send ==
  LET n == sequence + 1 IN
  /\ at \in Working /\ over = "no" /\ awaiting = 0
  /\ Arrive(n) /\ req'[n] = Asked(at, n)
  /\ sequence' = n /\ awaiting' = n
  /\ Noted
  /\ UNCHANGED <<raised, at, over, told, refusals, bounced, failures, before, batches>>

(* Mutant: a saturated or unavailable application is not counted a refusal. *)
RefusedByLimit(status) == status \in {413, 429}

(* RequestRecord.refused, and what an answer to working requests reports. *)
Refused(status) == status \in {413, 429, 503}

Reported(r) == IF phase[r] = "created" THEN req[r].lookups ELSE 0

Expected(place) == CASE place \in {"enrich", "import", "bystander"} -> 201
                     [] place = "batch" -> 413

Require(place, condition) ==
  failures' = IF condition THEN failures ELSE failures \cup {place}

(* One turn of the exhausting loop: it ends at the first 429, or has failed. *)
LoopGoesOn ==
  IF StatusOf(awaiting) = 429
  THEN at' = "spent" /\ UNCHANGED <<batches, failures>>
  ELSE /\ batches' = batches + 1
       /\ at' = IF batches' = MaxBatches THEN "spent" ELSE "exhaust"
       /\ Require("exhaust", at' = "exhaust")

Receive ==
  /\ awaiting # 0 /\ Terminal(awaiting) /\ phase[awaiting] # "crashed"
  /\ awaiting' = 0
  /\ refusals' = refusals + (IF Refused(StatusOf(awaiting)) THEN 1 ELSE 0)
  /\ told' = told + Reported(awaiting)
  /\ IF at = "exhaust" THEN LoopGoesOn
     ELSE /\ at' = After(at)
          /\ Require(at, StatusOf(awaiting) = Expected(at))
          /\ UNCHANGED batches
  /\ UNCHANGED <<seededVars, raised, over, sequence, bounced, before>>

(* The replica died under the request: the client's exception ends the run. *)
LoseReplica ==
  /\ awaiting # 0 /\ phase[awaiting] = "crashed"
  /\ over' = "aborted" /\ at' = "done" /\ awaiting' = 0
  /\ UNCHANGED <<seededVars, raised, sequence, told, refusals, bounced, failures,
                 before, batches>>

(* A read takes a connection. Condition is what the step requires of its
   answer; for want of a connection the answer is one more 503.              *)
Read(place, condition) ==
  /\ at = place
  /\ at' = After(place)
  /\ sequence' = sequence + 1
  /\ Require(place, condition)
  /\ UNCHANGED <<seededVars, raised, over, awaiting, told, refusals, bounced, before, batches>>

ReadFails(place) ==
  /\ at = place
  /\ at' = After(place)
  /\ sequence' = sequence + 1
  /\ FreshStart /\ DatabaseError
  /\ refusals' = refusals + 1
  /\ failures' = failures \cup {place}
  /\ UNCHANGED <<storeVars, providerVars, jobs, inFlight, req, phase, attempted, seedVars,
                 raised, over, awaiting, told, bounced, before, batches>>

UsageIs(lookups) ==
  account[Spender].lookups = lookups /\ account[Spender].committed = Price * lookups

(* Mutant: the running count adds the total that a usage read reports. *)
ReadUsageAdding ==
  /\ at = "usage"
  /\ at' = After("usage")
  /\ sequence' = sequence + 1
  /\ told' = told + account[Spender].lookups
  /\ Require("usage", UsageIs(Ordinary + Bundle))
  /\ UNCHANGED <<seededVars, raised, over, awaiting, refusals, bounced, before, batches>>

ReadUsage == Read("usage", UsageIs(Ordinary + Bundle)) \/ ReadFails("usage")
ReadList  == Read("list", TRUE) \/ ReadFails("list")
ReadSpent == Read("spent", account[Spender].committed <= Allowance) \/ ReadFails("spent")

(* The import is the third request. Without its answer there is no job to ask
   for, and the path that is asked for exists nowhere: 404.                  *)
ReadJob ==
  LET named == phase[3] = "created" IN
  Read("job", named /\ 3 \in jobs) \/ (named /\ ReadFails("job"))

(* A body, a page or a bundle past its bound: 413 before anything is touched. *)
Bounce ==
  /\ at \in {"body", "page", "bomb"}
  /\ at' = After(at)
  /\ sequence' = sequence + 1
  /\ refusals' = refusals + 1 /\ bounced' = bounced + 1
  /\ UNCHANGED <<seededVars, raised, over, awaiting, told, failures, before, batches>>

(* The provider's own bill, read from the provider. *)
BillOf(t) == ledger[t]
TotalBill == Total(ledger)

ReadBill ==
  /\ \/ at = "bill" /\ Require("bill", BillOf(Spender) = Ordinary + Bundle) /\ UNCHANGED before
     \/ at = "before" /\ before' = TotalBill /\ UNCHANGED failures
     \/ at = "unmoved" /\ Require("unmoved", TotalBill = before) /\ UNCHANGED before
  /\ at' = After(at)
  /\ UNCHANGED <<seededVars, raised, over, sequence, awaiting, told, refusals, bounced, batches>>

(* Mutant: the two sides of the demonstration are not compared. *)
SummaryUncompared ==
  /\ at = "summary"
  /\ at' = After("summary")
  /\ Require("summary", Price * TotalBill <= Cap)
  /\ over' = IF failures' = {} THEN "passed" ELSE "failed"
  /\ UNCHANGED <<seededVars, raised, sequence, awaiting, told, refusals, bounced, before, batches>>

Summary ==
  /\ at = "summary"
  /\ at' = After("summary")
  /\ Require("summary", told = TotalBill /\ Price * TotalBill <= Cap)
  /\ over' = IF failures' = {} THEN "passed" ELSE "failed"
  /\ UNCHANGED <<seededVars, raised, sequence, awaiting, told, refusals, bounced, before, batches>>

Client ==
  \/ Begin \/ Send \/ Receive \/ LoseReplica
  \/ ReadList \/ ReadJob \/ ReadUsage \/ ReadSpent
  \/ Bounce \/ ReadBill \/ Summary

(* The process has ended, or will not begin, and the application is idle. *)
Quiet ==
  /\ over # "no" \/ at = "ready"
  /\ \A r \in Requests : ~Active(r) /\ ~AtProvider(r)
  /\ UNCHANGED demoVars

DemoNext ==
  \/ Client
  \/ SeedStep
  \/ \E r \in Earlier : EarlierArrives(r)
  \/ \E r \in Requests : HandlerStep(r) \/ ProviderStep(r) \/ FaultStep(r)
  \/ \E p \in Replicas : CrashStep(p)
  \/ Quiet

DemoSpec == DemoInit /\ [][DemoNext]_demoVars

-----------------------------------------------------------------------------
(* Properties *)

(* A verdict has grounds. The demonstration fails only when something went
   wrong that it may blame: a fault of the store or a replica, a call that
   failed or ran out of time, or a request carried over from an earlier run. A
   pass says that at that moment the bill holds exactly the lookups of the
   requests that were answered 201: none of an abandoned call or another run
   (sequential.py run, "The two sides of the demonstration must agree").     *)
FailureHasCause ==
  failures # {} =>
    \/ ~NoFaults
    \/ carried # {}
    \/ \E r \in Issued : phase[r] = "failed"

PassHidesNothing ==
  [][over' = "passed" /\ over # "passed"
       => Lookups(counted) = Lookups({r \in Issued : phase[r] = "created"})]_demoVars

(* What verify.sh asks next: with a store that never failed and no earlier
   traffic, a run that passes has counted as refusals exactly the requests for
   which a replica logged a refusal event, whatever was shed or timed out
   (auditcheck.py check; api.py install_refusal_handler).                    *)
AuditGateAgrees ==
  over = "passed" /\ errors + lostAcks = 0 /\ FreshStart => LogLines = refusals
=============================================================================
