------------------------- MODULE UnboundedPipeline -------------------------
(***************************************************************************)
(* The unbounded application's routes: POST /v1/enrich, POST /v1/imports   *)
(* and a cheap read, on several replicas over one store and one provider.  *)
(*                                                                         *)
(* It keeps a database connection for as long as it waits for the provider *)
(* and it waits without a deadline; money comes out of one undivided pool, *)
(* charged before the call and never given back; what it has committed     *)
(* itself to is written down in a statement of its own. An enrich may ask  *)
(* for one of the half fixes: an allowance counted in the process, or a    *)
(* deadline that answers the caller and lets the call go on. (What the     *)
(* request rate limiter allows is the subject of RateLimiter; here it may  *)
(* refuse at any time.) Statements are autocommitted: each is one step.    *)
(***************************************************************************)
EXTENDS Naturals, FiniteSets

CONSTANTS
  Tenants,         (* tenant_id of the bearer credentials                    *)
  Keys,            (* what a half fix counts against: tenants, client ids    *)
  Replicas,        (* application processes                                  *)
  Requests,        (* identities of the requests that may arrive             *)
  Workload,        (* what a request may be: see Descriptor                  *)
  MaxLookups,      (* no request names more                                  *)
  Price,           (* lookup_price_cents                                     *)
  Cap,             (* cap_cents of the spend_periods row                     *)
  PoolSize,        (* pool_max_size, connections per replica                 *)
  Flush,           (* ADMIT_FLUSH_RECORDS                                    *)
  Chunk,           (* ENRICH_CHUNK_RECORDS                                   *)
  LocalAllowance,  (* InProcessAllowance.allowance_cents                     *)
  MaxErrors,       (* budget of failed statements and connections            *)
  MaxCrashes       (* budget of replica deaths                               *)

Counted == {"in_process", "caller_keyed"}
Fixes   == {"none", "rate_limit", "deadline"} \cup Counted

(* key: the client id the caller sends, its tenant when it sends none. *)
Descriptor ==
  [tenant: Tenants, key: Keys, replica: Replicas, fix: Fixes,
   op: {"enrich", "import", "read"}, lookups: 0..MaxLookups]

ASSUME UnboundedAssumption ==
  /\ IsFiniteSet(Requests) /\ IsFiniteSet(Replicas) /\ Tenants \subseteq Keys
  /\ Workload \subseteq Descriptor /\ Workload # {}
  /\ {MaxLookups, Price, Cap, LocalAllowance, MaxErrors, MaxCrashes} \subseteq Nat
  /\ {PoolSize, Flush, Chunk} \subseteq Nat \ {0}

VARIABLES
  period,      (* committed_cents of the spend_periods row                   *)
  admitted,    (* admitted_work: records per tenant                          *)
  jobs,        (* rows of the jobs table: request, records, cents            *)
  pool,        (* connections each replica's pool has handed out             *)
  spent,       (* InProcessAllowance.spent, per process, half fix and key    *)
  req,         (* what each request is                                       *)
  phase,       (* where each request's handler stands                        *)
  flushed,     (* import: records written down as admitted                   *)
  performed,   (* import: records the provider has answered for              *)
  call,        (* the provider's side of each request's present call         *)
  billed,      (* the provider's books: lookups billed for each request      *)
  errors, crashes   (* faults injected so far                                *)

storeVars    == <<period, admitted, jobs>>
localVars    == <<flushed, performed>>
providerVars == <<call, billed>>
faultVars    == <<errors, crashes>>
vars == <<period, admitted, jobs, pool, spent, req, phase, flushed, performed,
          call, billed, errors, crashes>>

-----------------------------------------------------------------------------
(* "early" awaits the provider under the deadline of half fix 5; "queued" and
   "requeued" wait for a first and an import's second connection.            *)
Queued   == {"queued", "requeued"}
Holding  == {"flushing", "paying", "admitting", "calling", "storing", "reading"}
Outcomes == {"answered", "exhausted", "timed_out", "failed", "unavailable", "crashed"}
Phases   == {"absent", "arrived", "early"} \cup Queued \cup Holding \cup Outcomes
Calls    == {"idle", "sent", "working", "billed", "refused"}

Tenant(r) == req[r].tenant
Op(r)     == req[r].op
Size(r)   == req[r].lookups
Ended(r)  == phase[r] \in Outcomes
Active(r) == phase[r] \notin Outcomes \cup {"absent"}

(* Only the enrich route reads the half-fix header. *)
Fix(r) == IF Op(r) = "enrich" THEN req[r].fix ELSE "none"
Key(r) == IF Fix(r) = "caller_keyed" THEN req[r].key ELSE Tenant(r)

Least(a, b) == IF a <= b THEN a ELSE b

(* Records in the call a request makes, or is about to make. *)
CallSize(r) == IF Op(r) = "import" THEN Least(Chunk, Size(r) - performed[r]) ELSE Size(r)

Job == [request: Requests, records: Nat, cents: Nat]

TypeOK ==
  /\ period \in Nat
  /\ admitted \in [Tenants -> Nat]
  /\ jobs \subseteq Job
  /\ pool \in [Replicas -> Nat]
  /\ spent \in [Replicas -> [Counted -> [Keys -> Nat]]]
  /\ req \in [Requests -> Workload]
  /\ phase \in [Requests -> Phases]
  /\ flushed \in [Requests -> Nat] /\ performed \in [Requests -> Nat]
  /\ call \in [Requests -> Calls]
  /\ billed \in [Requests -> Nat]
  /\ errors \in 0..MaxErrors /\ crashes \in 0..MaxCrashes

NothingSpent == [f \in Counted |-> [k \in Keys |-> 0]]

Init ==
  /\ period = 0
  /\ admitted = [t \in Tenants |-> 0]
  /\ jobs = {}
  /\ pool = [p \in Replicas |-> 0]
  /\ spent = [p \in Replicas |-> NothingSpent]
  /\ req = [r \in Requests |-> CHOOSE w \in Workload : TRUE]
  /\ phase = [r \in Requests |-> "absent"]
  /\ flushed = [r \in Requests |-> 0] /\ performed = [r \in Requests |-> 0]
  /\ call = [r \in Requests |-> "idle"]
  /\ billed = [r \in Requests |-> 0]
  /\ errors = 0 /\ crashes = 0

Goto(r, place) == phase' = [phase EXCEPT ![r] = place]
Send(r)        == call' = [call EXCEPT ![r] = "sent"]

(* Leave the "async with pool.connection()" block. *)
GiveBack(r, place) ==
  /\ pool' = [pool EXCEPT ![req[r].replica] = @ - 1]
  /\ Goto(r, place)

-----------------------------------------------------------------------------
Arrive(r) ==
  /\ phase[r] = "absent"
  /\ \E w \in Workload : req' = [req EXCEPT ![r] = w]
  /\ Goto(r, "arrived")
  /\ UNCHANGED <<storeVars, pool, spent, localVars, providerVars, faultVars>>

Spent(r) == spent[req[r].replica][Fix(r)][Key(r)]

(* Mutant: the process-local allowance is looked at and not kept. *)
HasLocalRoomUnchecked(r) == TRUE

HasLocalRoom(r) ==
  Fix(r) \in Counted => Spent(r) + Price * Size(r) <= LocalAllowance

RefuseLocally(r) ==
  /\ phase[r] = "arrived"
  /\ ~HasLocalRoom(r) \/ Fix(r) = "rate_limit"
  /\ Goto(r, "exhausted")
  /\ UNCHANGED <<storeVars, pool, spent, req, localVars, providerVars, faultVars>>

(* Past the half fixes, with no await on the way: half fix 5 starts its task,
   everybody else asks the pool for a connection.                            *)
Enter(r) ==
  /\ phase[r] = "arrived"
  /\ HasLocalRoom(r)
  /\ spent' = IF Fix(r) \in Counted
              THEN [spent EXCEPT ![req[r].replica][Fix(r)][Key(r)] = @ + Price * Size(r)]
              ELSE spent
  /\ IF Fix(r) = "deadline" THEN Send(r) /\ Goto(r, "early")
                            ELSE UNCHANGED call /\ Goto(r, "queued")
  /\ UNCHANGED <<storeVars, pool, req, localVars, billed, faultVars>>

(* lookups_without_cancelling: its answer, its failure, or the deadline, which
   answers 504 and leaves the task to the event loop.                        *)
EarlyAnswer(r) ==
  /\ phase[r] = "early"
  /\ \/ call[r] = "billed" /\ Goto(r, "queued")
     \/ call[r] = "refused" /\ Goto(r, "failed")
     \/ Goto(r, "timed_out")
  /\ UNCHANGED <<storeVars, pool, spent, req, localVars, providerVars, faultVars>>

-----------------------------------------------------------------------------
TakeConnection(r) ==
  /\ phase[r] \in Queued
  /\ pool[req[r].replica] < PoolSize
  /\ pool' = [pool EXCEPT ![req[r].replica] = @ + 1]
  /\ Goto(r, CASE Op(r) = "read" -> "reading"
               [] Op(r) = "import" /\ phase[r] = "queued" -> "flushing"
               [] Op(r) = "import" /\ performed[r] = Size(r) -> "storing"
               [] OTHER -> "paying")
  /\ UNCHANGED <<storeVars, spent, req, localVars, providerVars, faultVars>>

(* Mutant: only metered requests give up on the pool. *)
PoolTimeoutMetered(r) ==
  /\ phase[r] \in Queued
  /\ Op(r) # "read"
  /\ pool[req[r].replica] = PoolSize
  /\ Goto(r, "unavailable")
  /\ UNCHANGED <<storeVars, pool, spent, req, localVars, providerVars, faultVars>>

(* pool_timeout_seconds pass with every connection handed out. *)
PoolTimeout(r) ==
  /\ phase[r] \in Queued
  /\ pool[req[r].replica] = PoolSize
  /\ Goto(r, "unavailable")
  /\ UNCHANGED <<storeVars, pool, spent, req, localVars, providerVars, faultVars>>

Read(r) ==
  /\ phase[r] = "reading"
  /\ GiveBack(r, "answered")
  /\ UNCHANGED <<storeVars, spent, req, localVars, providerVars, faultVars>>

-----------------------------------------------------------------------------
(* What the statements write. *)
Admit(r, records) == admitted' = [admitted EXCEPT ![Tenant(r)] = @ + records]
Pay(r)            == period' = period + Price * CallSize(r)
PoolHasRoom(r)    == period + Price * CallSize(r) <= Cap
FlushSize(r)      == Least(Flush, Size(r) - flushed[r])

(* Mutant: the job row reports what was admitted as what was charged. *)
InsertJobAsAdmitted(r) ==
  jobs' = jobs \cup {[request |-> r, records |-> Size(r), cents |-> Price * Size(r)]}

InsertJob(r) ==
  jobs' = jobs \cup {[request |-> r, records |-> Size(r), cents |-> Price * performed[r]]}

(* Import, first connection: the whole bundle becomes admitted work. *)
FlushAdmitted(r) ==
  /\ phase[r] = "flushing" /\ flushed[r] < Size(r)
  /\ Admit(r, FlushSize(r))
  /\ flushed' = [flushed EXCEPT ![r] = @ + FlushSize(r)]
  /\ UNCHANGED <<period, jobs, pool, spent, req, phase, performed, providerVars, faultVars>>

(* Mutant: the first connection is kept while the second is waited for. *)
FlushedKeepsConnection(r) ==
  /\ phase[r] = "flushing" /\ flushed[r] = Size(r)
  /\ Goto(r, "requeued")
  /\ UNCHANGED <<storeVars, pool, spent, req, localVars, providerVars, faultVars>>

Flushed(r) ==
  /\ phase[r] = "flushing" /\ flushed[r] = Size(r)
  /\ GiveBack(r, "requeued")
  /\ UNCHANGED <<storeVars, spent, req, localVars, providerVars, faultVars>>

(* Mutant: the call is started before the pool has been charged for it. *)
ChargePoolLate(r) ==
  /\ phase[r] = "paying"
  /\ PoolHasRoom(r)
  /\ IF Op(r) = "import"
     THEN Send(r) /\ Goto(r, "calling") /\ UNCHANGED period
     ELSE Pay(r) /\ UNCHANGED call /\ Goto(r, "admitting")
  /\ UNCHANGED <<admitted, jobs, pool, spent, req, localVars, billed, faultVars>>

(* Mutant: an import records each chunk it pays for as admitted once more. *)
ChargePoolRecording(r) ==
  /\ phase[r] = "paying"
  /\ PoolHasRoom(r)
  /\ Pay(r)
  /\ IF Op(r) = "import" THEN Send(r) /\ Goto(r, "calling") /\ Admit(r, CallSize(r))
                         ELSE UNCHANGED <<call, admitted>> /\ Goto(r, "admitting")
  /\ UNCHANGED <<jobs, pool, spent, req, localVars, billed, faultVars>>

(* charge_undivided_pool; an import goes on to its call, an enrich writes down
   what it commits itself to first.                                          *)
ChargePool(r) ==
  /\ phase[r] = "paying"
  /\ PoolHasRoom(r)
  /\ Pay(r)
  /\ IF Op(r) = "import" THEN Send(r) /\ Goto(r, "calling")
                         ELSE UNCHANGED call /\ Goto(r, "admitting")
  /\ UNCHANGED <<admitted, jobs, pool, spent, req, localVars, billed, faultVars>>

(* Mutant: the drained loop leaves its connection before the job is stored. *)
PoolDrainedReturning(r) ==
  /\ phase[r] = "paying"
  /\ ~PoolHasRoom(r)
  /\ GiveBack(r, IF Op(r) = "import" THEN "storing" ELSE "exhausted")
  /\ UNCHANGED <<storeVars, spent, req, localVars, providerVars, faultVars>>

(* No row updated: an enrich is refused, an import's loop ends where it is. *)
PoolDrained(r) ==
  /\ phase[r] = "paying"
  /\ ~PoolHasRoom(r)
  /\ IF Op(r) = "import" THEN Goto(r, "storing") /\ UNCHANGED pool
                         ELSE GiveBack(r, "exhausted")
  /\ UNCHANGED <<storeVars, spent, req, localVars, providerVars, faultVars>>

(* record_admitted_work, then the call, unless half fix 5 has its answer. *)
AdmitWork(r) ==
  /\ phase[r] = "admitting"
  /\ Admit(r, Size(r))
  /\ IF Fix(r) = "deadline" THEN UNCHANGED call /\ Goto(r, "storing")
                            ELSE Send(r) /\ Goto(r, "calling")
  /\ UNCHANGED <<period, jobs, pool, spent, req, localVars, billed, faultVars>>

(* The provider's answer; only an import has a next chunk. *)
Answer(r) ==
  /\ phase[r] = "calling" /\ call[r] = "billed"
  /\ call' = [call EXCEPT ![r] = "idle"]
  /\ IF Op(r) = "import"
     THEN LET done == performed[r] + CallSize(r) IN
          /\ performed' = [performed EXCEPT ![r] = done]
          /\ Goto(r, IF done = Size(r) THEN "storing" ELSE "paying")
     ELSE UNCHANGED performed /\ Goto(r, "storing")
  /\ UNCHANGED <<storeVars, pool, spent, req, flushed, billed, faultVars>>

CallFails(r) ==
  /\ phase[r] = "calling" /\ call[r] = "refused"
  /\ GiveBack(r, "failed")
  /\ UNCHANGED <<storeVars, spent, req, localVars, providerVars, faultVars>>

(* upsert_records or insert_job, and the answer. *)
Store(r) ==
  /\ phase[r] = "storing"
  /\ IF Op(r) = "import" THEN InsertJob(r) ELSE UNCHANGED jobs
  /\ GiveBack(r, "answered")
  /\ UNCHANGED <<period, admitted, spent, req, localVars, providerVars, faultVars>>

-----------------------------------------------------------------------------
(* The provider, as in SecurePipeline. *)
ProviderMoves(r, from, to) ==
  /\ call[r] = from
  /\ call' = [call EXCEPT ![r] = to]
  /\ UNCHANGED <<storeVars, pool, spent, req, phase, localVars, faultVars>>

AcceptCall(r) == ProviderMoves(r, "sent", "working") /\ UNCHANGED billed
RefuseCall(r) == ProviderMoves(r, "sent", "refused") /\ UNCHANGED billed
ChargeCall(r) ==
  /\ ProviderMoves(r, "working", "billed")
  /\ billed' = [billed EXCEPT ![r] = @ + CallSize(r)]

-----------------------------------------------------------------------------
(* Faults. A statement fails before it takes effect, or after it was committed
   and only its answer was lost; either way the handler answers 503 and the
   block gives the connection back.                                          *)
StatementFails(r) ==
  /\ errors < MaxErrors
  /\ errors' = errors + 1
  /\ phase[r] \in Holding \ {"calling"}
  /\ phase[r] = "flushing" => flushed[r] < Size(r)
  /\ \/ UNCHANGED storeVars
     \/ phase[r] = "flushing" /\ Admit(r, FlushSize(r))
          /\ UNCHANGED <<period, jobs>>
     \/ phase[r] = "paying" /\ PoolHasRoom(r) /\ Pay(r) /\ UNCHANGED <<admitted, jobs>>
     \/ phase[r] = "admitting" /\ Admit(r, Size(r)) /\ UNCHANGED <<period, jobs>>
     \/ phase[r] = "storing" /\ Op(r) = "import" /\ InsertJob(r)
          /\ UNCHANGED <<period, admitted>>
  /\ GiveBack(r, "unavailable")
  /\ UNCHANGED <<spent, req, localVars, providerVars, crashes>>

(* The process dies, of memory or otherwise, and a fresh one takes its place. *)
Crash(p) ==
  LET victims == {r \in Requests : Active(r) /\ req[r].replica = p} IN
  /\ crashes < MaxCrashes
  /\ victims # {}
  /\ crashes' = crashes + 1
  /\ phase' = [r \in Requests |-> IF r \in victims THEN "crashed" ELSE phase[r]]
  /\ pool' = [pool EXCEPT ![p] = 0]
  /\ spent' = [spent EXCEPT ![p] = NothingSpent]
  /\ UNCHANGED <<storeVars, req, localVars, providerVars, errors>>

Rest ==
  /\ \A r \in Requests : Ended(r) /\ call[r] \notin {"sent", "working"}
  /\ UNCHANGED vars

-----------------------------------------------------------------------------
Entering(r) == RefuseLocally(r) \/ Enter(r) \/ EarlyAnswer(r)
Importing(r) == FlushAdmitted(r) \/ Flushed(r)
Spending(r) == ChargePool(r) \/ PoolDrained(r) \/ AdmitWork(r) \/ Answer(r) \/ CallFails(r)

(* Everything a handler does but give up on the pool. *)
Handler(r) ==
  Entering(r) \/ TakeConnection(r) \/ Importing(r) \/ Spending(r) \/ Store(r) \/ Read(r)
Provider(r) == AcceptCall(r) \/ RefuseCall(r) \/ ChargeCall(r)

Next ==
  \/ \E r \in Requests :
       Arrive(r) \/ Handler(r) \/ PoolTimeout(r) \/ Provider(r) \/ StatementFails(r)
  \/ \E p \in Replicas : Crash(p)
  \/ Rest

Spec == Init /\ [][Next]_vars

(* The event loop runs what is ready, and the pool's timer expires. *)
LoopAndTimer == \A r \in Requests : WF_vars(Handler(r) \/ PoolTimeout(r))

(* The provider comes back with every call, and nobody need lose patience. *)
LoopAndProvider == \A r \in Requests : WF_vars(Handler(r)) /\ WF_vars(Provider(r))

-----------------------------------------------------------------------------
(* Properties *)

(* What n counts for the requests of S together; none names more lookups. *)
Lookups(S, n) == Cardinality({u \in S \X (1..MaxLookups) : u[2] <= n[u[1]]})
BilledTo(S)   == Lookups(S, billed)

(* The undivided pool is charged before the provider is called: whatever fails
   or dies in between, the bill stays within the period row and that within the
   company's cap. Only half fix 5 calls first (app.py enrich, import_bundle). *)
PeriodPaysBill ==
  /\ Price * BilledTo({r \in Requests : Fix(r) # "deadline"}) <= period
  /\ period <= Cap

(* "A process that runs out of memory halfway through a bundle still leaves
   behind an honest record of what it had already taken on": no call is billed
   for a tenant before its records are admitted, and none is admitted twice
   (store.py record_admitted_work; app.py: "recording it again would count the
   same obligation twice"); and no request is billed for more than it names,
   early answers and chunks included.                                        *)
AdmittedIsHonest ==
  \A t \in Tenants :
    LET own == {r \in Requests : Tenant(r) = t} IN
    /\ BilledTo({r \in own : Fix(r) # "deadline"}) <= admitted[t]
    /\ admitted[t] <= Lookups({r \in own : phase[r] # "absent"},
                               [r \in Requests |-> Size(r)])
    /\ \A r \in own : billed[r] <= Size(r)

(* A job row speaks of what the provider billed for it, drained or not. *)
JobsReportBill == \A j \in jobs : j.cents = Price * billed[j.request]

(* Half fixes 2 and 3 enforce the allowance exactly, once for every process
   that has lived: the bill that passes them grows with the replicas and their
   restarts, and by no more (halffixes.py InProcessAllowance).               *)
EnforcedPerProcess ==
  \A f \in Counted, k \in Keys :
    Price * BilledTo({r \in Requests : Fix(r) = f /\ Key(r) = k})
      <= LocalAllowance * (Cardinality(Replicas) + crashes)

(* The pool has handed out exactly what live handlers hold, one each, on every
   way out of the block, and never more than it has.                         *)
ConnectionsMatchHolders ==
  \A p \in Replicas :
    /\ pool[p] = Cardinality({r \in Requests : phase[r] \in Holding /\ req[r].replica = p})
    /\ pool[p] <= PoolSize

(* A cheap read is answered, if only by 503, although the provider keeps every
   connection's call for ever.                                               *)
ReadsAnswered ==
  LoopAndTimer =>
    \A r \in Requests : phase[r] = "arrived" /\ Op(r) = "read" ~> Ended(r)

(* With a provider that answers, every request ends without anyone giving up on
   the pool: an import waits for its second connection holding none, so no
   circle of holders forms, and a drained loop stops.                        *)
NobodyWaitsForever ==
  LoopAndProvider => \A r \in Requests : phase[r] = "arrived" ~> Ended(r)
=============================================================================
