# Verification of limitless

*limitless* is a metered enrichment service built twice: a secure application that bounds the work a
caller may name, and an unbounded one that does not. Both call a metered provider that bills per
lookup, both keep their books in one shared PostgreSQL store, and a load harness judges each of them
from counted figures. This directory holds TLA+ models of that system, the TLC configurations that
check them on small instances, and TLAPS proofs of the results that hold for every instance.

Paths below are relative to `src/src/limitless/`.

## 1. The system

| component | source | state it keeps | operations | talks to |
|---|---|---|---|---|
| metered routes of the secure application | `secure/app.py` | one handler coroutine per request: `attempted`, the `Reservation`, the answer | `POST /v1/enrich`, `POST /v1/imports`, except block, 503 handler | limiter, provider, store |
| in-flight limiter and deadlines | `secure/capacity.py` | `_in_flight` per process | `slot`, `deadline` | metered routes |
| store | `store.py`, `schema.py`, `db.py` | rows of `tenant_allowances`, `spend_periods`, `admitted_work`, `records`, `jobs`; row locks | `reserve`, `settle`, `release`, `charge_undivided_pool`, `record_admitted_work`, `upsert_records`, `insert_job`, reads | both applications, seeding |
| bounded reading and expansion | `secure/bounds.py`, `secure/expansion.py` | bytes counted so far, decompressor, line buffer | `read_bounded_body`, `read_bounded_bundle`, `require_batch_within`, `bounded_page_size` | metered routes |
| provider fixture | `provider/app.py`, `provider/ledger.py` | ledger, slow mode, hold event, in-flight and peak counters | lookups, ledger, reset, stats, control | applications, seeding, harness |
| unbounded application | `vulnerable/app.py`, `vulnerable/shapes.py` | connection pool, abandoned tasks | the same routes without the bounds | provider, store |
| half fixes | `vulnerable/halffixes.py` | sliding window per key, spent cents per key, per process | `allow`, `charge`, `key_for` | unbounded application |
| seeding | `seed.py`, `fixtures.py` | none of its own | truncate and rebuild the rows, empty the provider's books, set the cap | store, provider |
| load harness | `harness/burst.py`, `engine.py`, `accounting.py` | records of a round, verdict | barrier-released rounds, checks, accounting | applications, provider, seeding |
| suites of shapes, half fixes and controls | `harness/controls.py`, `harness/vulnerable.py`, `harness/__main__.py`, `compare/engine.py` | a scenario's counts, the scenarios missed | one request after another, a verdict per scenario, an exit code | unbounded application, provider, seeding |
| shared HTTP boundary | `api.py`, `refusal.py`, `auth.py`, `audit.py`, `models.py` | request id, tenant id | refusal responses, read views, credentials, audit line | all routes |
| HTTP client | `httpclient.py`, `providerclient.py` | sequence number to replica | send and record | harness, demo, applications |
| sequential demo and audit gate | `demo/`, `auditcheck.py` | `Counter`: sequence, refusals, sums, failures | one request after another, the bill read from the provider, an exit code; the log lines counted | secure application, provider |
| tables, transcript, health check, fixture generator, command lines | `compare/table.py`, `harness/transcript.py`, `healthcheck.py`, `generate_expansion_fixture.py` | none | rendering | — |

How they interact. A metered request authenticates, reads its body within bounds, **reserves** its
cents in two rows of the store in one transaction, takes one of its replica's **slots**, **calls**
the provider under a cancelling deadline, **upserts** the records, **settles** the reservation into
a charge, and (an import) inserts a **job**. Any failure runs the except block: charge in full when
the call was attempted, give the hold back when it was shed. The provider is told nothing about a
caller that stopped waiting. Replicas share nothing but the store; each limiter is local.

What is hard: holds that live across an await during which every other replica changes the same row;
an abandoned call billed after its request was answered; failures between two database operations;
COMMITs whose answer is lost; a replica dying anywhere; lock order in the store; slots on every exit
path; counters that must not drift for the life of a process; and observers (the harness) that read
three places one after the other; a seeding that cuts into requests nobody has told about it; a client
that holds its own count against a bill and a log.

What makes each component correct:

* metered routes: the provider's bill for a tenant never exceeds what the store holds and has charged
  for it; every request is answered; nothing stays held without a fault; a job speaks of charged work;
* store: a request's cents are in exactly one place, both rows move together, ceilings hold, no two
  writers deadlock;
* limiter: its count is the number of calls waited for and never passes the cap;
* reading: nothing larger than the bound is accepted, nothing within it is refused;
* provider: a call is billed once, the counters never go negative, the peak is a true maximum;
* unbounded application: it really lacks what it says it lacks, and the company's cap still holds;
* half fixes: each enforces exactly what it says it enforces;
* harness: its verdict follows from what happened, not from the order in which it looked;
* seeding: a new run inherits from the requests carried into it and from nothing else;
* sequential demo: it fails only for a cause, and passes only when the bill is what was answered.

## 2. The plan

In this order, the most important behaviour first. ✓ exists.

1. ✓ `SpendPartition`: the abstract promise about money.
2. ✓ `SecurePipeline`: the metered routes over atomic store transactions, with limiter, provider,
   faults and crashes; implements `SpendPartition`. ✓ `SecurePipelineMC`: instances.
   ✓ `SecurePipelineProofs`: theorems for every instance.
3. ✓ `StoreTransactions`: the statements, row locks and READ COMMITTED rechecks inside the
   transactions that `SecurePipeline` takes as atomic, and the lock order of the upsert; its
   committed rows implement `SpendPartition` again, one level down (`CommitsWholeTransactions`).
4. ✓ `UnboundedPipeline`: the unbounded application's routes over a finite connection pool, the
   undivided pool of money and the half fixes.
5. ✓ `RateLimiter`: the sliding window of half fix 1, a module of its own because it has a clock.
6. ✓ `BoundedReading`: `read_bounded_body` and `read_bounded_bundle` chunk by chunk, against what
   the bounds say of the whole stream, and the line assembly of bundles.
7. ✓ `ProviderFixture`: hold, slow mode, peak and ledger reset while calls are in flight.
8. ✓ `HarnessRounds`: barrier-released rounds over an abstract application and the order in which
   the engine reads ledger, statistics and usage.
9. ✓ `Demonstrations`: extends `RateLimiter`; the suites that judge the unbounded application, and
   what one of them leaves behind for the next.

10. ✓ `Reseeding`: extends `SecurePipeline`; the two steps of a seeding over requests in flight.
11. ✓ `SequentialDemo`: extends `Reseeding`; the client of the sequential demonstration and the audit
    gate behind it.
12. ✓ `Counting`: sums as cardinalities, the lemmas the proofs share; ✓ `Totals`: the total line of the
    provider's bill, which demonstration and harness both read. ✓ `UnboundedPipelineProofs`: the
    invariants of that module for every instance.
13. ✓ `StoreTransactionsProofs`, `BoundedReadingProofs`, `ProviderFixtureProofs`: the invariants of
    those modules and the second refinement of `SpendPartition` for every instance.
14. ✓ The last two parts of `SecurePipelineProofs`: what a seeding leaves behind (`Reseeding`), and the
    client that drives the application through its script (`SequentialDemo`).
    ✓ `DemonstrationsProofs`: the limiter's window, the bill and the verdicts of the suites, and that
    on fresh processes a deterministic suite reproduces its script.
    ✓ `HarnessRoundsProofs`: the harness's verdicts.

Every safety invariant the runs check is proved. What is left is liveness, which is out of the prover's
reach. What is left to model is little and listed in section 7.

## 3. How the modules correspond to the code

One action is one stretch of a coroutine between two awaits, or one database transaction or
statement where the module says so. A handler's position is a string in `phase`, `place` or `stage`.
Variables called *history* in a module are not in the program: they remember what happened so that a
property can compare it with what the program wrote down.

### SecurePipeline

| state | code |
|---|---|
| `account`, `period`, `jobs` | rows of `tenant_allowances`, `spend_periods`, `jobs` |
| `inFlight` | `InFlightLimiter._in_flight` of each replica |
| `phase`, `attempted` | where `perform_lookups` stands, and its local |
| `call`, `ledger` | the provider's handler of the request's call, and its books |
| `hold` | history: what the rows carry for the request |

`Arrive` to `Reserve`/`RefuseAllowance` is `enrich` and `import_bundle` up to `store.reserve`;
`TakeSlot`, `Shed`, `Answer`, `CallFails`, `Deadline` are the `async with` around the call; `Upsert`,
`Settle`, `InsertJob` the completion; `Unwind…` the except block. Transactions are atomic here and
opened up in `StoreTransactions`. The provider's slow mode and hold are an arbitrary delay. The
request deadline wraps nothing but the upstream call that the upstream deadline wraps as well, so one
`Deadline` action, possible at any moment of that await, stands for both. `Crash` is a death and the
restart with an empty limiter. Faults are drawn from budgets: a failed statement (`MaxErrors`), a
COMMIT that took effect but whose answer was lost (`MaxLostAcks`), a crash (`MaxCrashes`). `Rest` is
the end of the run, so that TLC's deadlock check finds every other state in which nothing can happen.

### StoreTransactions

Each operation is opened with `Begin`, writes its rows one at a time (`Match` finds the row in the
statement's snapshot, `Write` waits for the row lock and judges the predicate again), and ends in
`Refuse`, `Commit` or `Fail`. `executemany` runs inside one transaction, so the upsert keeps its locks
to the end. What one transaction does to a row, and what happens to a request between transactions,
is `store.py` and `perform_lookups`; snapshots, row locks and rechecks are PostgreSQL, modelled from
how `store.py` relies on it and marked external.

### UnboundedPipeline

Here the pool's connections are in autocommit mode, so every statement is a step. A handler holds a
connection from `TakeConnection` to the end of its `async with` block. `Spent` and the counted half
fixes live in the process and die with it; the abandoned call of half fix 5 goes on at the provider (it is 5 in
`harness/controls.py` and called 4 in `vulnerable/app.py:160`).
Half fix 1 may refuse at any moment here; when it does is the subject of `RateLimiter`.

### BoundedReading

A message is its size, what it declares, the cumulative output of its first *n* bytes, where that output
has newlines, and how its stream ends. `Receive` cuts it into chunks in every possible way; `Expand` is one turn of the inner
loop of `expand_bounded`, with zlib still owing the output that did not fit in the step; `Close`
is the empty chunk that ends an ASGI body, `Finish` the flush. What passes the ceilings is fed to
the line assembler: `start` is where its buffer begins, `records` the intervals of output that were
handed to `json.loads`. Which bytes they are is left out.

### ProviderFixture

`place` follows a call through `occupied()` and the awaits of `lookups`; `Wait` and `Proceed` keep
what `asyncio.Event` does: setting it wakes every waiter once, and a waiter does not look again.
Seeding is two requests, `ResetLedger` and `BeginRun`, with anything in between them.

### HarnessRounds

`Prepare` seeds (and includes the import that sets a scenario up), `Gate` is the barrier, `EndRound`
the gather, then three readings in the order of `engine.py` and `Judge`. The application underneath
is abstract: reserve, call, bill, settle, and it may *lapse* (bill what it never held) within a
budget, because the question is what the harness says about it. A deadline abandons a call, which may be billed
during a later reading or a later scenario. `HarnessAssumption` is what the configuration and the
fixtures refuse to be without: a replica has room for a whole round (`config.py:87`, `:178`), the setup
fits a partition, the partitions fit the cap (`fixtures.py:16`), and the spender's requests in the second
scenario are alike (`engine.py:367`). One thing the engine takes for granted and nothing refuses: that
nobody but the spender is asked for more than a partition over all rounds (`engine.py:322`, `:419`; up to
20 rounds of up to 500 records could be). It is `LoadFits`, a hypothesis of `CalmRunIsBounded`. `CROSS_TENANT_CHARGE` has no counterpart: every billable
tenant has a role in the scenarios, so nothing could be charged to another.

### Reseeding and SequentialDemo

`Reseeding` adds the two steps of `seed` to `SecurePipeline`: `ResetRows` is the transaction that
truncates and rebuilds the rows, `ResetBill` the two requests to the provider. Nothing tells the
replicas; `carried` remembers which requests were in flight, whose hold is gone while their handlers
and calls go on. Their settles then take from rows that know nothing of them, or meet the CHECK.
`counted` is which calls the current bill is made of.

`SequentialDemo` puts the client of `demo/sequential.py` beside that application. `at` is the step of
the script, `awaiting` the request whose answer it waits for; `Receive` is `Counter.observe` and the
`require`s of the step, `told` what its answers added up to. A metered request is the whole handler of
`SecurePipeline`, interleaved with provider, faults and crashes; reads and over-limit inputs are one
step. `raised` is the exception that left the handler, from which the status and the log line follow.
A replica that dies under a request ends the process with an exception (`LoseReplica`). A request that
names no lookups adds nothing to the bill, whether it was counted or not, so `PassHidesNothing` compares
what the answered requests and the counted calls name.

`DemoAssumption` is what holds of the fixtures' numbers and the script takes for granted: two partitions
fit the cap (`fixtures.py:16`, asserted by the tests), the ordinary batch fits one request, it and the
legitimate bundle fit a partition, and the exhausting loop may send at least one full batch more than the
allowance, rounded down, pays for (`Slack`, 4 in `demo/sequential.py:311`).

### RateLimiter and Demonstrations

`RateLimiter` is `RequestRateLimiter.allow` with a clock that may stand still; `seen` holds what the deques
remember, each entry with its number so that two of one instant stay two. `Demonstrations` runs
suites on processes that outlive them: `Enrich` is one whole request of the sequential client
(repair, pool, provider, answer), or that request failing with 503 anywhere inside; each scenario is
a few actions that send requests and count answers, `Reproduced` is its verdict, `Judge` its entry in
`missed`, `StartSuite` the next command line. Only the burst of shape 4 and the abandoned call of half
fix 5 run beside the client. A lookup costs one cent; seeding is one step; the two reads whose
answers cannot change, the oversized upload and the limit of 600 polls are left out.

`FixturesAssumption` is how the numbers of `fixtures.py` and of the scenarios fit one another: the bundle is
worth ten caps, three allowances fit the cap, an allowance is a whole number of batches and the loops
that spend it try at least twice as often (40 and 60 times, five batches), the requests of a window alone do
not use up the cap and with batches they do, one batch is a small part of the cap, the abandoned call a small
part of a batch. The numbers of the repository satisfy it, and so do those of the run, where TLC
evaluates it; `FreshSuitesReproduce` alone rests on it.

## 4. What the runs check

Sizes are distinct states, on the bounds in the .cfg.

| run | bounds and why they are enough | shows |
|---|---|---|
| `pipeline_faults` (146 k) | three requests of two tenants on two replicas with one slot each; two requests fill a partition and the third is refused, one enrich is over its batch bound; one failed statement, one lost COMMIT answer, one crash, in every combination | bill ≤ holds + charges ≤ partition ≤ cap; rows say what the requests did; slots do not leak; jobs speak of charged work; nobody is refused because of a neighbour; the refinement of `SpendPartition` |
| `reseeding` (357 k) | two requests anywhere in their course when one seeding begins and when it ends, the same faults, no symmetry (liveness) | a new run inherits from carried requests and from nothing else, and the ceilings hold all the same; every request is answered; without faults or carried requests every hold drains |
| `sequential_demo` (2.0 M) | the whole script over two replicas; a partition of the legitimate work and one full batch; either earlier traffic of one request and a seeding that cuts into it, or one failed statement and one crash | a failure has a cause the run may blame; a pass hides no bill; the audit gate counts what the client counted |
| `store_rows` (106 k) | three requests naming the same two companies in opposite orders, one of them twice; the cap one cent below the partitions, so that either row may refuse; one failure | committed rows agree, no cycle of waiting, only whole transactions become visible and each within the ceilings |
| `unbounded_routes` (33 k) | two requests of any kind, a bundle larger than its flush and its chunk, two replicas with one connection each, all half fixes, a failed statement and a crash | the cap holds, admitted work is honest, jobs report the bill, a counted half fix counts per process, no connection leaks; a cheap read is answered by the pool's timeout; nobody waits for ever if the provider answers |
| `provider_fixture` (25 k) | three calls over two seeded runs | the bill and the high-water mark are true; a held call leaves at the next seeding |
| `bounded_reading` (159 k) | every bundle of up to five bytes that become 0, 1, 3 or 7 each, every ending, every cut; every text of up to six bytes with newlines anywhere in up to four bytes of gzip; every body around its bound | what is accepted fits; what is refused crossed a bound; the overshoot is one step; no line is parsed in part or twice; the inner loop ends |
| `harness_rounds` (90 k) | two tenants, two to four rounds, one deadline, one lapse; the partition is no multiple of a request, the cap is two partitions | no false money alarm within a scenario; a calm run is bounded; a lapse is reported |
| `demonstrations` (5.8 M) | the long suite of the comparison, and pairs of suites on the same processes; one 503, one restart, two window lengths of time; numbers scaled down so that the comparisons between them come out as with the real ones | what is reported as reproduced happened; untouched processes reproduce everything; the bill is accounted for through every seeding; the window is honoured exactly |
| `claim_hold`, `claim_settle`, `claim_in_flight` | two requests of one tenant on one replica, one fault or none | three statements of the repository that the code does not keep (section 6) |

The faults are one of each kind because each property speaks of one request or one pair: a second
fault of the same kind makes no new pair of positions of two requests and a fault. Counters are bounded by the number of requests; no guard
on a bound hides a behaviour except the budgets of faults, the clock of `RateLimiter` (`MaxTime`) and
`MaxSuites`, which is the length of a session. `MaxGrants` is larger than any run can use.
`CHECK_DEADLOCK FALSE` is set for `bounded_reading` alone: a reader stops at its verdict.

In `sequential_demo` two bounds keep the instance small: faults and earlier traffic are not combined
(`FreshStart`; `reseeding` combines them), and a seeding that finds nothing in flight is left out, because
it leaves exactly what `DemoInit` describes.

Every module states its type invariant (`Demonstrations` in its proofs, as `Books` and `CountsOK`). All
of them are proved; no run lists one, a type error of a variable would surface in the properties.

### Fairness

* `Reseeding!ReseedFairSpec`: weak fairness of each handler. The event loop runs every ready task and
  every expired timer, and a handler in its call always has its deadline. Nothing is assumed of the
  provider, of faults, of a request to arrive, or of a seeding.
* `UnboundedPipeline`: `ReadsAnswered` assumes the loop and the pool's timer (a `PoolTimeout` is
  raised after `timeout` seconds), nothing of the provider. `NobodyWaitsForever` assumes the loop and
  a provider that comes back with every call, and no timer: it asks whether holders can wait for
  each other. Both assumptions are in the property, as antecedents.
* `ProviderFixture!FairSpec`: ready tasks run, and seeding goes on to the next run.
* `BoundedReading!FairSpec`: the inner loop awaits nothing, so it runs.

## 5. What is proved

Sums over requests are written as cardinalities (`Worth(S)`, `Lookups(S, n)`, `CentsOf(S)` and
`ItemsOf(S)` count a set with one element for each lookup or cent), so that they follow from the
library's theorems on finite sets and no induction is needed. A least number and a largest one come
from the well-founded order of the naturals (`LeastNatural`, `LargestAtMember` of `Counting`), and the
lemmas on `Over` there move the sum of `Totals` one request or tenant at a time. The
proofs that a step preserves an invariant have one lemma or step per action.

### The secure application

`SecurePipelineProofs`, for any tenants, replicas, workload, prices, ceilings and budgets, and any
finite set of requests (`PipelineAssumption`, nothing else):

* `TypeCorrect`: `Spec => []TypeOK`; no reserved amount and no slot count goes below zero;
* `SlotsAreCalls`: `Spec => []SlotsMatchCalls`;
* `RowsFollowHolds`: `Spec => []RowsMatchHolds`;
* `BillStaysAuthorised`: `Spec => []BillWithinAuthorisation`;
* `Invariant`: `Spec => []IInv`, on which they rest.

`IInv` is `TypeOK ∧ Shape ∧ SlotsMatchCalls ∧ RowsMatchHolds ∧ Ceilings ∧ Books`. None of the four
results is inductive alone. That the bill is covered needs to know, for a call at the provider, that
its hold is still in the rows (or has been charged): `Shape` relates a request's phase, `attempted`,
its hold and its call. That a settle takes exactly what a reserve put there needs the rows as sums
over requests: `RowsMatchHolds`. `Ceilings` carries the two guards of `reserve` through settles that
move money from one column to the other, a repeated one included. `Books` says that the ledger is
what the billed calls name. A lost COMMIT answer is the hard case: the
second settle takes reserved cents that belong to another request, and `RowsMatchHolds` accounts for
it with the class `charged_twice`.

Its second part adds what follows in every state and for every step. `Paths` refines `Shape`
by the way a request took to its phase (what an unwinding or a finished request can still hold, and
that a job belongs to an import that was charged):

* `JobsAreCharged`, `ChecksAreABackstop`, `QuietTenantsAreSettled`: the invariants of those names' runs;
* `NoRefunds`: `Spec => ReleasedMeansNeverCalled`;
* `ImplementsPartition`: `Spec => KeepsPartition`, the refinement of `SpendPartition`, action by action;
* `NobodyPaysForANeighbour`: `Spec => RefusedByOwnPartitionOnly`, for finitely many tenants whose
  partitions fit into the cap. Those two hypotheses are the theorem's own, because the code does not
  establish them; `fixtures.py` chooses numbers that do.

### The unbounded application

`UnboundedPipelineProofs`, under `UnboundedAssumption`: `ConnectionsAreHeld`, `PeriodAlwaysPays`,
`AdmittedStaysHonest`, `JobsAreTrue` and `OneAllowancePerProcess` are the run's five invariants, for
bundles, flushes, chunks, pools, caps and allowances of any size and any number of crashes; they
and `TypeCorrect` rest on `Invariant`, `Spec => []UInv`.

The difficulty is a loop that is cut at any point. What is charged, admitted or spent so far is a sum
over all requests of a figure each has at its own place in its own loop, and `UInv` names those
figures: `Owed` (what the pool has paid for a request beyond its bill), `Carried` and `Pledged`
(the least and the most it can have been admitted for), `Counts` (what a process has let through).
Each action changes the figure of one request, and the lemmas of `Counting` (`TallyGrowsAtMost`,
`TallyGrowsAtLeast`, `TallyWithin`) move the sum. The shapes of the three routes say which
phase, figures and connection go together.

### The store, one level down

`StoreTransactionsProofs`, under `StoreAssumption`, for any number of tenants, requests, records and
failures:

* `NoWaitCycleHolds`: `Spec => []NoWaitCycle`. `LockOrder` ranks the rows, a tenant row below the period
  row and the records by their number (no transaction writes both money and records); what a
  transaction has still to write ranks above all it has locked. In a set of requests, the one whose next row ranks highest cannot wait for another of them.
* `CommittedRowsAlwaysAgree`, `TypeCorrect`: `Balanced` says of each open transaction that its
  uncommitted versions are right for the rows *as committed now*. Nothing but the row lock makes that
  so: an UPDATE is judged on what it finds once it has the lock, and from there to the commit nobody
  else can write. A snapshot that was matched before the lock is worth nothing and `Balanced` says
  nothing of it.
* `CommitsWholeTransactionsHolds`: `Spec => CommitsWholeTransactions`, the refinement of `SpendPartition`.
  A commit of a reserve, a release or a charge is a step of it, everything else a stutter.

### Reading

`BoundedReadingProofs`, under `ReadingAssumption`, for messages, chunks, steps and ceilings of any size:
`AcceptedAlwaysFits`, `RefusedAlwaysForCause` and `OvershootStaysBounded` rest on `Measured`, which says at
each await how much has come in, how much has been produced and how much zlib may still owe: between
two chunks no more than one byte of input grows into, because the inner loop has drained the rest.
That is why the flush at the end cannot get far beyond a ceiling either.
`RecordsAlwaysSurvive` rests on `Assembled`: the records are the lines that end before the buffer
begins, and the buffer holds no newline; between two awaits, wherever the cut falls.

### The provider

`ProviderFixtureProofs`, under `ProviderAssumption`: `BillIsTrue`, `PeakIsTrue` and `TypeCorrect`, for any
number of calls, holds and seeded runs. `Books` adds to the two properties only that a call that has
been counted has left.

### Seedings

The third part of `SecurePipelineProofs`, under `RunsAssumption` as well, for any number of seedings: `IInv` does
not survive one. A seeding wipes the rows and every hold, and tells nobody: the handlers it cuts into
settle and release afterwards what the rows know nothing of, and take it from a request of the new run.
`RunInv` therefore speaks of `carried` and other requests apart. `OwnHolds` says of the others what `Shape`
said of all; `Inherits` says that whatever secures a tenant's billed calls, the requests carried over
included, is no more than the sum of its rows and of what carried requests gave back; `RowsExact` is the
exact account of the rows as long as no COMMIT answer was lost; `RunBooks` says which calls the bill is made of.
`RunInvariant`, `SeedingTypeCorrect`, `SeedingKeepsSlots` (a limiter is not touched by a seeding) and
`RunsAreAccounted`, `ReseedSpec => []CarriedOverIsAccounted`.

### The sequential demonstration

The last part of `SecurePipelineProofs`, under `DemoAssumption`, for any numbers that fit the script, any
earlier traffic, and any budgets of faults. `Scripted` says where the client is: the requests of the steps
before are numbered and sent, what it awaits is what its step asks for, and no other of its requests is
active. `DemoTypeCorrect` follows, and each of the three claims adds its own invariant.

* `AuditGateHolds`: `DemoSpec => []AuditGateAgrees`. `Excused` says by position what a handler can have
  raised as long as no statement failed, so that the status of an answer tells a limit from any other end;
  `RefusalsAreLogged` then counts the client's refusals as the lines of its requests.
* `PassesHideNothing`: `DemoSpec => PassHidesNothing`. `TwoBooks` keeps the client's count and the bill as
  sums over two sets of requests, of which one lies in the other. A pass has found the sums equal, so
  the sets can differ in requests that name nothing and in no other.
* `FailuresHaveACause`: `DemoSpec => []FailureHasCause`. With nothing carried over, the application is the
  one of the first two parts (`Alone`): `IInv` and `Paths` hold although a seeding would have ended them.
  `Smooth` then follows a calm run through the script. Between two of its requests nothing is held
  (`AtRest`), so the spender's row is what its 201s name and the bill is the same sum (`RowsAtRest`,
  `SpenderPays`); the legitimate work and the bystander's fit (`ScriptFits`), and the exhausting loop
  must meet a 429, because what it may grant at most is worth more than the allowance.

### The suites and the limiter

`DemonstrationsProofs`. The limiter forgets on every call what has left its window, and judges by what is left.
`LimiterIsExact` and `SuitesMeetExactWindow` show `WindowIsExact` for the limiter alone and inside a session
of suites, for every window: `LimiterInv` says that it remembers nothing but what it
granted, and all of that which its window still reaches, in the order of a clock that never goes back, so
that `MaxRequests` grants are always a window apart. `BillIsExplained` rests on `Books`, the bill
as the period row plus what abandoned calls have cost, carried through every seeding. `VerdictsHold` is
`VerdictsAreTrue`: its invariant says, scenario by scenario, what the counters mean at each of its steps.

`FreshSuitesReproduce` is `FreshSuiteReproduces`, under `FixturesAssumption` as well: no failed request and
a prover that keeps up with its window are the property's own hypotheses. `FreshInv` follows a suite
through its script, in three parts.

* `Untouched`: what a scenario counts on is as the start of the processes left it until the scenario runs.
  Every suite goes through its scenarios in one order (`Rank`, `ScriptRanked`) and repeats none, so that
  nothing it did before can have filled this scenario's counters. The state of the *database* needs no
  such argument, because a scenario seeds it; the memory of the processes outlives a seeding.
* `Exact`: the bill is the pool's money to the cent, but for the one call half fix 5 abandons.
* `OnCourse`: one invariant for each scenario (`NamesIt`, `DrainsIt`, `AdmitsIt`, `HoldsIt`, `LimitsIt`,
  `KeysIt`, `AbandonsIt`, `SpendsIt`, `ServesIt`, `MeasuresIt`) that says by step what its counters are,
  exactly where the verdict is exact and as a bound where other requests get in between.

TLC checked `FreshInv` on the instance of `demonstrations` (5.8 million states) before it was proved.

### The harness

`HarnessRoundsProofs`, under `HarnessAssumption`, for any load, number of rounds, deadlines and lapses. `Base` is
the common ground: where the requests of a round can be at each stage of the engine, that what is reserved
is what the requests with a hold are worth, and that what is committed does not move while it is read.
Sums are cardinalities here as well (`Total`, `Over`, `Amount`), and `Shift` says once what each step of the
application does to a tenant's figures; each claim then adds what it needs and uses the same table:

* `MoneyAlarmsHaveCause`: `Covered` says that the bill and all that abandoned calls of this scenario will
  still add to it is committed or about to be. The bill is read *before* the usage: what is billed in
  between makes no alarm because it was committed when its deadline fired.
* `LapsesAreReported`: without deadlines nothing is committed that is not billed (`Timely`), so that a bill
  without a hold, or a hold beyond the partition, can be hidden by nothing (`Traced`).
* `CalmRunsAreBounded`: `Within` bounds what each tenant but the spender can have spent by what it was asked
  for, which is why it is never refused; `Pressed` bounds what the spender has spent from below, which is
  why it is refused in the last round at the latest and has then less than one request left.
* `HarnessTypeCorrect`: `Spec => []TypeOK`.

### Only model-checked

Liveness (`RunAnswersEveryRequest`, `RunHoldsDrain`, `ReadsAnswered`, `NobodyWaitsForever`,
`HeldCallsLeave`, `ChunksEnd`), which with fairness and ENABLED is out of the prover's reach. What a
recursive definition computes for every input would need induction with an operator parameter, which the
installed provers cannot instantiate; no module declares a RECURSIVE operator.

## 6. Where code and documentation part

Three disagreements have a run whose counterexample shows them.

* `claim_hold`: `secure/app.py:133` says "Every exit that is not a completed settle releases the
  reservation". The except block tries once; if its own statement fails, the hold stays for good.
* `claim_settle`: `secure/app.py:157` says the release "can never run against a completed charge". It
  does when the settle's COMMIT took effect and its answer was lost: the tenant is charged twice, with
  cents another request holds. The ceilings still hold (proved).
* `claim_in_flight`: `README.md:64` promises "in-flight work never over its cap", measured at the
  provider. A deadline frees the slot while the provider still works on the call.

Smaller ones, met on the way and without a run of their own:

* `store.py:166` says settle moves what was used; `secure/app.py` charges an attempted call in full,
  even one the provider turned away.
* `seed.py:8` and `harness/engine.py:80` say every run starts from nothing and that "no run can inherit
  another run's state"; a call that a deadline abandoned is billed after the books were emptied
  (`carried` in `HarnessRounds`, `Demonstrations` and `Reseeding`), and the settle of a handler that
  outlived a seeding takes what a request of the new run holds. `CarriedOverIsAccounted` bounds both.
* `auditcheck.py:5` says "exactly one event per refusal"; `httpclient.py:55` counts every 503 as a
  refusal, and the 503 of a store that is unavailable writes no event. `AuditGateAgrees` claims it for
  runs in which no statement failed.
* `demo/sequential.py:129` compares the bill with the answers once, at the end; a call that its
  deadline abandoned may be billed after that, and then a pass stands for less than was spent
  (`PassHidesNothing` speaks of the moment of the reading).
* `secure/expansion.py:14` says nothing beyond the ceiling is materialised; up to one step beyond it
  is (`OvershootBounded`).
* `harness/engine.py:322` and `:469` report shed or lost valid work for a request that a deadline
  answered, and a configuration whose capacity equals the load can be accused too.
* `harness/controls.py:153` states that the limiter refused the spender 0 times; on processes an
  earlier suite has used within the window that is not known, and any answer but 201 counts as a
  refusal (`:106`). `VerdictsAreTrue` therefore claims it for fresh processes and calm suites only.
* `harness/controls.py:198`: the rotated keys are the same on every run. Their allowances are spent
  by earlier runs on the same processes, so after a few of them this half fix no longer
  reproduces. `FreshSuiteReproduces` claims it for processes nothing has touched.
* `harness/controls.py:384` judges the abandoned call by the count after the request alone; a call
  left from an earlier suite would do as well. `before` is read and printed only; `VerdictsAreTrue`
  claims this verdict for fresh processes alone.

## 7. What is not modelled

* Rendering, transcripts, tables, command lines: no state outlives a call.
* Credentials and the content of the audit line: a pure lookup and a print; a request's tenant is fixed
  before the models begin. The four credential probes of the sequential demo read nothing that changes.
* Parsing of bodies, of a line of a bundle, of page sizes and of the environment; response models.
* The client's own timeout, which is longer than the deadlines behind it, and a failing read of the
  provider's ledger, which ends the demonstration with an exception as a dead replica does.
* Memory: the unbounded application's buffering is what it lacks bounds on, and no property of the
  models is about bytes held.
* Real time: a deadline may fire at any moment of the await it wraps, a timer fires eventually.
* The harness's probes of the cheap endpoint, which touch no money.
