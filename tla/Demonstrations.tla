--------------------------- MODULE Demonstrations ---------------------------
(***************************************************************************)
(* The suites that drive the unbounded application and judge from counted  *)
(* figures whether each defect, each repair that fails and each control    *)
(* showed itself. One client sends one request after another, but what it  *)
(* drives outlives a scenario: the repairs' counters live in the replicas  *)
(* until they restart, time passes in the rate limiter's windows, and a    *)
(* call that a deadline abandoned is billed when it likes, perhaps in a    *)
(* later scenario or a later suite.                                        *)
(*                                                                         *)
(* The rate limiter is RateLimiter's. A lookup costs one cent here.        *)
(***************************************************************************)
EXTENDS RateLimiter

CONSTANTS
  Prover, Spender, Third,   (* BYSTANDER_TENANT_IDS[0], ATTACKER_, [1]       *)
  Sessions,      (* the suites an operator runs, one command after another   *)
  Cap,           (* GLOBAL_SPEND_CAP_CENTS                                   *)
  Allowance,     (* TENANT_ALLOWANCE_CENTS                                   *)
  Batch,         (* DRAIN_BATCH                                              *)
  Bundle,        (* records in the expansion fixture                         *)
  Chunk,         (* ENRICH_CHUNK_RECORDS                                     *)
  PoolSize,      (* vulnerable_pool_max_size                                 *)
  Abandoned,     (* lookups of the call the deadline abandons                *)
  SpendLimit,    (* requests in which a drain gives up                       *)
  Tolerance,     (* one in so many: how far two amplification ratios may lie *)
  MaxSuites,     (* bound: suites in a session                               *)
  MaxRestarts,   (* bound: restarts of the replicas between suites           *)
  MaxErrors      (* bound: requests answered 503                             *)

ASSUME DemonstrationAssumption ==
  /\ Keys = {Prover, Spender, Third} /\ Cardinality(Keys) = 3
  /\ {Cap, Allowance, Bundle, PoolSize, Abandoned, SpendLimit} \subseteq Nat \ {0}
  /\ {Batch, Chunk, Tolerance, Window} \subseteq Nat \ {0}
  /\ {MaxRestarts, MaxErrors} \subseteq Nat

(* How the numbers of fixtures.py and of the scenarios fit one another, which is
   what lets every scenario come out as its script says on fresh processes.  *)
ASSUME FixturesAssumption ==
  /\ 10 * Cap <= Bundle /\ 3 * Allowance <= Cap
  /\ \E m \in 1..SpendLimit : Allowance = m * Batch /\ 2 * m <= SpendLimit
  /\ MaxRequests <= Cap /\ Cap < MaxRequests + (MaxRequests - 1) * Batch
  /\ Tolerance * Batch <= Cap /\ 2 * Abandoned <= Batch

Shapes    == <<"names_the_work", "undivided_budget", "expansion", "in_flight">>
HalfFixes == <<"rate_limit", "caller_keyed", "compressed_size", "deadline", "in_process">>
Controls  == <<"authorized", "one_of_each", "more_capacity">>
Script ==
  [vulnerable |-> Shapes, half_fixes |-> HalfFixes, controls |-> Controls,
   compare |-> Shapes \o HalfFixes \o Controls]
ASSUME SessionAssumption ==
  MaxSuites \in Nat /\ \A s \in Sessions : s \in Seq(DOMAIN Script) /\ Len(s) <= MaxSuites

Replicas == {1, 2}
Counted  == {"in_process", "caller_keyed"}
LocalKeys ==
  Keys \cup ({"steady"} \X (1..MaxSuites)) \cup ({"rotated"} \X (1..SpendLimit))

VARIABLES
  session,    (* the session                                                 *)
  suite, mode, pos, step,   (* which suite, in which mode, and how far it is *)
  runs,       (* suites begun                                                *)
  n,          (* "sequence" of the scenario's loop                           *)
  tally,      (* its local variables; "truly" is history               *)
  missed,     (* scenarios of the suite that did not reproduce               *)
  period,     (* the spend_periods row: charged, cap                         *)
  bill,       (* the provider's ledger: total, and what abandoned calls added*)
  late,       (* abandoned calls at the provider: the suites that made them  *)
  held,       (* those of them a hold keeps                                  *)
  control,    (* the provider's controls: "free", "held" or "slow"           *)
  tasks,      (* shape 4: calls still to be made, and calls being made       *)
  spent,      (* the counters of half fixes 2 and 3, in each process         *)
  limited,    (* history: the limiter's refusals in this scenario            *)
  began,      (* history: when the limiter was first asked in it             *)
  fresh,      (* history: whether the suite found untouched processes        *)
  calm,       (* history: whether nothing failed or dragged on in it         *)
  errors, restarts   (* history                                              *)

scriptVars == <<session, suite, mode, pos, runs, missed, fresh, restarts>>
moneyVars  == <<period, bill>>
callVars   == <<late, held, control, tasks>>
vars == <<limiterVars, scriptVars, step, n, tally, moneyVars, callVars, spent,
          limited, began, calm, errors>>

Blank == [refused |-> 0, allowed |-> 0, first |-> 0, second |-> 0, peak |-> 0,
          ok |-> FALSE, truly |-> FALSE, ratios |-> <<>>]
Idle  == [waiting |-> 0, calling |-> 0]
Scenario == Script[suite][pos]
InFlight == tasks.calling + Cardinality(late)

Init ==
  /\ LimiterInit
  /\ session \in Sessions
  /\ suite = "none" /\ mode = "none" /\ pos = 0 /\ step = "ended" /\ runs = 0
  /\ n = 1 /\ tally = Blank /\ missed = {}
  /\ period = [charged |-> 0, cap |-> Cap] /\ bill = [total |-> 0, carried |-> 0]
  /\ late = {} /\ held = {} /\ control = "free" /\ tasks = Idle
  /\ spent = [c \in Replicas \X Counted \X LocalKeys |-> 0]
  /\ limited = [t \in Keys |-> 0] /\ began = 0
  /\ fresh = TRUE /\ calm = TRUE /\ errors = 0 /\ restarts = 0

-----------------------------------------------------------------------------
(* The application, one request at a time. *)
Ask(replica, tenant, lookups, fix, key) ==
  [replica |-> replica, tenant |-> tenant, lookups |-> lookups, fix |-> fix, key |-> key]
Plain(lookups) == Ask(1, Spender, lookups, "none", Spender)

Passes(a) ==
  CASE a.fix = "rate_limit" -> ~Full(a.tenant)
    [] a.fix \in Counted    -> spent[a.replica, a.fix, a.key] + a.lookups <= Allowance
    [] OTHER                -> TRUE

(* Mutant: the pool asks only whether there is money left. *)
HasAnyMoney(cents) == period.charged < period.cap
HasMoney(cents) == period.charged + cents <= period.cap
Served(a, failed) == Passes(a) /\ HasMoney(a.lookups) /\ ~failed

Pay(cents)  == period' = [period EXCEPT !.charged = @ + cents]
Bill(cents) == bill' = [bill EXCEPT !.total = @ + cents]

(* The repair in effect counts first, then the pool, then the provider. A 503
   may come before, between or after those two.                              *)
Enrich(a, failed) ==
  /\ failed => errors < MaxErrors /\ Passes(a)
  /\ errors' = IF failed THEN errors + 1 ELSE errors
  /\ calm' = (calm /\ ~failed)
  /\ IF a.fix = "rate_limit" THEN Allow(a.tenant) \/ Refuse(a.tenant)
     ELSE UNCHANGED limiterVars
  /\ limited' = IF a.fix = "rate_limit" /\ ~Passes(a)
                THEN [limited EXCEPT ![a.tenant] = @ + 1] ELSE limited
  /\ began' = IF step = "prove" /\ n = 1 THEN clock ELSE began
  /\ spent' = IF a.fix \in Counted /\ Passes(a)
              THEN [spent EXCEPT ![<<a.replica, a.fix, a.key>>] = @ + a.lookups] ELSE spent
  /\ \/ Served(a, failed) /\ Pay(a.lookups) /\ Bill(a.lookups)
     \/ ~Served(a, failed) /\ UNCHANGED moneyVars
     \/ failed /\ HasMoney(a.lookups) /\ Pay(a.lookups)
          /\ (Bill(a.lookups) \/ UNCHANGED bill)
  /\ UNCHANGED <<scriptVars, callVars>>

(* A call its deadline gave up on: billed when the provider is done with it. *)
LateBill ==
  /\ \E call \in late \ held : late' = late \ {call}
  /\ bill' = [total |-> bill.total + Abandoned, carried |-> bill.carried + Abandoned]
  /\ UNCHANGED <<limiterVars, scriptVars, step, n, tally, period, held, control, tasks,
                 spent, limited, began, calm, errors>>

(* The burst of shape 4: each call keeps a connection. *)
TaskCalls ==
  /\ tasks.waiting > 0
  /\ IF HasMoney(1)
     THEN Pay(1) /\ tasks' = [waiting |-> tasks.waiting - 1, calling |-> tasks.calling + 1]
     ELSE UNCHANGED period /\ tasks' = [tasks EXCEPT !.waiting = @ - 1]
  /\ UNCHANGED <<limiterVars, scriptVars, step, n, tally, bill, late, held, control,
                 spent, limited, began, calm, errors>>

TaskEnds ==
  /\ tasks.calling > 0 /\ control # "held"
  /\ Bill(1) /\ tasks' = [tasks EXCEPT !.calling = @ - 1]
  /\ UNCHANGED <<limiterVars, scriptVars, step, n, tally, period, late, held, control,
                 spent, limited, began, calm, errors>>

(* Only the limiter reads the clock: time passes when it may be read next. *)
TimePasses ==
  /\ step \in {"prove", "spend", "leftover"} /\ Tick
  /\ calm' = (calm /\ ~(step = "prove" /\ n > 1 /\ clock' - began >= Window))
  /\ UNCHANGED <<scriptVars, step, n, tally, moneyVars, callVars, spent, limited, began, errors>>

-----------------------------------------------------------------------------
(* The scenarios. *)
Goto(there) == step' = there /\ n' = 1
Again       == n' = n + 1 /\ UNCHANGED step
Note(field, value) == tally' = [tally EXCEPT ![field] = value]

FirstStep ==
  [names_the_work |-> "name", undivided_budget |-> "drain", expansion |-> "import",
   in_flight |-> "setup", rate_limit |-> "prove", caller_keyed |-> "steady",
   compressed_size |-> "import", deadline |-> "hold", in_process |-> "single",
   authorized |-> "ask", one_of_each |-> "ask", more_capacity |-> "fill"]

(* seed: empty rows, an empty bill, nothing held. It reaches no process. *)
Seed(cents) ==
  /\ period' = [charged |-> 0, cap |-> cents] /\ bill' = [total |-> 0, carried |-> 0]
  /\ control' = "free" /\ held' = {}

Begin ==
  /\ step = "begin" /\ Seed(Cap)
  /\ Goto(FirstStep[Scenario])
  /\ limited' = [t \in Keys |-> 0]
  /\ UNCHANGED <<limiterVars, scriptVars, tally, late, tasks, spent, began, calm, errors>>

(* Mutant: a drain of one request. *)
SpendOnce(a, field, then) ==
  \E failed \in BOOLEAN :
    /\ Enrich(a, failed)
    /\ IF Served(a, failed) THEN Note(field, tally[field] + a.lookups) ELSE UNCHANGED tally
    /\ Goto(then)

(* _spend_until_refused *)
SpendUntilRefused(a, field, then) ==
  \E failed \in BOOLEAN :
    /\ Enrich(a, failed)
    /\ IF Served(a, failed) THEN Note(field, tally[field] + a.lookups) ELSE UNCHANGED tally
    /\ IF Served(a, failed) /\ n < SpendLimit THEN Again ELSE Goto(then)

(* Four fifths of the budget, in one request. *)
NameTheWork ==
  /\ step = "name"
  /\ \E failed \in BOOLEAN :
       LET a == Plain((Cap * 4) \div 5) IN
       Enrich(a, failed) /\ Note("ok", Served(a, failed))
  /\ Goto("judge")

(* Only a 429 ends this drain. *)
DrainThePool ==
  /\ step = "drain"
  /\ \E failed \in BOOLEAN :
       LET a == Plain(Batch) IN
       /\ Enrich(a, failed)
       /\ IF (Served(a, failed) \/ failed) /\ n < SpendLimit THEN Again ELSE Goto("rest")
  /\ UNCHANGED tally

(* "Take exactly what is left", by the provider's own bill. *)
TakeTheRest ==
  /\ step \in {"rest", "leftover"}
  /\ LET limiting == step = "leftover"
         a == [Plain(Cap - bill.total) EXCEPT !.fix = IF limiting THEN "rate_limit" ELSE "none"]
     IN IF bill.total < Cap /\ (limiting => tally.allowed < MaxRequests)
        THEN /\ \E failed \in BOOLEAN : Enrich(a, failed)
             /\ Note("allowed", tally.allowed + 1)
        ELSE UNCHANGED <<limiterVars, scriptVars, tally, moneyVars, callVars, spent,
                         limited, began, calm, errors>>
  /\ Goto(IF step = "rest" THEN "bystanders" ELSE "judge")

AskForBystanders ==
  /\ step = "bystanders"
  /\ \E failed \in BOOLEAN :
       LET a == Ask(1, <<Prover, Third>>[n], 1, "none", Spender) IN
       /\ Enrich(a, failed)
       /\ IF Served(a, failed) THEN UNCHANGED tally ELSE Note("refused", tally.refused + 1)
  /\ IF n = 1 THEN Again ELSE Goto("judge")

(* Every record is admitted, then paid for in chunks while the pool lasts. *)
ImportTheBundle ==
  /\ step = "import"
  /\ \E failed \in BOOLEAN, chunks \in 0..(Bundle \div Chunk), admitted \in {0, Bundle} :
       /\ failed => errors < MaxErrors
       /\ IF failed THEN chunks > 0 => admitted = Bundle
          ELSE admitted = Bundle /\ (chunks * Chunk < Bundle => ~HasMoney((chunks + 1) * Chunk))
       /\ HasMoney(chunks * Chunk)
       /\ Pay(chunks * Chunk) /\ Bill(chunks * Chunk)
       /\ tally' = [tally EXCEPT !.ok = ~failed, !.first = admitted]
       /\ errors' = IF failed THEN errors + 1 ELSE errors
       /\ calm' = (calm /\ ~failed)
  /\ Goto("judge")
  /\ UNCHANGED <<limiterVars, scriptVars, callVars, spent, limited, began>>

-----------------------------------------------------------------------------
(* Shape 4 and half fix 5: the provider is held, or merely slow. *)
SetUp ==
  /\ step = "setup"
  /\ \E failed \in BOOLEAN :
       Enrich(Plain(1), failed) /\ Note("ok", Served(Plain(1), failed))
  /\ Goto("hold")

Hold ==
  /\ step = "hold"
  /\ control' = IF mode = "deterministic" THEN "held" ELSE "slow"
  /\ IF Scenario = "in_flight"
     THEN tasks' = [waiting |-> PoolSize, calling |-> 0] /\ Goto("poll")
     ELSE UNCHANGED tasks /\ Goto("send")
  /\ UNCHANGED <<limiterVars, scriptVars, tally, moneyVars, late, held, spent, limited,
                 began, calm, errors>>

Highest == IF tally.peak >= InFlight THEN tally.peak ELSE InFlight

(* Until the fixture itself confirms the calls; a natural burst may be over first. *)
Poll ==
  /\ step = "poll"
  /\ Note("peak", Highest)
  /\ IF InFlight >= PoolSize \/ (mode = "natural" /\ tasks = Idle)
     THEN Goto("cheap") ELSE UNCHANGED <<step, n>>
  /\ UNCHANGED <<limiterVars, scriptVars, moneyVars, callVars, spent, limited, began, calm,
                 errors>>

(* The cheap read needs a job to read and one connection. *)
AskTheCheapOne ==
  /\ step = "cheap"
  /\ \E answered \in BOOLEAN :
       /\ answered => tally.ok /\ (tasks.calling < PoolSize \/ mode = "natural")
       /\ ~answered => tasks.calling = PoolSize \/ ~tally.ok
       /\ tally' = [tally EXCEPT !.peak = Highest, !.ok = ~answered,
                                 !.truly = tasks.calling = PoolSize]
  /\ Goto("release")
  /\ UNCHANGED <<limiterVars, scriptVars, moneyVars, callVars, spent, limited, began, calm,
                 errors>>

(* Half fix 5 asks the provider before it takes a connection or any money. *)
SendWithDeadline ==
  /\ step = "send"
  /\ \/ /\ late' = late \cup {runs}
        /\ held' = IF control = "held" THEN held \cup {runs} ELSE held
        /\ Note("ok", TRUE) /\ UNCHANGED moneyVars
     \/ /\ control # "held" /\ UNCHANGED <<late, held, tally>>
        /\ IF HasMoney(Abandoned) THEN Pay(Abandoned) /\ Bill(Abandoned)
           ELSE /\ UNCHANGED period
                /\ bill' = [total |-> bill.total + Abandoned,
                            carried |-> bill.carried + Abandoned]
  /\ Goto("look")
  /\ UNCHANGED <<limiterVars, scriptVars, control, tasks, spent, limited, began, calm, errors>>

Look ==
  /\ step = "look"
  /\ tally' = [tally EXCEPT !.peak = InFlight, !.truly = runs \in late]
  /\ Goto("release")
  /\ UNCHANGED <<limiterVars, scriptVars, moneyVars, callVars, spent, limited, began, calm,
                 errors>>

Release ==
  /\ step = "release"
  /\ control' = "free" /\ held' = {}
  /\ Goto("judge")
  /\ UNCHANGED <<limiterVars, scriptVars, tally, moneyVars, late, tasks, spent, limited,
                 began, calm, errors>>

-----------------------------------------------------------------------------
(* Half fix 1. Whatever is not a 201 counts as the limiter's refusal. *)
ProveTheLimiter ==
  /\ step = "prove"
  /\ \E failed \in BOOLEAN :
       LET a == Ask(1, Prover, 1, "rate_limit", Prover) IN
       /\ Enrich(a, failed)
       /\ IF Served(a, failed) THEN UNCHANGED tally ELSE Note("refused", tally.refused + 1)
  /\ IF n <= MaxRequests THEN Again ELSE Goto("spend")

SpendInside ==
  /\ step = "spend"
  /\ \E failed \in BOOLEAN :
       LET a == Ask(1, Spender, Batch, "rate_limit", Spender) IN
       /\ Enrich(a, failed)
       /\ IF Served(a, failed) THEN Note("allowed", tally.allowed + 1) ELSE UNCHANGED tally
       /\ IF Served(a, failed) /\ n < MaxRequests THEN Again ELSE Goto("leftover")

(* Half fix 3: a key nobody has used, then a key per request. *)
SpendSteadily ==
  /\ step = "steady"
  /\ SpendUntilRefused(Ask(1, Spender, Batch, "caller_keyed", <<"steady", runs>>),
                       "first", "reseed")

Reseed ==
  /\ step = "reseed" /\ Seed(Cap) /\ Goto("rotated")
  /\ UNCHANGED <<limiterVars, scriptVars, tally, late, tasks, spent, limited, began, calm,
                 errors>>

SpendRotating ==
  /\ step = "rotated"
  /\ SpendUntilRefused(Ask(1, Spender, Batch, "caller_keyed", <<"rotated", n>>),
                       "second", "judge")

(* Half fix 2: one replica, then both in turn (httpclient: by sequence). *)
SpendAtOne ==
  /\ step = "single"
  /\ SpendUntilRefused(Ask(1, Prover, Batch, "in_process", Prover), "first", "double")
SpendAtBoth ==
  /\ step = "double"
  /\ SpendUntilRefused(Ask(1 + ((n - 1) % 2), Third, Batch, "in_process", Third),
                       "second", "judge")

(* The controls: ordinary requests, of which some cost a lookup ... *)
Ordinary == IF Scenario = "authorized" THEN 3 ELSE 4
AskOrdinarily ==
  /\ step = "ask"
  /\ \E failed \in BOOLEAN :
       LET a == Plain(IF n = 1 \/ (n = 3 /\ Ordinary = 4) THEN 1 ELSE 0) IN
       /\ Enrich(a, failed)
       /\ IF Served(a, failed) THEN Note("allowed", tally.allowed + 1) ELSE UNCHANGED tally
  /\ IF n < Ordinary THEN Again ELSE Goto("judge")

(* ... and the same drain with twice the money, and with half the batch. *)
Setting  == Len(tally.ratios) + 1
BatchNow == IF Setting = 3 THEN Batch \div 2 ELSE Batch
FillTheCap ==
  /\ step = "fill"
  /\ \E failed \in BOOLEAN :
       /\ Enrich(Plain(BatchNow), failed)
       /\ IF Served(Plain(BatchNow), failed) THEN Again ELSE step' = "measure" /\ UNCHANGED n
  /\ UNCHANGED tally

Measure ==
  /\ step = "measure"
  /\ Note("ratios", Append(tally.ratios, <<bill.total, n * BatchNow>>))
  /\ IF Setting = 3
     THEN Goto("judge") /\ UNCHANGED <<moneyVars, control, held>>
     ELSE Goto("fill") /\ Seed(IF Setting = 1 THEN 2 * Cap ELSE Cap)
  /\ UNCHANGED <<limiterVars, scriptVars, late, tasks, spent, limited, began, calm, errors>>

Steady(p, q) == (p[1] * q[2] - q[1] * p[2]) * Tolerance < p[2] * q[2]

-----------------------------------------------------------------------------
(* Mutant: exactly spent or merely not exceeded, all the same. *)
ReproducedRoughly ==
  CASE Scenario = "names_the_work"   -> tally.ok /\ 2 * bill.total >= Cap
    [] Scenario = "undivided_budget" -> tally.refused = 2
    [] Scenario \in {"expansion", "compressed_size"} -> tally.ok /\ tally.first >= 10 * Cap
    [] Scenario = "in_flight"        -> tally.ok
    [] Scenario = "rate_limit"       -> tally.refused > 0 /\ bill.total >= Cap
    [] Scenario = "caller_keyed"     -> tally.second > tally.first
    [] Scenario = "deadline"         -> tally.ok
    [] Scenario = "in_process"       -> tally.second > tally.first
    [] Scenario \in {"authorized", "one_of_each"} -> tally.allowed = Ordinary
    [] Scenario = "more_capacity"    -> TRUE

Reproduced ==
  CASE Scenario = "names_the_work"   -> tally.ok /\ 2 * bill.total >= Cap
    [] Scenario = "undivided_budget" -> tally.refused = 2
    [] Scenario \in {"expansion", "compressed_size"} -> tally.ok /\ tally.first >= 10 * Cap
    [] Scenario = "in_flight"        -> tally.ok /\ tally.peak >= PoolSize
    [] Scenario = "rate_limit"       -> /\ tally.refused = 1
                                        /\ tally.allowed < MaxRequests
                                        /\ bill.total >= Cap
    [] Scenario = "caller_keyed"     -> tally.first = Allowance /\ tally.second > Allowance
    [] Scenario = "deadline"         -> tally.ok /\ tally.peak >= 1
    [] Scenario = "in_process"       -> tally.first = Allowance
                                          /\ tally.second = 2 * Allowance
    [] Scenario \in {"authorized", "one_of_each"} -> tally.allowed = Ordinary
    [] Scenario = "more_capacity"    ->
         \A i, j \in 1..3 : Steady(tally.ratios[i], tally.ratios[j])

(* The burst is gathered before anything is judged. *)
Judging == step = "judge" /\ tasks = Idle

Judge ==
  /\ Judging
  /\ missed' = IF Reproduced THEN missed ELSE missed \cup {Scenario}
  /\ tally' = Blank
  /\ IF pos < Len(Script[suite]) THEN pos' = pos + 1 /\ Goto("begin")
     ELSE Goto("ended") /\ UNCHANGED pos
  /\ UNCHANGED <<limiterVars, session, suite, mode, runs, fresh, restarts, moneyVars, callVars,
                 spent, limited, began, calm, errors>>

(* One command line after the other, the replicas restarted in between or not. *)
StartSuite ==
  /\ step = "ended" /\ runs < Len(session)
  /\ suite' = session[runs + 1] /\ mode' \in {"deterministic", "natural"}
  /\ runs' = runs + 1 /\ pos' = 1 /\ missed' = {} /\ calm' = TRUE /\ Goto("begin")
  /\ \/ UNCHANGED <<limiterVars, spent, restarts>>
     \/ /\ restarts < MaxRestarts /\ runs > 0
        /\ restarts' = restarts + 1 /\ spent' = [c \in DOMAIN spent |-> 0]
        /\ seen' = [t \in Keys |-> {}] /\ granted' = [t \in Keys |-> <<>>] /\ UNCHANGED clock
  /\ fresh' = (late = {} /\ seen' = [t \in Keys |-> {}] /\ \A c \in DOMAIN spent : spent'[c] = 0)
  /\ UNCHANGED <<session, tally, moneyVars, callVars, limited, began, errors>>

Rest == step = "ended" /\ runs = Len(session) /\ late = {} /\ UNCHANGED vars

-----------------------------------------------------------------------------
Shape    == NameTheWork \/ DrainThePool \/ TakeTheRest \/ AskForBystanders \/ ImportTheBundle
              \/ SetUp \/ Hold \/ Poll \/ AskTheCheapOne \/ Release
HalfFix  == ProveTheLimiter \/ SpendInside \/ SpendSteadily \/ Reseed \/ SpendRotating
              \/ SendWithDeadline \/ Look \/ SpendAtOne \/ SpendAtBoth
Control  == AskOrdinarily \/ FillTheCap \/ Measure
Elsewhere == LateBill \/ TaskCalls \/ TaskEnds \/ TimePasses

Next == StartSuite \/ Begin \/ Shape \/ HalfFix \/ Control \/ Judge \/ Elsewhere \/ Rest

Spec == Init /\ [][Next]_vars

-----------------------------------------------------------------------------
(* Properties *)

(* A scenario that is said to have reproduced did: each of these verdicts is
   reached from answers and totals, and the facts behind it are facts about
   other state. Where another cause gives the same answers (a 503 looks like a
   refusal, an older window like this one, an older call like the one that was
   just abandoned) the history says there was none.                          *)
VerdictsAreTrue ==
  Judging /\ Reproduced =>
    /\ Scenario = "undivided_budget" /\ calm => ~HasMoney(1)
    /\ Scenario = "in_flight" /\ calm => tally.truly
    /\ Scenario = "deadline" /\ fresh => tally.truly
    /\ Scenario = "rate_limit" =>
         /\ bill.carried = 0 => ~HasMoney(1)
         /\ calm => limited[Prover] = 1
         /\ fresh => limited[Spender] = 0
    /\ Scenario = "caller_keyed" => spent[1, "caller_keyed", <<"steady", runs>>] = Allowance
    /\ Scenario = "in_process" =>
         /\ spent[1, "in_process", Prover] = Allowance
         /\ \A p \in Replicas : spent[p, "in_process", Third] = Allowance

(* "The deterministic mode carries the required vulnerable-side assertions"
   (__main__.py unreproduced_exit_code): on processes nothing has touched, with
   no 503 and a prover that keeps up with its window, every scenario reproduces,
   in whatever order the suite runs them on the same processes.              *)
FreshSuiteReproduces ==
  step = "ended" /\ runs > 0 /\ mode = "deterministic" /\ fresh /\ calm => missed = {}

(* Through every seeding, what the provider bills beyond the period row is what
   abandoned calls cost, and the row never passes its cap.                   *)
BillIsPoolAndAbandoned ==
  /\ bill.total <= period.charged + bill.carried
  /\ period.charged <= period.cap
=============================================================================
