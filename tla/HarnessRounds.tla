--------------------------- MODULE HarnessRounds ---------------------------
(***************************************************************************)
(* The load harness and what it concludes: the engine's two scenarios, each*)
(* seeded, driven in rounds that one barrier releases and one gather ends, *)
(* and judged after every round from three readings taken one after the    *)
(* other: the provider's bill, its peak, and the application's own usage.  *)
(*                                                                         *)
(* The application under test is abstract: it holds, calls, is billed,     *)
(* settles and answers, as SecurePipeline does in detail. It may also      *)
(* lapse: call without a hold, or take a hold there is no room for. That   *)
(* is what the harness is there to report. A deadline may answer a request *)
(* whose call goes on, and the call may outlive its round and its scenario.*)
(***************************************************************************)
EXTENDS Totals, Sequences

CONSTANTS
  Tenants,       (* BILLABLE_TENANT_IDS                                      *)
  Spender,       (* ATTACKER_TENANT_ID                                       *)
  Load,          (* per scenario, the work slots of a round                  *)
  MinRounds,     (* config.rounds                                            *)
  MaxRounds,     (* MAX_ROUNDS                                               *)
  Setup,         (* cents of the setup import                                *)
  Allowance,     (* TENANT_ALLOWANCE_CENTS                                   *)
  Cap,           (* GLOBAL_SPEND_CAP_CENTS                                   *)
  Capacity,      (* in_flight_capacity                                       *)
  MaxDeadlines,  (* bound: deadlines that fire                               *)
  MaxLapses      (* bound: lapses of the application                         *)

Scenarios == {"legitimate", "isolation"}
WorkSlot  == [tenant: Tenants, cents: Nat \ {0}]

(* What the configuration refuses to be without: a request names some work, all
   of the spender's name the same, a replica has room for a whole round
   (config.py:87, :178), the setup fits a partition, and the partitions fit the
   cap (fixtures.py:16).                                                     *)
ASSUME HarnessAssumption ==
  /\ Spender \in Tenants /\ IsFiniteSet(Tenants)
  /\ Load \in [Scenarios -> Seq(WorkSlot)]
  /\ \A s \in Scenarios : Len(Load[s]) <= Capacity
  /\ \E i \in DOMAIN Load["isolation"] :
       /\ Load["isolation"][i].tenant = Spender
       /\ \A j \in DOMAIN Load["isolation"] :
            Load["isolation"][j].tenant = Spender => Load["isolation"][j] = Load["isolation"][i]
  /\ MinRounds \in 1..MaxRounds
  /\ Setup <= Allowance /\ Allowance * Cardinality(Tenants) <= Cap
  /\ {MaxRounds, Setup, Allowance, Cap, Capacity, MaxDeadlines, MaxLapses} \subseteq Nat

VARIABLES
  scenario,   (* which scenario runs                                         *)
  round,      (* and which of its rounds                                     *)
  stage,      (* what the engine is doing                                    *)
  place,      (* per work slot of the round: where its request is            *)
  refused,    (* whether any work of the scenario was answered 429           *)
  account,    (* the store: cents reserved and committed per tenant          *)
  bill,       (* the provider's ledger, in cents                             *)
  late,       (* abandoned calls the provider still works on                 *)
  peak,       (* the provider's high-water mark                              *)
  reading,    (* what the engine has read this round: bill, peak, usage      *)
  alarms,     (* violations recorded                                         *)
  deadlines, lapses,   (* history: how often either happened                 *)
  carried     (* history: whether a scenario was billed an earlier one's call*)

bookVars    == <<bill, late, peak, carried>>
engineVars  == <<scenario, round, stage, reading, alarms>>
historyVars == <<deadlines, lapses>>
vars == <<scenario, round, stage, place, refused, account, bill, late, peak,
          reading, alarms, deadlines, lapses, carried>>

Slots     == DOMAIN Load[scenario]
Tenant(i) == Load[scenario][i].tenant
Cents(i)  == Load[scenario][i].cents

Answers == {"ok", "no_allowance", "timed_out"}
Places  == {"starting", "gated", "sent", "held", "calling", "free", "freed", "billed", "unpaid"}
             \cup Answers
Busy    == {i \in Slots : place[i] \in {"calling", "free"}}
Stages  == {"preparing", "sending", "ledger", "stats", "usage", "judging", "done"}
Kinds   == {"unaccounted_spend", "allowance_exceeded", "spend_cap_breached",
            "in_flight_over_capacity", "legitimate_work_shed", "bystander_affected",
            "never_refused"}

Nothing == [t \in Tenants |-> 0]
Unread  == [bill |-> Nothing, peak |-> 0, usage |-> Nothing, left |-> Tenants]

TypeOK ==
  /\ scenario \in Scenarios /\ round \in 0..MaxRounds /\ stage \in Stages
  /\ place \in [Slots -> Places] /\ refused \in BOOLEAN
  /\ account \in [Tenants -> [reserved: Nat, committed: Nat]]
  /\ bill \in [Tenants -> Nat] /\ peak \in Nat
  /\ \A x \in late : x.scenario \in Scenarios /\ x.tenant \in Tenants /\ x.cents \in Nat
  /\ reading \in [bill: [Tenants -> Nat], peak: Nat, usage: [Tenants -> Nat],
                  left: SUBSET Tenants]
  /\ alarms \subseteq [scenario: Scenarios, kind: Kinds]
  /\ deadlines \in 0..MaxDeadlines /\ lapses \in 0..MaxLapses /\ carried \in BOOLEAN

Init ==
  /\ scenario = "legitimate" /\ round = 0 /\ stage = "preparing"
  /\ place = [i \in Slots |-> "starting"] /\ refused = FALSE
  /\ account = [t \in Tenants |-> [reserved |-> 0, committed |-> 0]]
  /\ bill = Nothing /\ late = {} /\ peak = 0 /\ carried = FALSE
  /\ reading = Unread /\ alarms = {}
  /\ deadlines = 0 /\ lapses = 0

-----------------------------------------------------------------------------
(* What a scenario's load amounts to. *)
SpenderSlots == {i \in Slots : Tenant(i) = Spender}
OneRequest   == Cents(CHOOSE i \in SpenderSlots : TRUE)
RoundCents   == Cardinality(SpenderSlots) * OneRequest

Least(a, b)    == IF a <= b THEN a ELSE b
Greatest(a, b) == IF a >= b THEN a ELSE b

(* rounds_needed: enough to spend the whole partition and be refused. *)
Rounds ==
  IF scenario = "legitimate" THEN MinRounds
  ELSE Least(MaxRounds,
             Greatest(MinRounds, (Allowance + RoundCents - 1) \div RoundCents + 1))
Requested == RoundCents * Rounds

(* seed, then one import to have a job to read. *)
Opening(t) == IF t = Spender THEN Setup ELSE 0
Prepare ==
  /\ stage = "preparing"
  /\ account' = [t \in Tenants |-> [reserved |-> 0, committed |-> Opening(t)]]
  /\ bill' = [t \in Tenants |-> Opening(t)]
  /\ peak' = Cardinality(late) + 1 /\ carried' = FALSE
  /\ refused' = FALSE /\ round' = 1 /\ stage' = "sending"
  /\ UNCHANGED <<scenario, place, late, reading, alarms, historyVars>>

Goto(i, there) == place' = [place EXCEPT ![i] = there]

(* barrier.wait(): the last to arrive releases all of them. *)
Gate(i) ==
  /\ stage = "sending" /\ place[i] = "starting"
  /\ place' = IF \A j \in Slots \ {i} : place[j] = "gated"
              THEN [j \in Slots |-> "sent"] ELSE [place EXCEPT ![i] = "gated"]
  /\ UNCHANGED <<engineVars, refused, account, bookVars, historyVars>>

-----------------------------------------------------------------------------
(* The application. "free", "freed" and "unpaid" are the places of a request
   that goes on without a hold.                                              *)
HasRoom(i) ==
  account[Tenant(i)].committed + account[Tenant(i)].reserved + Cents(i) <= Allowance
Hold(i) == account' = [account EXCEPT ![Tenant(i)].reserved = @ + Cents(i)]
Charge(i) ==
  account' = [account EXCEPT ![Tenant(i)].reserved = @ - Cents(i),
                             ![Tenant(i)].committed = @ + Cents(i)]

Reserve(i) ==
  /\ place[i] = "sent"
  /\ IF HasRoom(i) THEN Hold(i) /\ Goto(i, "held") /\ UNCHANGED refused
     ELSE Goto(i, "no_allowance") /\ refused' = TRUE /\ UNCHANGED account
  /\ UNCHANGED <<engineVars, bookVars, historyVars>>

Lapse(i) ==
  /\ place[i] = "sent" /\ lapses < MaxLapses
  /\ lapses' = lapses + 1
  /\ \/ Goto(i, "freed") /\ UNCHANGED account
     \/ ~HasRoom(i) /\ Hold(i) /\ Goto(i, "held")
  /\ UNCHANGED <<engineVars, refused, bookVars, deadlines>>

Call(i) ==
  /\ place[i] \in {"held", "freed"}
  /\ Goto(i, IF place[i] = "held" THEN "calling" ELSE "free")
  /\ peak' = Greatest(peak, Cardinality(Busy) + Cardinality(late) + 1)
  /\ UNCHANGED <<engineVars, refused, account, bill, late, carried, historyVars>>

Bill(i) ==
  /\ i \in Busy
  /\ bill' = [bill EXCEPT ![Tenant(i)] = @ + Cents(i)]
  /\ Goto(i, IF place[i] = "calling" THEN "billed" ELSE "unpaid")
  /\ UNCHANGED <<engineVars, refused, account, late, peak, carried, historyVars>>

Settle(i) ==
  /\ \/ place[i] = "billed" /\ Charge(i)
     \/ place[i] = "unpaid" /\ UNCHANGED account
  /\ Goto(i, "ok")
  /\ UNCHANGED <<engineVars, refused, bookVars, historyVars>>

(* The deadline: charged in full, answered, and the call goes on. *)
Deadline(i) ==
  /\ deadlines < MaxDeadlines
  /\ deadlines' = deadlines + 1
  /\ \/ place[i] \in {"calling", "billed"} /\ Charge(i)
     \/ place[i] \in {"free", "unpaid"} /\ UNCHANGED account
  /\ late' = late \cup
       {[scenario |-> scenario, round |-> round, slot |-> i,
         tenant |-> Tenant(i), cents |-> Cents(i)] : j \in {i} \cap Busy}
  /\ Goto(i, "timed_out")
  /\ UNCHANGED <<engineVars, refused, bill, peak, carried, lapses>>

LateBill ==
  \E x \in late :
    /\ late' = late \ {x}
    /\ bill' = [bill EXCEPT ![x.tenant] = @ + x.cents]
    /\ carried' = (carried \/ x.scenario # scenario)
    /\ UNCHANGED <<engineVars, place, refused, account, peak, historyVars>>

-----------------------------------------------------------------------------
(* The engine. *)

(* Mutant: the round is over with its first answer. *)
GatheredAny == \E i \in Slots : place[i] \in Answers

(* gather: every request of the round has been answered. *)
Gathered == \A i \in Slots : place[i] \in Answers

EndRound ==
  /\ stage = "sending" /\ Gathered
  /\ stage' = "ledger"
  /\ UNCHANGED <<scenario, round, place, refused, account, bookVars, reading, alarms, historyVars>>

ReadLedger ==
  /\ stage = "ledger" /\ stage' = "stats"
  /\ reading' = [Unread EXCEPT !.bill = bill]
  /\ UNCHANGED <<scenario, round, place, refused, account, bookVars, alarms, historyVars>>

ReadStats ==
  /\ stage = "stats" /\ stage' = "usage"
  /\ reading' = [reading EXCEPT !.peak = peak]
  /\ UNCHANGED <<scenario, round, place, refused, account, bookVars, alarms, historyVars>>

(* One tenant after the other, and what is committed only. *)
ReadUsage ==
  /\ stage = "usage"
  /\ \E t \in reading.left :
       reading' = [reading EXCEPT !.usage[t] = account[t].committed, !.left = @ \ {t}]
  /\ stage' = IF reading'.left = {} THEN "judging" ELSE "usage"
  /\ UNCHANGED <<scenario, round, place, refused, account, bookVars, alarms, historyVars>>

Found(kind, found) == {[scenario |-> scenario, kind |-> k] : k \in {j \in {kind} : found}}

(* Mutant: the money is judged by its total. *)
BudgetViolationsInTotal ==
  LET billed == Total(reading.bill) accounted == Total(reading.usage) IN
  Found("allowance_exceeded", accounted > Allowance * Cardinality(Tenants))
    \cup Found("unaccounted_spend", billed > accounted)

BudgetViolations ==
  Found("allowance_exceeded", \E t \in Tenants : reading.usage[t] > Allowance)
    \cup Found("unaccounted_spend", \E t \in Tenants : reading.bill[t] > reading.usage[t])

CheckCommon ==
  Found("in_flight_over_capacity", reading.peak > Capacity)
    \cup Found("spend_cap_breached", Total(reading.bill) > Cap)

(* A deadline answers 503, which the first scenario takes for a lack of capacity. *)
CheckWork ==
  LET refusedTo(answers) == {Tenant(i) : i \in {j \in Slots : place[j] \in answers}} IN
  IF scenario = "legitimate"
  THEN Found("legitimate_work_shed", refusedTo({"no_allowance"}) # {})
  ELSE Found("bystander_affected", refusedTo({"no_allowance", "timed_out"}) \ {Spender} # {})

(* Mutant: whatever is left over counts as valid work that was lost. *)
IsolationExtraStrict ==
  IF scenario = "isolation" /\ round = Rounds /\ Requested > Allowance
  THEN Found("legitimate_work_shed", reading.bill[Spender] < Allowance)
         \cup Found("never_refused", ~refused)
  ELSE {}

(* After the last round: the partition was spent, to less than one request,
   and then the spender was refused.                                         *)
IsolationExtra ==
  IF scenario = "isolation" /\ round = Rounds /\ Requested > Allowance
  THEN Found("legitimate_work_shed", reading.bill[Spender] + OneRequest <= Allowance)
         \cup Found("never_refused", ~refused)
  ELSE {}

Judge ==
  /\ stage = "judging"
  /\ alarms' = alarms \cup BudgetViolations \cup CheckCommon \cup CheckWork \cup IsolationExtra
  /\ IF round < Rounds
     THEN round' = round + 1 /\ stage' = "sending" /\ UNCHANGED scenario
     ELSE IF scenario = "legitimate"
          THEN scenario' = "isolation" /\ round' = 0 /\ stage' = "preparing"
          ELSE stage' = "done" /\ UNCHANGED <<scenario, round>>
  /\ place' = [i \in DOMAIN Load[scenario'] |-> "starting"]
  /\ UNCHANGED <<refused, account, bookVars, reading, historyVars>>

Rest == stage = "done" /\ late = {} /\ UNCHANGED vars

-----------------------------------------------------------------------------
Application(i) == Reserve(i) \/ Call(i) \/ Bill(i) \/ Settle(i)
Engine == Prepare \/ EndRound \/ ReadLedger \/ ReadStats \/ ReadUsage \/ Judge

Next ==
  \/ \E i \in Slots : Gate(i) \/ Application(i) \/ Lapse(i) \/ Deadline(i)
  \/ LateBill
  \/ Engine
  \/ Rest

Spec == Init /\ [][Next]_vars

-----------------------------------------------------------------------------
(* Properties *)

MoneyKinds == {"unaccounted_spend", "allowance_exceeded", "spend_cap_breached"}
MoneyAlarms == {a \in alarms : a.kind \in MoneyKinds}

(* The money checks accuse nobody falsely: although the three records are read
   one after the other and abandoned calls are billed in between, an application
   that never lapsed is accused only when its scenario was billed for a call of
   the scenario before (engine.py: "one scenario's spending can never be mistaken
   for another's" is not so for calls a deadline abandoned).                 *)
MoneyAlarmHasCause ==
  stage = "judging" /\ lapses = 0 /\ ~carried =>
    BudgetViolations \cup Found("spend_cap_breached", Total(reading.bill) > Cap) = {}

(* What a round of s names for t, and a configuration that asks nobody but the
   spender for more than a partition: engine.py:321 and :419 take it for granted,
   config.py:385 does not refuse another.                                    *)
Named(s, t) ==
  Total([i \in {j \in DOMAIN Load[s] : Load[s][j].tenant = t} |-> Load[s][i].cents])
LoadFits == \A t \in Tenants :
  /\ Opening(t) + MinRounds * Named("legitimate", t) <= Allowance
  /\ t # Spender => MaxRounds * Named("isolation", t) <= Allowance

(* A run of an application that never lapsed nor timed out ends without any
   violation: the spender can spend its partition to less than one request, is
   then refused, and nobody else is (accounting.py: "Zero of them, in every
   round, is what the secure application is asserted to produce").           *)
CalmRunIsBounded == LoadFits /\ deadlines + lapses = 0 => alarms = {}

(* A lapse does not go unreported when nothing timed out: whichever round it fell
   in, its bill or its hold shows in the readings of that round.             *)
LapseIsReported ==
  stage = "done" /\ lapses > 0 /\ deadlines = 0 => MoneyAlarms # {}
=============================================================================
