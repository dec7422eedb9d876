-------------------------- MODULE ProviderFixture --------------------------
(***************************************************************************)
(* The metered provider fixture and the two who steer it: the harness,     *)
(* which holds and slows it, and the seeding that begins every run by      *)
(* emptying its bill and then switching its controls off.                  *)
(*                                                                         *)
(* A lookup call yields once, waits while the fixture is held, waits again *)
(* if it is slow, charges and answers; its caller may long be gone. All of *)
(* it is one event loop: a step runs from one await to the next.           *)
(***************************************************************************)
EXTENDS Naturals, FiniteSets

CONSTANTS
  Tenants,   (* tenants the calls are billed to                             *)
  Calls,     (* identities of the lookup calls that may arrive              *)
  Workload,  (* what a call may be: see Descriptor                          *)
  MaxItems,  (* no call names more                                          *)
  Runs       (* bound: how many runs are seeded                             *)

Descriptor == [tenant: Tenants, items: 0..MaxItems]

ASSUME ProviderAssumption ==
  /\ IsFiniteSet(Calls)
  /\ Workload \subseteq Descriptor /\ Workload # {}
  /\ MaxItems \in Nat /\ Runs \in Nat

VARIABLES
  what,      (* what each call is                                           *)
  place,     (* where each call's handler stands                            *)
  inFlight,  (* _in_flight                                                  *)
  peak,      (* _peak_in_flight                                             *)
  held,      (* whether _released is clear                                  *)
  slow,      (* slow_mode                                                   *)
  ledger,    (* Ledger._lookups                                             *)
  run,       (* how many runs have been begun                               *)
  counted,   (* history: calls charged since the bill was last emptied      *)
  busiest,   (* history: most handlers inside at once since then            *)
  seeding    (* where reset_provider stands                                 *)

controlVars == <<held, slow>>
bookVars    == <<ledger, counted>>
loadVars    == <<inFlight, peak, busiest>>
vars == <<what, place, inFlight, peak, held, slow, ledger, run, counted,
          busiest, seeding>>

(* "woken": the event was set while the call waited for it. asyncio wakes every
   waiter of that moment, and none looks again whether it is still set.      *)
Inside == {"yielding", "waiting", "woken", "delayed"}
Places == {"absent", "answered"} \cup Inside
Busy   == {c \in Calls : place[c] \in Inside}

TypeOK ==
  /\ what \in [Calls -> Workload]
  /\ place \in [Calls -> Places]
  /\ inFlight \in Nat /\ peak \in Nat
  /\ held \in BOOLEAN /\ slow \in BOOLEAN
  /\ ledger \in [Tenants -> Nat]
  /\ run \in 0..Runs
  /\ counted \subseteq Calls /\ busiest \in Nat
  /\ seeding \in {"idle", "emptied"}

(* A fixture just started, and seeding about to begin the first run. *)
Init ==
  /\ what = [c \in Calls |-> CHOOSE w \in Workload : TRUE]
  /\ place = [c \in Calls |-> "absent"]
  /\ inFlight = 0 /\ peak = 0 /\ busiest = 0
  /\ held = FALSE /\ slow = FALSE
  /\ ledger = [t \in Tenants |-> 0] /\ counted = {}
  /\ run = 0
  /\ seeding = "idle"

Max2(a, b) == IF a >= b THEN a ELSE b
Goto(c, there) == place' = [place EXCEPT ![c] = there]

-----------------------------------------------------------------------------
(* Entering "with state.occupied()". *)
Occupy(c) ==
  /\ inFlight' = inFlight + 1
  /\ peak' = Max2(peak, inFlight + 1)
  /\ busiest' = Max2(busiest, Cardinality(Busy \cup {c}))

Arrive(c) ==
  /\ place[c] = "absent" /\ run > 0
  /\ \E w \in Workload : what' = [what EXCEPT ![c] = w]
  /\ Occupy(c)
  /\ Goto(c, "yielding")
  /\ UNCHANGED <<controlVars, bookVars, run, seeding>>

(* Ledger.charge, the answer, and out of the "with". *)
ChargeAndAnswer(c) ==
  /\ ledger' = [ledger EXCEPT ![what[c].tenant] = @ + what[c].items]
  /\ counted' = counted \cup {c}
  /\ inFlight' = inFlight - 1
  /\ Goto(c, "answered")
  /\ UNCHANGED <<peak, busiest>>

(* Mutant: a delayed call is charged before it sleeps, and again after it. *)
DelayCharged(c) ==
  /\ Goto(c, "delayed")
  /\ ledger' = [ledger EXCEPT ![what[c].tenant] = @ + what[c].items]
  /\ counted' = counted \cup {c}
  /\ UNCHANGED loadVars

Delay(c) == Goto(c, "delayed") /\ UNCHANGED <<bookVars, loadVars>>

(* await_release when the fixture is held. *)
Wait(c) ==
  /\ place[c] = "yielding" /\ held
  /\ Goto(c, "waiting")
  /\ UNCHANGED <<what, loadVars, controlVars, bookVars, run, seeding>>

(* Past the hold: slow mode delays, otherwise straight to the answer. *)
Proceed(c) ==
  /\ place[c] = "woken" \/ (place[c] = "yielding" /\ ~held)
  /\ IF slow THEN Delay(c) ELSE ChargeAndAnswer(c)
  /\ UNCHANGED <<what, controlVars, run, seeding>>

DelayEnds(c) ==
  /\ place[c] = "delayed"
  /\ ChargeAndAnswer(c)
  /\ UNCHANGED <<what, controlVars, run, seeding>>

-----------------------------------------------------------------------------
Woken == [c \in Calls |-> IF place[c] = "waiting" THEN "woken" ELSE place[c]]

(* Mutant: setting the event wakes nobody; a waiter looks for itself. *)
SetControlQuietly(hold, slowly) ==
  /\ held' = hold /\ slow' = slowly
  /\ UNCHANGED place

(* POST /control: a release wakes whoever waits. *)
SetControl(hold, slowly) ==
  /\ held' = hold /\ slow' = slowly
  /\ place' = IF hold THEN place ELSE Woken

(* The harness, between the seedings. *)
Control ==
  /\ seeding = "idle" /\ run > 0
  /\ \E hold, slowly \in BOOLEAN : SetControl(hold, slowly)
  /\ UNCHANGED <<what, loadVars, bookVars, run, seeding>>

(* Mutant: the high-water mark is set to nothing, whoever is inside. *)
ResetLedgerToNothing ==
  /\ seeding = "idle" /\ run < Runs
  /\ ledger' = [t \in Tenants |-> 0] /\ counted' = {}
  /\ peak' = 0 /\ busiest' = Cardinality(Busy)
  /\ seeding' = "emptied"
  /\ UNCHANGED <<what, place, inFlight, controlVars, run>>

(* POST /ledger/reset: an empty bill, and the mark where the level is now. *)
ResetLedger ==
  /\ seeding = "idle" /\ run < Runs
  /\ ledger' = [t \in Tenants |-> 0] /\ counted' = {}
  /\ peak' = inFlight /\ busiest' = Cardinality(Busy)
  /\ seeding' = "emptied"
  /\ UNCHANGED <<what, place, inFlight, controlVars, run>>

(* Then the controls, in a request of their own; with that a run begins. *)
BeginRun ==
  /\ seeding = "emptied"
  /\ SetControl(FALSE, FALSE)
  /\ run' = run + 1
  /\ seeding' = "idle"
  /\ UNCHANGED <<what, loadVars, bookVars>>

Seeding == ResetLedger \/ BeginRun

-----------------------------------------------------------------------------
Handler(c) == Wait(c) \/ Proceed(c) \/ DelayEnds(c)

Next ==
  \/ \E c \in Calls : Arrive(c) \/ Handler(c)
  \/ Control
  \/ Seeding

Spec == Init /\ [][Next]_vars

(* The event loop runs what is ready, delays end, and seeding goes on to its
   next run. Nobody need ever release the fixture otherwise.                 *)
FairSpec == Spec /\ WF_vars(Seeding) /\ \A c \in Calls : WF_vars(Handler(c))

-----------------------------------------------------------------------------
(* Properties *)

(* What the calls of S have to pay for; none names more than MaxItems. *)
ItemsOf(S) == Cardinality({u \in S \X (1..MaxItems) : u[2] <= what[u[1]].items})

(* The bill is exactly the calls charged since it was emptied, each once and to
   its own tenant, whatever the hold, slow mode and reset did around them.   *)
BillIsWhatWasCharged ==
  \A t \in Tenants :
    ledger[t] = ItemsOf({c \in counted : what[c].tenant = t})

(* The peak the application's bound is judged by is the true high-water mark of
   the calls inside since the bill was emptied, calls that were inside then
   included, and the counter behind it never drifts (provider/app.py occupied,
   forget_occupancy).                                                        *)
PeakIsHighWater == inFlight = Cardinality(Busy) /\ peak = busiest

(* Seeding sets free whatever an earlier run left held: a call that waits while
   a run is still to be begun is answered, although somebody may hold the
   fixture again before the call has run.                                    *)
HeldCallsLeave ==
  \A c \in Calls : place[c] = "waiting" /\ run < Runs ~> place[c] = "answered"
=============================================================================
