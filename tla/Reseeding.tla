----------------------------- MODULE Reseeding -----------------------------
(***************************************************************************)
(* Seeding a run while an earlier run's requests may still be in flight.   *)
(* limitless-seed first rebuilds the rows in one transaction and then      *)
(* empties the provider's bill over HTTP; the replicas are not restarted,  *)
(* and neither they nor the provider know that a run has ended.            *)
(*                                                                         *)
(* The module adds those two steps to SecurePipeline. A request that was   *)
(* in flight when the rows were rebuilt is "carried" into the new run: its *)
(* hold is gone from the rows, its handler and its call go on.             *)
(***************************************************************************)
EXTENDS SecurePipeline

CONSTANT MaxRuns    (* bound: how often the fixtures are seeded *)

ASSUME RunsAssumption == MaxRuns \in Nat

VARIABLES
  runs,      (* completed seedings                                           *)
  seeding,   (* "rows": the rows are rebuilt, the bill is not yet emptied    *)
  carried,   (* history: requests that were in flight at the last rebuild    *)
  counted    (* history: requests billed since the bill was last emptied     *)

seedVars == <<runs, seeding, carried, counted>>
seededVars == <<vars, seedVars>>

SeedTypeOK ==
  /\ runs \in 0..MaxRuns
  /\ seeding \in {"idle", "rows"}
  /\ carried \subseteq Requests
  /\ counted \subseteq Requests

SeedInit ==
  /\ runs = 0
  /\ seeding = "idle"
  /\ carried = {}
  /\ counted = {}

ReseedInit == Init /\ SeedInit

-----------------------------------------------------------------------------
AtProvider(r) == call[r] \in {"sent", "working"}

(* Mutant: spend_periods is missing from the list of tables. *)
EmptyRowsButPeriod ==
  /\ account' = [t \in Tenants |-> [reserved |-> 0, committed |-> 0, lookups |-> 0]]
  /\ UNCHANGED period
  /\ jobs' = {}
  /\ hold' = [r \in Requests |-> "none"]

(* TRUNCATE and the fixtures' rows, in one transaction. The hold of a request
   still on its way is wiped with everything else.                           *)
EmptyRows ==
  /\ account' = [t \in Tenants |-> [reserved |-> 0, committed |-> 0, lookups |-> 0]]
  /\ period' = [reserved |-> 0, committed |-> 0]
  /\ jobs' = {}
  /\ hold' = [r \in Requests |-> "none"]

ResetRows ==
  /\ seeding = "idle"
  /\ runs < MaxRuns
  /\ EmptyRows
  /\ carried' = {r \in Requests : Active(r) \/ AtProvider(r)}
  /\ seeding' = "rows"
  /\ UNCHANGED <<providerVars, faultVars, inFlight, req, phase, attempted, runs, counted>>

(* POST /ledger/reset and /control: from here on the bill is the new run's. *)
ResetBill ==
  /\ seeding = "rows"
  /\ ledger' = [t \in Tenants |-> 0]
  /\ counted' = {}
  /\ seeding' = "idle"
  /\ runs' = runs + 1
  /\ UNCHANGED <<storeVars, faultVars, call, jobs, inFlight, req, phase, attempted, carried>>

Seed == ResetRows \/ ResetBill

(* The rest of the system goes on as before, and the bill's entries are noted. *)
Noted ==
  /\ counted' = counted \cup {r \in Requests : call[r] # "billed" /\ call'[r] = "billed"}
  /\ UNCHANGED <<runs, seeding, carried>>

ReseedNext == (Next /\ Noted) \/ Seed

ReseedSpec == ReseedInit /\ [][ReseedNext]_seededVars

(* The event loop runs every ready task and every expired timer; nothing is
   assumed of the provider, which may keep a call for ever. Seeding is
   somebody's decision.                                                      *)
ReseedFairness == \A r \in Requests : WF_seededVars(Handler(r) /\ Noted)
ReseedFairSpec == ReseedSpec /\ ReseedFairness

-----------------------------------------------------------------------------
(* Properties *)

Carried(t, S) == {r \in carried \cap S : Tenant(r) = t}

(* A new run inherits from the requests carried into it, and from nothing else:
   each tenant's bill stays within what the rows authorise plus what those
   requests were billed or gave back in the new run, the ceilings hold all the
   same, and as long as no COMMIT answer was lost every cent in the rows is
   held or charged for a request of the run, or taken by a carried one
   (seed.py reset_fixtures and reset_provider; the guards are store.py's
   predicates and the CHECK constraints of schema.py).                       *)
CarriedOverIsAccounted ==
  /\ seeding = "idle" =>
       \A t \in Tenants :
         Price * ledger[t] <= account[t].committed + account[t].reserved
                              + Worth(Carried(t, counted))
                              + Worth(Carried(t, HoldsOf({"released"})))
  /\ \A t \in Tenants : account[t].committed + account[t].reserved <= Allowance
  /\ period.committed + period.reserved <= Cap
  /\ lostAcks = 0 =>
       /\ \A t \in Tenants :
            /\ account[t].reserved + Worth(Carried(t, HoldsOf({"charged_twice"})))
                 <= Worth(Of(t, {"held"}))
            /\ account[t].committed = Worth(Of(t, {"charged", "charged_twice"}))
       /\ period.committed = Worth(HoldsOf({"charged", "charged_twice"}))

(* Every request that enters a handler is answered, even when the provider
   never answers, its hold is wiped under it and faults strike: the deadline
   frees it, and every way out of the except block is an answer.             *)
RunAnswersEveryRequest == \A r \in Requests : phase[r] = "arrived" ~> Terminal(r)

(* Without faults, and as long as no request was carried across a seeding, the
   money held for a tenant always drains.                                    *)
RunHoldsDrain ==
  [](NoFaults /\ carried = {}) =>
    \A t \in Tenants : (account[t].reserved > 0 ~> account[t].reserved = 0)
=============================================================================
