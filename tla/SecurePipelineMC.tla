-------------------------- MODULE SecurePipelineMC --------------------------
(***************************************************************************)
(* Small instances of SecurePipeline. The workloads are chosen so that two *)
(* requests fill a partition and a third is refused, one enrich batch is   *)
(* over its bound, one import is over it and goes through, and two requests*)
(* of one replica compete for its slot.                                    *)
(***************************************************************************)
EXTENDS SecurePipeline, TLC

CONSTANTS acme, basil, left, right

Ask(t, p, op, n) == [tenant |-> t, replica |-> p, op |-> op, lookups |-> n]

(* One tenant's traffic over two replicas, and a bystander. *)
TwoTenants ==
  {Ask(acme, left, "enrich", 1), Ask(acme, left, "import", 2),
   Ask(acme, right, "enrich", 2), Ask(basil, left, "enrich", 1)}

(* One tenant, one replica: requests of different sizes draw on one row. *)
OneTenant ==
  {Ask(acme, left, "enrich", 1), Ask(acme, left, "import", 2)}

Symmetry == Permutations(Requests)

-----------------------------------------------------------------------------
(* What the repository says of the program, and the program does not do. *)

(* app.py, perform_lookups: "Every exit that is not a completed settle releases
   the reservation, so money is never held for work that did not happen." The
   exit of an except block whose own statement fails releases nothing.       *)
NoHoldOutlivesItsRequest ==
  \A r \in Requests : Terminal(r) => hold[r] # "held"

(* app.py, perform_lookups: "Settling is the last fallible thing this function
   does, so the release below can never run against a completed charge." It
   does when the COMMIT of the settle took effect and its answer was lost.   *)
UnwindsOnlyOpenHolds ==
  \A r \in Requests : phase[r] = "unwinding" => hold[r] = "held"

(* README: "in-flight work never over its cap", measured (accounting.py,
   IN_FLIGHT_OVER_CAPACITY) by the provider's own peak. A deadline frees the
   slot while the provider still works.                                      *)
ProviderLoadWithinCapacity ==
  Cardinality({r \in Requests : call[r] = "working"}) <= MaxInFlight * Cardinality(Replicas)
=============================================================================
