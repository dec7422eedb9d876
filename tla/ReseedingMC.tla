---------------------------- MODULE ReseedingMC ----------------------------
(***************************************************************************)
(* A small instance of Reseeding: two requests of one tenant or of two,    *)
(* either of which may be in flight when the fixtures are seeded.          *)
(***************************************************************************)
EXTENDS Reseeding

CONSTANTS acme, basil, left, right

Ask(t, p, op, n) == [tenant |-> t, replica |-> p, op |-> op, lookups |-> n]

TwoTenants ==
  {Ask(acme, left, "enrich", 1), Ask(acme, left, "import", 2),
   Ask(acme, right, "enrich", 2), Ask(basil, left, "enrich", 1)}
=============================================================================
