------------------------- MODULE ProviderFixtureMC -------------------------
(***************************************************************************)
(* Three calls of two tenants over two seeded runs.                      *)
(***************************************************************************)
EXTENDS ProviderFixture, TLC

CONSTANTS acme, basil

TwoTenants == {[tenant |-> acme, items |-> 2], [tenant |-> basil, items |-> 1]}
=============================================================================
