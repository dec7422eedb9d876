------------------------ MODULE StoreTransactionsMC ------------------------
(***************************************************************************)
(* Small instances of StoreTransactions. Payloads name the same two        *)
(* companies in opposite orders, one names a company twice; a partition    *)
(* takes two of its tenant's requests but not three, and the cap one cent  *)
(* less than the partitions together, so that either row may refuse.       *)
(***************************************************************************)
EXTENDS StoreTransactions, TLC

CONSTANTS acme, basil

Ask(t, cents, records) == [tenant |-> t, cents |-> cents, records |-> records]

TwoTenants ==
  {Ask(acme, 1, <<2, 1>>), Ask(acme, 2, <<1, 2>>), Ask(basil, 2, <<2, 1, 2>>)}

Symmetry == Permutations(Requests)
=============================================================================
