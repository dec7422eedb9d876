--------------------------- MODULE SpendPartition ---------------------------
(***************************************************************************)
(* What the secure application promises about money, without saying how.   *)
(* A tenant draws from its own partition of the company's budget, and the  *)
(* provider's bill for a tenant never outruns what was authorised for it.  *)
(*                                                                         *)
(*   authorised[t]  cents set aside for tenant t: held, or already charged *)
(*   pool           the same figure for the whole company                  *)
(*   billed[t]      cents the provider has billed for work done for t      *)
(***************************************************************************)
EXTENDS Naturals

CONSTANTS
  Tenants,     (* tenants that own a partition of the budget   *)
  Allowance,   (* cents in each tenant's partition             *)
  Cap          (* cents in the whole company's budget          *)

VARIABLES authorised, pool, billed

partitionVars == <<authorised, pool, billed>>

Init ==
  /\ authorised = [t \in Tenants |-> 0]
  /\ pool = 0
  /\ billed = [t \in Tenants |-> 0]

(* Set cents aside for t: its own partition and the company both have room. *)
Authorise(t, cents) ==
  /\ authorised[t] + cents <= Allowance
  /\ pool + cents <= Cap
  /\ authorised' = [authorised EXCEPT ![t] = @ + cents]
  /\ pool' = pool + cents
  /\ UNCHANGED billed

(* Hand back cents nothing was billed against. *)
Return(t, cents) ==
  /\ billed[t] + cents <= authorised[t]
  /\ cents <= pool
  /\ authorised' = [authorised EXCEPT ![t] = @ - cents]
  /\ pool' = pool - cents
  /\ UNCHANGED billed

(* The provider bills work done for t, within what was set aside for t. *)
Bill(t, cents) ==
  /\ billed[t] + cents <= authorised[t]
  /\ billed' = [billed EXCEPT ![t] = @ + cents]
  /\ UNCHANGED <<authorised, pool>>

Next ==
  \E t \in Tenants, cents \in 0..Allowance :
    \/ Authorise(t, cents)
    \/ Return(t, cents)
    \/ Bill(t, cents)

Spec == Init /\ [][Next]_partitionVars
=============================================================================
