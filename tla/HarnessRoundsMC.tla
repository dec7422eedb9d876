-------------------------- MODULE HarnessRoundsMC --------------------------
(***************************************************************************)
(* Two rounds of one request per tenant, then as many rounds as it takes   *)
(* two requests of the spender to use up its partition beside a bystander. *)
(* The partition is no multiple of the request, so a cent is left over.    *)
(***************************************************************************)
EXTENDS HarnessRounds, TLC

CONSTANTS spender, bystander

Work(t, n) == [tenant |-> t, cents |-> n]

TwoScenarios ==
  [legitimate |-> <<Work(spender, 1), Work(bystander, 1)>>,
   isolation  |-> <<Work(spender, 2), Work(spender, 2), Work(bystander, 1)>>]
=============================================================================
