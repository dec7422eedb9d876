-------------------------- MODULE SequentialDemoMC --------------------------
(***************************************************************************)
(* A small instance of SequentialDemo. The spender's partition takes the   *)
(* legitimate work and one full batch; the bystander asks for one record.  *)
(* The earlier run leaves at most one request behind.                      *)
(***************************************************************************)
EXTENDS SequentialDemo

CONSTANTS acme, basil, left, right

OverBothReplicas == <<left, right>>

TheWork ==
  {Work(t, p, o[1], o[2]) :
     t \in {acme, basil}, p \in {left, right},
     o \in {<<"enrich", 1>>, <<"import", 1>>, <<"import", 2>>, <<"enrich", 2>>, <<"enrich", 3>>}}

EarlierTraffic == {Work(acme, left, "enrich", 1)}
=============================================================================
