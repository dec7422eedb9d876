------------------------------- MODULE Totals -------------------------------
(***************************************************************************)
(* What a function's numbers add up to, counted: the sum has one element   *)
(* for each unit of each of them. It is the last line of the provider's    *)
(* bill (Ledger.view), which the demonstration and the harness read.       *)
(***************************************************************************)
EXTENDS Naturals, FiniteSets

Total(f) == Cardinality(UNION {{x} \X (1..f[x]) : x \in DOMAIN f})
=============================================================================
