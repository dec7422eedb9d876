-------------------------- MODULE DemonstrationsMC --------------------------
(***************************************************************************)
(* A small instance of Demonstrations: the numbers of fixtures.py scaled   *)
(* down so that the same comparisons hold between them. A prover's window  *)
(* and the spender's drain fit the cap; two batches fill an allowance; the *)
(* allowance of one replica and of two fit the cap together.               *)
(***************************************************************************)
EXTENDS Demonstrations

CONSTANTS basil, orchid, wren

(* The long suite alone, and what one suite may leave to the next. *)
TheSessions ==
  {<<"compare">>, <<"half_fixes", "half_fixes">>, <<"vulnerable", "controls">>}
=============================================================================
