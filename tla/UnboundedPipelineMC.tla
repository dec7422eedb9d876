------------------------ MODULE UnboundedPipelineMC ------------------------
(***************************************************************************)
(* A small instance of UnboundedPipeline: a bundle of three records in     *)
(* flushes and chunks of two, a period with money for one bundle and a     *)
(* little more, one connection to compete for, and half fixes met on both  *)
(* replicas.                                                               *)
(***************************************************************************)
EXTENDS UnboundedPipeline

CONSTANTS acme, basil, alias, left, right

Ask(p, op, n, fix, key) ==
  [tenant |-> acme, key |-> key, replica |-> p, fix |-> fix, op |-> op, lookups |-> n]

(* Every route, without half fixes, on one replica; a neighbour's request. *)
Routes ==
  {Ask(left, "import", 3, "none", acme), Ask(left, "enrich", 1, "none", acme),
   Ask(left, "read", 0, "none", acme),
   [Ask(left, "enrich", 2, "deadline", basil) EXCEPT !.tenant = basil]}

(* Half fixes on two replicas, one request alone beyond the allowance. *)
HalfFixed ==
  {Ask(left, "enrich", 3, "in_process", acme), Ask(left, "enrich", 2, "in_process", acme),
   Ask(right, "enrich", 2, "in_process", acme),
   Ask(left, "enrich", 2, "caller_keyed", alias), Ask(right, "enrich", 1, "rate_limit", acme)}

Everything == Routes \cup HalfFixed
=============================================================================
