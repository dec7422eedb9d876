-------------------------- MODULE BoundedReadingMC --------------------------
(***************************************************************************)
(* Every bundle of up to five compressed bytes that each become none, one, *)
(* three or seven, in every cut into chunks, against ceilings that some    *)
(* cross on the way and some only at the end; the texts of up to six bytes *)
(* that up to four compressed ones can become, with newlines anywhere; and *)
(* every body around its bound.                                            *)
(***************************************************************************)
EXTENDS BoundedReading, TLC, SequencesExt

Sums(g) == [n \in Sizes |-> FoldLeft(+, 0, SubSeq(g, 1, Least(n, Len(g))))]

Packed(n, g, breaks, e) ==
  [route |-> "bundle", size |-> n, declared |-> 0, output |-> Sums(g), breaks |-> breaks, ending |-> e]

Bundles ==
  UNION {{Packed(n, g, {}, e) :
     g \in [1..n -> {0, 1, 3, 7}], e \in {"whole", "truncated", "corrupt"}} : n \in Sizes}

(* Text of up to six bytes with newlines anywhere, in up to four bytes of gzip. *)
Texts ==
  UNION {{Packed(n, g, {b \in breaks : b <= Sums(g)[n]}, "whole") :
     g \in [1..n -> {0, 1, 3}], breaks \in SUBSET (1..6)} : n \in 1..4}

Bodies ==
  {[route |-> "body", size |-> n, declared |-> d, output |-> [i \in Sizes |-> 0],
    breaks |-> {}, ending |-> "whole"] :
     n \in Sizes, d \in 0..(MaxBody + 1)}

Everything == Bundles \cup Texts \cup Bodies
=============================================================================
