----------------------------- MODULE MCSinkhole -----------------------------
(* Two sinkholes on one host, with two address ranges for docker to give:    *)
(* they can run side by side, and the second can be given the range of the   *)
(* first when the first is gone. Analyses and ranges are interchangeable.    *)
EXTENDS Sinkhole, TLC

Symmetry == Permutations(Analyses) \cup Permutations(Subnets)
=============================================================================
