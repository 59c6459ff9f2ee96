---------------------------- MODULE MCSharedHost ----------------------------
(***************************************************************************)
(* SharedHost for TLC: analyses and backends are interchangeable.           *)
(***************************************************************************)
EXTENDS SharedHost, TLC

Symmetry == Permutations(Analyses) \cup Permutations(Backends)
=============================================================================
