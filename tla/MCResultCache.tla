---------------------------- MODULE MCResultCache -----------------------------
(***************************************************************************)
(* ResultCache for TLC: the goroutines are interchangeable.                *)
(***************************************************************************)
EXTENDS ResultCache, TLC

Symmetry == Permutations(Callers)
=============================================================================
