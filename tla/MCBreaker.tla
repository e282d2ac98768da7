------------------------------- MODULE MCBreaker -------------------------------
(***************************************************************************)
(* Two request threads and the prober over two backends.                   *)
(***************************************************************************)
EXTENDS Breaker, TLC

MCSymmetry == Permutations(Callers)
================================================================================
