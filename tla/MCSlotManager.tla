----------------------------- MODULE MCSlotManager -----------------------------
(***************************************************************************)
(* A small pool for TLC: two backends, the first with kv_cache and two     *)
(* slots, the second without and with one.                                 *)
(***************************************************************************)
EXTENDS SlotManager, TLC

CONSTANTS b1, b2

MCBackendOf == <<b1, b1, b2>>

MCRequestSymmetry == Permutations(Requests)
================================================================================
