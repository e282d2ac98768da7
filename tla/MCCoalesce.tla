------------------------------- MODULE MCCoalesce -------------------------------
(***************************************************************************)
(* Small groups for TLC.  All clients ask for one key: flights of two keys *)
(* have nothing in common but the map, and the map is accessed per key.    *)
(***************************************************************************)
EXTENDS Coalesce, TLC

CONSTANT k1

MCKeyOf == [c \in Clients |-> k1]

MCSymmetry == Permutations(Clients)
================================================================================
