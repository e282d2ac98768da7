------------------------------ MODULE MCMetaCache ------------------------------
(***************************************************************************)
(* Two requests; three prompts of one model with common beginnings, and    *)
(* one prompt of another model.                                            *)
(***************************************************************************)
EXTENDS MetaCache, TLC

CONSTANTS r1, r2, k1, k2, k3, k4, m1, m2

MCKeyOf == r1 :> k1 @@ r2 :> k2

MCBlocks == k1 :> <<1, 2, 3>> @@ k2 :> <<1, 2, 4>> @@ k3 :> <<1, 5>> @@ k4 :> <<1, 2, 3>>

MCModelOf == k1 :> m1 @@ k2 :> m1 @@ k3 :> m1 @@ k4 :> m2

MCThreshold == <<1, 10>>
================================================================================
