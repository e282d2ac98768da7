-------------------------------- MODULE SlotPool --------------------------------
(***************************************************************************)
(* What the slot pool promises its callers: an owner per slot, at most one *)
(* slot per request.  A request that owns a slot never asks for another    *)
(* one (a failed request releases before it picks again), so requests can  *)
(* not wait for each other in a circle.                                    *)
(***************************************************************************)
EXTENDS Integers

CONSTANTS Requests, Nobody, NSlots

VARIABLE owner   \* the request that owns each slot, or Nobody

AllSlots == 1..NSlots

OwnsNone(r) == \A s \in AllSlots : owner[s] # r

\* All slots start free.
Init == owner = [s \in AllSlots |-> Nobody]

\* A request that owns no slot gets a free one.
Take(r, s) ==
  /\ owner[s] = Nobody
  /\ OwnsNone(r)
  /\ owner' = [owner EXCEPT ![s] = r]

\* An owned slot becomes free.
Drop(s) ==
  /\ owner[s] # Nobody
  /\ owner' = [owner EXCEPT ![s] = Nobody]

\* An owned slot passes directly to a request that owns none.
Pass(s, r) ==
  /\ owner[s] # Nobody
  /\ OwnsNone(r)
  /\ owner' = [owner EXCEPT ![s] = r]

Next ==
  \E s \in AllSlots :
    \/ Drop(s)
    \/ \E r \in Requests : Take(r, s) \/ Pass(s, r)

Spec == Init /\ [][Next]_owner

\* No request owns two slots.
OneSlotEach ==
  \A s, t \in AllSlots : s # t /\ owner[s] = owner[t] => owner[s] = Nobody
================================================================================
