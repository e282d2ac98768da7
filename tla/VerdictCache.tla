------------------------------ MODULE VerdictCache ------------------------------
(***************************************************************************)
(* The guard's cache of decisions by key (VerdictCache in                  *)
(* src/plugins/src/builtin/qwen_guard.rs): a queue of keys, least recently *)
(* used first, beside a map.  Both operations run under one lock.          *)
(*                                                                         *)
(* put does not look whether the key is there: two requests that missed    *)
(* together put it twice, the queue then holds it twice, and an eviction   *)
(* of the first copy takes the decision away under the second.             *)
(***************************************************************************)
EXTENDS SequencesExt, Integers

NewCache(cap) == [cap |-> cap, order |-> <<>>, map |-> [k \in {} |-> "accept"]]

Queued(cache) == ToSet(cache.order)
Cached(cache) == DOMAIN cache.map

\* get: a key that is queued becomes the most recent one, found or not.
Hit(cache, k) == k \in Queued(cache) /\ k \in Cached(cache)
Used(cache, k) ==
  IF k \in Queued(cache)
  THEN [cache EXCEPT !.order = Append(RemoveFirst(@, k), k)]
  ELSE cache

Insert(map, k, decision) ==
  [j \in DOMAIN map \cup {k} |-> IF j = k THEN decision ELSE map[j]]

HasRoom(cache) == Cardinality(Cached(cache)) < cache.cap

\* Mutant of Put: a full cache takes a key without queueing it.
PutUnqueued(cache, k, decision) ==
  IF HasRoom(cache)
  THEN [cache EXCEPT !.order = Append(@, k), !.map = Insert(@, k, decision)]
  ELSE [cache EXCEPT !.map = Insert(@, k, decision)]

\* put: room is what the map has, the queue is popped when there is none.
Put(cache, k, decision) ==
  IF HasRoom(cache)
  THEN [cache EXCEPT !.order = Append(@, k), !.map = Insert(@, k, decision)]
  ELSE IF cache.order # <<>>
  THEN [cache EXCEPT !.order = Append(Tail(@), k),
                     !.map = Insert(Restrict(@, DOMAIN @ \ {Head(cache.order)}), k, decision)]
  ELSE [cache EXCEPT !.map = Insert(@, k, decision)]
================================================================================
