----------------------------- MODULE PrefilterProofs -----------------------------
(***************************************************************************)
(* Proofs about the prefilters, the guard's verdict cache and the cached   *)
(* answers, for every number of requests, every key and every plugin list. *)
(***************************************************************************)
EXTENDS Prefilter, PluginsProofs

--------------------------------------------------------------------------------
(* Lists of plugins.                                                         *)

\* So the filters the proxy runs are a sequence.
LEMMA FiltersAreSeq ==
  ASSUME NEW list \in Lists
  PROVE  IsSeq(Loaded(list))
<1>1. IsSeq(list) /\ \A i \in DOMAIN list :
        list[i].name = "chain" /\ "filters" \in DOMAIN list[i].params =>
          IsSeq(list[i].params.filters)
  BY ListsAssumption DEF IsSeq
<1> QED BY <1>1, LoadedIsSeq DEF Loaded

--------------------------------------------------------------------------------
(* The guard's verdict cache.                                                *)

\* Every decision has a place in the queue, and a cache without room has no queue.
CacheOK(cache) ==
  /\ cache = [cap |-> cache.cap, order |-> cache.order, map |-> cache.map]
  /\ cache.order \in Seq(Keys)
  /\ Cached(cache) \subseteq Queued(cache)
  /\ cache.order # <<>> => cache.cap > 0

\* What a removal leaves of a sequence.
LEMMA RemovedAt ==
  ASSUME NEW S, NEW q \in Seq(S), NEW m \in 1..Len(q)
  PROVE  /\ RemoveAt(q, m) \in Seq(S)
         /\ \A x : x \in ToSet(q) <=> x = q[m] \/ x \in ToSet(RemoveAt(q, m))
<1> DEFINE front == SubSeq(q, 1, m - 1)
           back == SubSeq(q, m + 1, Len(q))
           rest == RemoveAt(q, m)
<1>1. Len(q) \in Nat /\ m \in Nat /\ 1 <= m /\ m <= Len(q) /\ \A i \in 1..Len(q) : q[i] \in S
  OBVIOUS
<1>2. /\ front \in Seq(S) /\ Len(front) = m - 1
      /\ \A i \in 1..m - 1 : front[i] = q[i]
  <2>1. /\ front \in Seq(S) /\ Len(front) = (IF 1 <= m - 1 THEN m - 1 - 1 + 1 ELSE 0)
        /\ \A i \in 1..m - 1 - 1 + 1 : front[i] = q[1 + i - 1]
    BY <1>1, SubSeqProperties
  <2> QED BY <1>1, <2>1
<1>3. /\ back \in Seq(S) /\ Len(back) = Len(q) - m
      /\ \A i \in 1..Len(q) - m : back[i] = q[m + i]
  <2>1. /\ back \in Seq(S)
        /\ Len(back) = IF m + 1 <= Len(q) THEN Len(q) - (m + 1) + 1 ELSE 0
        /\ \A i \in 1..Len(q) - (m + 1) + 1 : back[i] = q[m + 1 + i - 1]
    BY <1>1, SubSeqProperties
  <2> QED BY <1>1, <2>1
<1>4. rest = front \o back
  BY DEF RemoveAt
<1> HIDE DEF front, back, rest
<1>5. /\ rest \in Seq(S) /\ Len(rest) = Len(q) - 1 /\ DOMAIN rest = 1..(Len(q) - 1)
      /\ \A i \in 1..Len(q) - 1 : rest[i] = IF i < m THEN q[i] ELSE q[i + 1]
  BY <1>1, <1>2, <1>3, <1>4
<1>6. DOMAIN q = 1..Len(q)
  OBVIOUS
<1>7. ASSUME NEW i \in 1..Len(q), i # m
      PROVE  \E j \in 1..Len(q) - 1 : rest[j] = q[i]
  <2>1. CASE i < m
    BY <1>1, <1>5, <2>1
  <2>2. CASE i > m
    <3>1. i - 1 \in 1..Len(q) - 1 /\ ~ (i - 1 < m) /\ (i - 1) + 1 = i
      BY <1>1, <2>2
    <3> QED BY <1>5, <3>1
  <2> QED BY <1>1, <1>7, <2>1, <2>2
<1>8. \A j \in 1..Len(q) - 1 : \E i \in 1..Len(q) : rest[j] = q[i]
  BY <1>1, <1>5
<1>9. ASSUME NEW x
      PROVE  x \in ToSet(q) <=> x = q[m] \/ x \in ToSet(rest)
  <2>1. x \in ToSet(q) <=> \E i \in 1..Len(q) : q[i] = x
    BY <1>6 DEF ToSet
  <2>2. x \in ToSet(rest) <=> \E j \in 1..Len(q) - 1 : rest[j] = x
    BY <1>5 DEF ToSet
  <2>3. m \in 1..Len(q)
    OBVIOUS
  <2> HIDE DEF rest
  <2> QED BY <1>7, <1>8, <2>1, <2>2, <2>3, Zenon
<1> QED BY <1>5, <1>9 DEF rest

\* What an addition makes of a sequence.
LEMMA Appended ==
  ASSUME NEW S, NEW q \in Seq(S), NEW x \in S
  PROVE  /\ Append(q, x) \in Seq(S) /\ Append(q, x) # <<>>
         /\ ToSet(Append(q, x)) = ToSet(q) \union {x}
<1>1. /\ Append(q, x) \in Seq(S) /\ Append(q, x) # <<>>
      /\ DOMAIN Append(q, x) = DOMAIN q \union {Len(q) + 1}
      /\ \A i \in DOMAIN q : Append(q, x)[i] = q[i]
      /\ Append(q, x)[Len(q) + 1] = x
  OBVIOUS
<1>2. ToSet(Append(q, x)) = ToSet(q) \union {x}
  BY <1>1, Zenon DEF ToSet
<1> QED BY <1>1, <1>2

\* get: a key that is queued moves to the end; no decision is touched.
LEMMA UsedKeeps ==
  ASSUME NEW cache, CacheOK(cache), NEW k
  PROVE  /\ CacheOK(Used(cache, k))
         /\ Used(cache, k).cap = cache.cap /\ Used(cache, k).map = cache.map
<1>1. CASE k \in Queued(cache)
  <2> DEFINE q == cache.order
             I == {i \in 1..Len(q) : q[i] = k}
             moved == Append(RemoveFirst(q, k), k)
  <2>1. q \in Seq(Keys) /\ DOMAIN q = 1..Len(q) /\ k \in ToSet(q)
    BY <1>1 DEF CacheOK, Queued
  <2>2. /\ I \in SUBSET Nat /\ I # {} /\ \E i \in 1..Len(q) : q[i] = k
        /\ k \in Keys /\ q # <<>>
    <3>1. PICK i \in 1..Len(q) : q[i] = k
      BY <2>1 DEF ToSet
    <3> QED BY <2>1, <3>1
  <2>3. RemoveFirst(q, k) = RemoveAt(q, Min(I)) /\ Min(I) \in I
    BY <2>2, MinIsMember DEF RemoveFirst, SelectInSeq
  <2> HIDE DEF q
  <2>4. /\ RemoveFirst(q, k) \in Seq(Keys)
        /\ \A x : x \in ToSet(q) <=> x = k \/ x \in ToSet(RemoveFirst(q, k))
    BY <2>1, <2>3, RemovedAt
  <2>5. moved \in Seq(Keys) /\ moved # <<>> /\ ToSet(moved) = ToSet(q)
    <3>1. ToSet(moved) = ToSet(RemoveFirst(q, k)) \union {k} /\ moved \in Seq(Keys) /\ moved # <<>>
      BY <2>2, <2>4, Appended
    <3> QED BY <2>4, <3>1
  <2> HIDE DEF moved
  <2>6. Used(cache, k) = [cap |-> cache.cap, order |-> moved, map |-> cache.map]
    BY <1>1 DEF Used, CacheOK, moved, q
  <2> QED BY <2>2, <2>5, <2>6 DEF CacheOK, Cached, Queued, q
<1>2. CASE k \notin Queued(cache)
  BY <1>2 DEF Used
<1> QED BY <1>1, <1>2

\* put, with room for one more, and without.
LEMMA PutAppends ==
  ASSUME NEW cap, NEW order, NEW map, NEW cache,
         cache = [cap |-> cap, order |-> order, map |-> map],
         NEW k, NEW decision, HasRoom(cache)
  PROVE  Put(cache, k, decision) =
           [cap |-> cap, order |-> Append(order, k), map |-> Insert(map, k, decision)]
BY DEF Put

LEMMA PutEvicts ==
  ASSUME NEW cache, cache = [cap |-> cache.cap, order |-> cache.order, map |-> cache.map],
         NEW k, NEW decision, ~ HasRoom(cache), cache.order # <<>>
  PROVE  Put(cache, k, decision) =
           [cap |-> cache.cap, order |-> Append(Tail(cache.order), k),
            map |-> Insert(Restrict(cache.map, DOMAIN cache.map \ {Head(cache.order)}), k, decision)]
<1>1. PICK cap, order, map : cap = cache.cap /\ order = cache.order /\ map = cache.map
  OBVIOUS
<1>2. cache = [cap |-> cap, order |-> order, map |-> map]
  BY <1>1
<1>3. Put(cache, k, decision) =
           [cap |-> cap, order |-> Append(Tail(order), k),
            map |-> Insert(Restrict(map, DOMAIN map \ {Head(order)}), k, decision)]
  BY <1>2, <1>1 DEF Put
<1> QED BY <1>1, <1>3

\* put: the key is queued with its decision; others keep theirs, or lose it.
LEMMA PutKeeps ==
  ASSUME NEW cache, CacheOK(cache), cache.cap > 0, NEW k \in Keys, NEW decision
  PROVE  LET new == Put(cache, k, decision)
         IN /\ CacheOK(new) /\ new.cap = cache.cap
            /\ \A j \in Cached(new) : IF j = k THEN new.map[j] = decision
                                     ELSE j \in Cached(cache) /\ new.map[j] = cache.map[j]
<1> DEFINE q == cache.order
           m == cache.map
<1>1. /\ cache = [cap |-> cache.cap, order |-> q, map |-> m]
      /\ q \in Seq(Keys) /\ DOMAIN m \subseteq ToSet(q)
  BY DEF CacheOK, Cached, Queued
<1> HIDE DEF q, m
<1>2. \A map : /\ DOMAIN Insert(map, k, decision) = DOMAIN map \union {k}
               /\ Insert(map, k, decision)[k] = decision
               /\ \A j \in DOMAIN map \ {k} : Insert(map, k, decision)[j] = map[j]
  BY DEF Insert
<1>3. CASE Put(cache, k, decision) = [cap |-> cache.cap, order |-> Append(q, k), map |-> Insert(m, k, decision)]
  <2>1. /\ Append(q, k) \in Seq(Keys) /\ Append(q, k) # <<>>
        /\ ToSet(Append(q, k)) = ToSet(q) \union {k}
    BY <1>1, Appended
  <2>2. DOMAIN Insert(m, k, decision) \subseteq ToSet(Append(q, k))
    BY <1>1, <1>2, <2>1
  <2>3. \A j \in DOMAIN Insert(m, k, decision) :
          IF j = k THEN Insert(m, k, decision)[j] = decision
          ELSE j \in DOMAIN m /\ Insert(m, k, decision)[j] = m[j]
    BY <1>2
  <2> QED BY <1>3, <2>1, <2>2, <2>3 DEF CacheOK, Cached, Queued, m
<1>4. CASE /\ q # <<>>
           /\ Put(cache, k, decision) =
                [cap |-> cache.cap, order |-> Append(Tail(q), k),
                 map |-> Insert(Restrict(m, DOMAIN m \ {Head(q)}), k, decision)]
  <2> DEFINE left == Restrict(m, DOMAIN m \ {Head(q)})
  <2>1. /\ DOMAIN left = DOMAIN m \ {Head(q)}
        /\ \A j \in DOMAIN m \ {Head(q)} : left[j] = m[j]
    BY DEF Restrict
  <2> HIDE DEF left
  <2>2. /\ Tail(q) \in Seq(Keys)
        /\ \A x : x \in ToSet(q) => x = Head(q) \/ x \in ToSet(Tail(q))
    <3>1. /\ Tail(q) \in Seq(Keys) /\ DOMAIN q = 1..Len(q) /\ Head(q) = q[1]
          /\ DOMAIN Tail(q) = 1..Len(q) - 1 /\ Len(q) \in Nat
          /\ \A i \in 1..Len(q) - 1 : Tail(q)[i] = q[i + 1]
      BY <1>1, <1>4
    <3>2. ASSUME NEW i \in 1..Len(q), i # 1
          PROVE  i - 1 \in 1..Len(q) - 1 /\ Tail(q)[i - 1] = q[i]
      <4>1. i - 1 \in 1..Len(q) - 1 /\ (i - 1) + 1 = i
        BY <3>1, <3>2
      <4> QED BY <3>1, <4>1
    <3>3. ASSUME NEW x \in ToSet(q), x # Head(q)
          PROVE  x \in ToSet(Tail(q))
      <4>1. PICK i \in 1..Len(q) : q[i] = x /\ i # 1
        BY <3>1, <3>3 DEF ToSet
      <4> QED BY <3>1, <3>2, <4>1 DEF ToSet
    <3> QED BY <3>1, <3>3
  <2>3. /\ Append(Tail(q), k) \in Seq(Keys) /\ Append(Tail(q), k) # <<>>
        /\ ToSet(Append(Tail(q), k)) = ToSet(Tail(q)) \union {k}
    <3>1. PICK rest \in Seq(Keys) : rest = Tail(q)
      BY <2>2
    <3>2. /\ Append(rest, k) \in Seq(Keys) /\ Append(rest, k) # <<>>
          /\ ToSet(Append(rest, k)) = ToSet(rest) \union {k}
      BY Appended
    <3> QED BY <3>1, <3>2
  <2>4. /\ DOMAIN Insert(left, k, decision) = DOMAIN left \union {k}
        /\ Insert(left, k, decision)[k] = decision
        /\ \A j \in DOMAIN left \ {k} : Insert(left, k, decision)[j] = left[j]
    BY <1>2
  <2>5. Put(cache, k, decision) =
          [cap |-> cache.cap, order |-> Append(Tail(q), k), map |-> Insert(left, k, decision)]
    BY <1>4 DEF left
  <2>6. DOMAIN Insert(left, k, decision) \subseteq ToSet(Append(Tail(q), k))
    BY <1>1, <2>1, <2>2, <2>3, <2>4
  <2> QED BY <2>1, <2>3, <2>4, <2>5, <2>6 DEF CacheOK, Cached, Queued, m
<1>5. CASE q = <<>>
  <2>1. DOMAIN m = {}
    <3>1. ToSet(q) = {}
      BY <1>5 DEF ToSet
    <3> QED BY <1>1, <3>1
  <2>2. HasRoom(cache)
    BY <2>1, FS_EmptySet DEF HasRoom, Cached, m
  <2>3. Put(cache, k, decision) =
          [cap |-> cache.cap, order |-> Append(q, k), map |-> Insert(m, k, decision)]
    BY <1>1, <2>2, PutAppends
  <2> QED BY <1>3, <2>3
<1>6. CASE q # <<>>
  <2>1. CASE HasRoom(cache)
    <3>1. Put(cache, k, decision) =
            [cap |-> cache.cap, order |-> Append(q, k), map |-> Insert(m, k, decision)]
      BY <1>1, <2>1, PutAppends
    <3> QED BY <1>3, <3>1
  <2>2. CASE ~ HasRoom(cache)
    <3>1. Put(cache, k, decision) =
            [cap |-> cache.cap, order |-> Append(Tail(q), k),
             map |-> Insert(Restrict(m, DOMAIN m \ {Head(q)}), k, decision)]
      <4>1. /\ cache = [cap |-> cache.cap, order |-> cache.order, map |-> cache.map]
            /\ cache.order # <<>>
        BY <1>1, <1>6 DEF q, m
      <4> QED BY <4>1, <2>2, PutEvicts DEF q, m
    <3> QED BY <1>4, <1>6, <3>1
  <2> QED BY <2>1, <2>2
<1> QED BY <1>5, <1>6

--------------------------------------------------------------------------------
(* The invariant.                                                            *)

Holding == {"check", "guard", "expired", "cleanup", "serve"}
Entries == [id : Int, at : Nat]

\* The variables of the requests and of the entries.
Typed ==
  /\ at \in [Requests -> Decided \cup Holding]
  /\ pos \in [Requests -> Nat \ {0}]
  /\ asked \in [Requests -> Workload \cup {NoRequest}]
  /\ \A r \in Requests : at[r] # "done" => asked[r] \in Workload
  /\ got \in [Requests -> Entries]
  /\ letBy \in [Requests -> {"no", "verdict", "error", "unparseable"}]
  /\ entry \in [Keys -> Entries]
  /\ clock \in Nat /\ answers \in Nat

\* The guard's cache is that of the loaded list, and holds what the guard decided.
VerdictsOK ==
  /\ \E list \in Lists : filters = Loaded(list)
  /\ CacheOK(verdicts) /\ verdicts.cap = GuardCap(filters)
  /\ \A k \in Cached(verdicts) : <<k, verdicts.map[k]>> \in given

\* A request is at a filter of the right kind, and the filters behind it let it
\* through.  One that removes an entry as too old has read it so.
RequestOK(r) ==
  /\ pos[r] <= Len(filters) + 1
  /\ at[r] = "done" => pos[r] = 1
  /\ at[r] \in Holding => pos[r] <= Len(filters)
  /\ at[r] = "guard" => Filter(r).kind = "qwen_guard"
  /\ at[r] \in {"expired", "cleanup", "serve"} => Filter(r).kind = "result_cache"
  /\ at[r] = "expired" => got[r] = Corrupt \/ Expired(got[r], Filter(r).ttl)
  /\ at[r] \in Holding \cup {"served"} => \A i \in 1..pos[r] - 1 : LetsPass(filters[i], r)
  /\ at[r] \in {"forwarded", "stamped"} => \A i \in DOMAIN filters : LetsPass(filters[i], r)

\* What a file, or a request, has: nothing, a corrupt entry, or an answer.
EntryOK(e) ==
  /\ e.id \in -1 .. answers /\ e.at \in 0 .. clock
  /\ e.id = 0 => e = NoEntry
  /\ e.id = -1 => e = Corrupt

\* A stamped answer is nowhere else.
StampedOK(r) ==
  /\ got[r].id > 0 /\ got[r].id \notin spent
  /\ \A k \in Keys : entry[k].id # got[r].id
  /\ \A q \in Requests \ {r} : at[q] \in {"stamped", "cleanup"} => got[q].id # got[r].id

\* An answer about to be removed is in no other file than its own.
CleanupOK(r) ==
  got[r].id > 0 /\ \A k \in Keys : entry[k].id = got[r].id => k = KeyOf(r)

AnswersOK ==
  /\ \A k \in Keys : EntryOK(entry[k])
  /\ \A r \in Requests : EntryOK(got[r])
  /\ \A j, k \in Keys : entry[j].id > 0 /\ entry[j].id = entry[k].id => j = k
  /\ spent \subseteq 1 .. answers
  /\ SpentIsGone
  /\ \A r \in Requests : /\ at[r] = "stamped" => StampedOK(r)
                         /\ at[r] = "cleanup" => CleanupOK(r)

PrefilterInv ==
  Typed /\ VerdictsOK /\ (\A r \in Requests : RequestOK(r)) /\ AnswersOK

\* What is known of the filters.
LEMMA FiltersFacts ==
  ASSUME VerdictsOK
  PROVE  /\ Len(filters) \in Nat /\ DOMAIN filters = 1..Len(filters)
         /\ \A i, j \in DOMAIN filters :
              filters[i].kind = "qwen_guard" /\ filters[j].kind = "qwen_guard" => i = j
         /\ \A i \in DOMAIN filters : filters[i].kind = "result_cache" => filters[i].ttl \in Nat
<1>1. PICK list \in Lists : filters = Loaded(list)
  BY DEF VerdictsOK
<1>2. filters \in Seq(ToSet(filters))
  BY <1>1, FiltersAreSeq DEF IsSeq
<1>3. Len(filters) \in Nat /\ DOMAIN filters = 1..Len(filters)
  BY <1>2
<1> QED BY <1>1, <1>3, ListsAssumption

\* The only guard of the list gives the cache its capacity.
LEMMA GuardOfList ==
  ASSUME VerdictsOK, NEW i \in DOMAIN filters, filters[i].kind = "qwen_guard"
  PROVE  verdicts.cap = filters[i].cap
<1> DEFINE guards == {j \in DOMAIN filters : filters[j].kind = "qwen_guard"}
<1>1. guards = {i}
  BY FiltersFacts
<1>2. guards \in SUBSET Nat /\ guards # {}
  BY <1>1, FiltersFacts
<1>3. Min(guards) = i
  <2> HIDE DEF guards
  <2>1. Min(guards) \in guards
    BY <1>2, MinIsMember
  <2> QED BY <1>1, <2>1
<1> QED BY <1>1, <1>3 DEF VerdictsOK, GuardCap

\* A new cache.
LEMMA NewCacheOK ==
  ASSUME NEW cap
  PROVE  /\ CacheOK(NewCache(cap)) /\ NewCache(cap).cap = cap /\ Cached(NewCache(cap)) = {}
BY DEF CacheOK, NewCache, Cached, Queued, ToSet

\* At the start.
LEMMA PrefilterInvInit == Init => PrefilterInv
<1> SUFFICES ASSUME Init PROVE PrefilterInv
  OBVIOUS
<1>1. PICK list \in Lists : filters = Loaded(list) /\ verdicts = NewCache(GuardCap(filters))
  BY DEF Init
<1>2. PICK old \in SUBSET OldFiles : entry = [k \in Keys |-> IF k \in old THEN Corrupt ELSE NoEntry]
  BY DEF Init
<1>3. /\ at = All("done") /\ asked = All(NoRequest) /\ pos = All(1) /\ got = All(NoEntry)
      /\ letBy = All("no") /\ given = {} /\ spent = {} /\ clock = 0 /\ answers = 0
  BY DEF Init
<1>4. NoEntry \in Entries /\ Corrupt \in Entries
  BY DEF NoEntry, Corrupt, Entries
<1>5. Typed
  BY <1>2, <1>3, <1>4 DEF Typed, All, Decided
<1>6. VerdictsOK
  BY <1>1, <1>3, NewCacheOK DEF VerdictsOK
<1>7. \A r \in Requests : RequestOK(r)
  BY <1>3, <1>6, FiltersFacts DEF RequestOK, All, Holding
<1>8. AnswersOK
  BY <1>2, <1>3 DEF AnswersOK, EntryOK, SpentIsGone, All, NoEntry, Corrupt
<1> QED BY <1>5, <1>6, <1>7, <1>8 DEF PrefilterInv

--------------------------------------------------------------------------------
(* What a step changes.                                                      *)

\* The step of r leaves the other requests where they are.
OthersStay(r) ==
  \A q \in Requests \ {r} :
    /\ at'[q] = at[q] /\ pos'[q] = pos[q] /\ asked'[q] = asked[q]
    /\ got'[q] = got[q] /\ letBy'[q] = letBy[q]

\* What a filter that accepts does to the request.
LEMMA PassMoves ==
  ASSUME Typed, NEW r \in Requests, Pass(r)
  PROVE  /\ at' \in [Requests -> Decided \cup Holding] /\ pos' \in [Requests -> Nat \ {0}]
         /\ \A q \in Requests \ {r} : at'[q] = at[q] /\ pos'[q] = pos[q]
         /\ \/ pos[r] = Len(filters) /\ pos'[r] = pos[r] /\ at'[r] = "forwarded"
            \/ pos[r] # Len(filters) /\ pos'[r] = pos[r] + 1 /\ at'[r] = "check"
<1>1. CASE pos[r] = Len(filters)
  BY <1>1 DEF Pass, Decide, Move, Typed, Decided
<1>2. CASE pos[r] # Len(filters)
  <2>1. pos' = [pos EXCEPT ![r] = pos[r] + 1] /\ at' = [at EXCEPT ![r] = "check"]
    BY <1>2 DEF Pass, Move
  <2>2. "check" \in Decided \cup Holding /\ pos[r] + 1 \in Nat \ {0}
    BY DEF Holding, Typed
  <2> QED BY <1>2, <2>1, <2>2 DEF Typed
<1> QED BY <1>1, <1>2

\* What an answer does to it.
LEMMA DecideMoves ==
  ASSUME Typed, NEW r \in Requests, NEW decision \in Decided, Decide(r, decision)
  PROVE  /\ at' \in [Requests -> Decided \cup Holding] /\ pos' = pos
         /\ \A q \in Requests \ {r} : at'[q] = at[q]
         /\ at'[r] = decision
BY DEF Decide, Move, Typed

\* What the end does to it.
LEMMA EndMoves ==
  ASSUME Typed, NEW r \in Requests, End(r)
  PROVE  /\ at' \in [Requests -> Decided \cup Holding] /\ pos' \in [Requests -> Nat \ {0}]
         /\ asked' \in [Requests -> Workload \cup {NoRequest}]
         /\ got' \in [Requests -> Entries]
         /\ letBy' \in [Requests -> {"no", "verdict", "error", "unparseable"}]
         /\ at'[r] = "done" /\ pos'[r] = 1 /\ got'[r] = NoEntry
         /\ OthersStay(r)
<1>1. NoEntry \in Entries
  BY DEF NoEntry, Entries
<1> QED BY <1>1 DEF End, Move, Forget, Typed, Decided, OthersStay

\* Only r moves, time stays, the guard's decisions and the answers only grow.
Frame(r) ==
  /\ filters' = filters /\ clock' = clock
  /\ given \subseteq given'
  /\ answers' \in {answers, answers + 1}
  /\ OthersStay(r)

\* Types, and what stays.
LEMMA StepTyped ==
  ASSUME PrefilterInv, NEW r \in Requests, Step(r)
  PROVE  Typed' /\ Frame(r)
<1>0. Typed /\ VerdictsOK /\ RequestOK(r)
  BY DEF PrefilterInv
<1>1. ASSUME NEW request \in Workload, Arrive(r, request) PROVE Typed' /\ Frame(r)
  <2>1. /\ asked' = [asked EXCEPT ![r] = request]
        /\ at' = [at EXCEPT ![r] = IF filters = <<>> THEN "forwarded" ELSE "check"]
        /\ UNCHANGED <<filters, entry, clock, answers, pos, got, letBy, given>>
    BY <1>1 DEF Arrive, Move, historyVars
  <2>2. at' \in [Requests -> Decided \cup Holding]
    BY <1>0, <2>1 DEF Typed, Decided, Holding
  <2> QED BY <1>0, <2>1, <2>2 DEF Typed, Frame, OthersStay
<1>2. ASSUME Leave(r) \/ Dropped(r) \/ EndsUnstored(r) PROVE Typed' /\ Frame(r)
  <2>1. End(r) /\ UNCHANGED <<filters, entry, clock, answers, given>>
    BY <1>2 DEF Leave, Dropped, EndsUnstored, historyVars
  <2> QED BY <1>0, <2>1, EndMoves DEF Typed, Frame, OthersStay
<1>3. ASSUME CheckKeyword(r) PROVE Typed' /\ Frame(r)
  <2>1. /\ Decide(r, "rejected") \/ Pass(r)
        /\ at[r] = "check"
        /\ UNCHANGED <<filters, entry, clock, answers, asked, got, letBy, given>>
    BY <1>3 DEF CheckKeyword, At, historyVars
  <2>2. CASE Decide(r, "rejected")
    BY <1>0, <2>1, <2>2, DecideMoves DEF Typed, Frame, OthersStay, Decided
  <2>3. CASE Pass(r)
    BY <1>0, <2>1, <2>3, PassMoves DEF Typed, Frame, OthersStay
  <2> QED BY <2>1, <2>2, <2>3
<1>4. ASSUME LookUpVerdict(r) PROVE Typed' /\ Frame(r)
  <2>1. /\ at[r] = "check"
        /\ UNCHANGED <<filters, entry, clock, answers, asked, got, given>>
        /\ letBy' \in {letBy, [letBy EXCEPT ![r] = "verdict"]}
        /\ Decide(r, "rejected") \/ Pass(r) \/ (at' = [at EXCEPT ![r] = "guard"] /\ pos' = pos)
    BY <1>4 DEF LookUpVerdict, At, Apply, Move, historyVars
  <2>2. CASE Decide(r, "rejected")
    BY <1>0, <2>1, <2>2, DecideMoves DEF Typed, Frame, OthersStay, Decided
  <2>3. CASE Pass(r)
    BY <1>0, <2>1, <2>3, PassMoves DEF Typed, Frame, OthersStay
  <2>4. CASE at' = [at EXCEPT ![r] = "guard"] /\ pos' = pos
    BY <1>0, <2>1, <2>4 DEF Typed, Frame, OthersStay, Decided, Holding
  <2> QED BY <2>1, <2>2, <2>3, <2>4
<1>5. ASSUME NEW reply \in Replies(KeyOf(r)), GuardReplies(r, reply) PROVE Typed' /\ Frame(r)
  <2>1. /\ at[r] = "guard"
        /\ UNCHANGED <<filters, entry, clock, answers, asked, got>> /\ given \subseteq given'
        /\ letBy' = [letBy EXCEPT ![r] = WhatHappened(reply)]
        /\ Decide(r, "rejected") \/ Pass(r)
    BY <1>5 DEF GuardReplies, Apply
  <2>2. WhatHappened(reply) \in {"verdict", "error", "unparseable"}
    BY DEF WhatHappened
  <2>3. CASE Decide(r, "rejected")
    BY <1>0, <2>1, <2>2, <2>3, DecideMoves DEF Typed, Frame, OthersStay, Decided
  <2>4. CASE Pass(r)
    BY <1>0, <2>1, <2>2, <2>4, PassMoves DEF Typed, Frame, OthersStay
  <2> QED BY <2>1, <2>3, <2>4
<1>6. ASSUME ReadEntry(r) PROVE Typed' /\ Frame(r)
  <2>1. /\ at[r] = "check"
        /\ UNCHANGED <<filters, entry, clock, answers, asked, letBy, given>>
        /\ \/ Pass(r) /\ got' = got
           \/ \E place \in {"expired", "cleanup", "serve"} :
                /\ at' = [at EXCEPT ![r] = place] /\ pos' = pos
                /\ got' = [got EXCEPT ![r] = entry[KeyOf(r)]]
    BY <1>6 DEF ReadEntry, At, Move, historyVars
  <2>2. entry[KeyOf(r)] \in Entries
    BY <1>0, <2>1, PrefilterAssumption DEF KeyOf, Typed
  <2>3. CASE Pass(r) /\ got' = got
    BY <1>0, <2>1, <2>3, PassMoves DEF Typed, Frame, OthersStay
  <2>4. ASSUME NEW place \in {"expired", "cleanup", "serve"},
               at' = [at EXCEPT ![r] = place], pos' = pos,
               got' = [got EXCEPT ![r] = entry[KeyOf(r)]]
        PROVE  Typed' /\ Frame(r)
    BY <1>0, <2>1, <2>2, <2>4 DEF Typed, Frame, OthersStay, Decided, Holding
  <2> QED BY <2>1, <2>3, <2>4
<1>7. NoEntry \in Entries
  BY DEF NoEntry, Entries
<1>8. ASSUME NEW succeeds \in BOOLEAN, RemoveExpired(r, succeeds) \/ Cleanup(r, succeeds)
      PROVE  Typed' /\ Frame(r)
  <2>1. /\ at[r] \in {"expired", "cleanup"}
        /\ UNCHANGED <<filters, clock, answers, asked, letBy, given>>
        /\ got' = [got EXCEPT ![r] = NoEntry]
        /\ entry' \in {entry, [entry EXCEPT ![KeyOf(r)] = NoEntry]}
        /\ Decide(r, "served") \/ Pass(r)
    BY <1>8 DEF RemoveExpired, Cleanup, CleanUp, RemoveEntry, Forget, historyVars
  <2>2. /\ got' \in [Requests -> Entries] /\ entry' \in [Keys -> Entries]
        /\ \A q \in Requests \ {r} : got'[q] = got[q]
    BY <1>0, <1>7, <2>1 DEF Typed
  <2>3. CASE Decide(r, "served")
    BY <1>0, <2>1, <2>2, <2>3, DecideMoves DEF Typed, Frame, OthersStay, Decided
  <2>4. CASE Pass(r)
    BY <1>0, <2>1, <2>2, <2>4, PassMoves DEF Typed, Frame, OthersStay
  <2> QED BY <2>1, <2>3, <2>4
<1>9. ASSUME NEW succeeds \in BOOLEAN, Renamed(r, succeeds) PROVE Typed' /\ Frame(r)
  <2>1. /\ End(r) /\ UNCHANGED <<filters, clock, answers, given>>
        /\ entry' \in {entry, [entry EXCEPT ![KeyOf(r)] = got[r]]}
    BY <1>9 DEF Renamed, historyVars
  <2>2. entry' \in [Keys -> Entries]
    BY <1>0, <2>1 DEF Typed
  <2> QED BY <1>0, <2>1, <2>2, EndMoves DEF Typed, Frame, OthersStay
<1>10. ASSUME Serve(r) PROVE Typed' /\ Frame(r)
  <2>1. /\ at[r] = "serve" /\ Decide(r, "served")
        /\ UNCHANGED <<filters, entry, clock, answers, asked, letBy, given>>
        /\ got' = [got EXCEPT ![r] = NoEntry]
    BY <1>10 DEF Serve, Forget, historyVars
  <2> QED BY <1>0, <1>7, <2>1, DecideMoves DEF Typed, Frame, OthersStay, Decided
<1>11. ASSUME Answered(r) PROVE Typed' /\ Frame(r)
  <2>1. [id |-> answers + 1, at |-> clock] \in Entries
    BY <1>0 DEF Typed, Entries
  <2>2. /\ at[r] = "forwarded" /\ at' = [at EXCEPT ![r] = "stamped"] /\ answers' = answers + 1
        /\ got' = [got EXCEPT ![r] = [id |-> answers + 1, at |-> clock]]
        /\ UNCHANGED <<filters, entry, clock, asked, pos, letBy, given>>
    BY <1>11 DEF Answered, Move, historyVars
  <2> QED BY <1>0, <2>1, <2>2 DEF Typed, Frame, OthersStay, Decided
<1> QED BY <1>1, <1>2, <1>3, <1>4, <1>5, <1>6, <1>8, <1>9, <1>10, <1>11 DEF Step

--------------------------------------------------------------------------------
(* The guard's verdict cache holds nothing but what the guard decided.       *)

\* What the guard's reply makes of the cache and of the decisions.
LEMMA ReplyKeeps ==
  ASSUME PrefilterInv, NEW r \in Requests, NEW reply \in Replies(KeyOf(r)), GuardReplies(r, reply)
  PROVE  /\ CacheOK(verdicts') /\ verdicts'.cap = verdicts.cap
         /\ \A k \in Cached(verdicts') : <<k, verdicts'.map[k]>> \in given'
<1>1. CacheOK(verdicts) /\ \A k \in Cached(verdicts) : <<k, verdicts.map[k]>> \in given
  BY DEF PrefilterInv, VerdictsOK
<1>2. at[r] = "guard" /\ given \subseteq given'
  BY DEF GuardReplies
<1>3. CASE Reading(reply) = "verdict" /\ Filter(r).cap > 0
  <2> DEFINE decision == Judge(reply.verdict[1], Filter(r))
  <2>1. WhatHappened(reply) = "verdict"
    BY <1>3 DEF WhatHappened, Reading
  <2>2. /\ verdicts' = Put(verdicts, KeyOf(r), decision)
        /\ given' = given \cup {<<KeyOf(r), decision>>}
    BY <1>3, <2>1 DEF GuardReplies
  <2>3. KeyOf(r) \in Keys
    BY <1>2, PrefilterAssumption DEF PrefilterInv, Typed, KeyOf
  <2>4. verdicts.cap = Filter(r).cap
    <3>1. VerdictsOK /\ Typed /\ RequestOK(r)
      BY DEF PrefilterInv
    <3>2. pos[r] \in DOMAIN filters /\ Filter(r).kind = "qwen_guard"
      BY <1>2, <3>1, FiltersFacts DEF Typed, RequestOK, Holding
    <3> QED BY <3>1, <3>2, GuardOfList DEF Filter
  <2> HIDE DEF decision
  <2>5. /\ CacheOK(Put(verdicts, KeyOf(r), decision))
        /\ Put(verdicts, KeyOf(r), decision).cap = verdicts.cap
        /\ \A j \in Cached(Put(verdicts, KeyOf(r), decision)) :
             IF j = KeyOf(r) THEN Put(verdicts, KeyOf(r), decision).map[j] = decision
             ELSE j \in Cached(verdicts) /\ Put(verdicts, KeyOf(r), decision).map[j] = verdicts.map[j]
    BY <1>1, <1>3, <2>3, <2>4, PutKeeps
  <2> QED BY <1>1, <2>2, <2>5
<1>4. CASE ~ (Reading(reply) = "verdict" /\ Filter(r).cap > 0)
  <2>1. verdicts' = verdicts
    BY <1>4 DEF GuardReplies
  <2> QED BY <1>1, <1>2, <2>1
<1> QED BY <1>3, <1>4

\* Every step of a request keeps the cache.
LEMMA StepKeepsVerdicts ==
  ASSUME PrefilterInv, NEW r \in Requests, Step(r)
  PROVE  VerdictsOK'
<1>1. /\ \E list \in Lists : filters = Loaded(list)
      /\ CacheOK(verdicts) /\ verdicts.cap = GuardCap(filters)
      /\ \A k \in Cached(verdicts) : <<k, verdicts.map[k]>> \in given
  BY DEF PrefilterInv, VerdictsOK
<1>2. filters' = filters /\ given \subseteq given'
  BY StepTyped DEF Frame
<1>3. SUFFICES /\ CacheOK(verdicts') /\ verdicts'.cap = verdicts.cap
               /\ \A k \in Cached(verdicts') : <<k, verdicts'.map[k]>> \in given'
  BY <1>1, <1>2 DEF VerdictsOK
<1>4. CASE verdicts' = verdicts
  BY <1>1, <1>2, <1>4
<1>5. CASE LookUpVerdict(r) /\ verdicts' # verdicts
  <2>1. verdicts' = Used(verdicts, KeyOf(r))
    BY <1>5 DEF LookUpVerdict
  <2>2. /\ CacheOK(Used(verdicts, KeyOf(r)))
        /\ Used(verdicts, KeyOf(r)).cap = verdicts.cap /\ Used(verdicts, KeyOf(r)).map = verdicts.map
    BY <1>1, UsedKeeps
  <2> QED BY <1>1, <1>2, <2>1, <2>2 DEF Cached
<1>6. CASE \E reply \in Replies(KeyOf(r)) : GuardReplies(r, reply)
  BY <1>6, ReplyKeeps
<1>7. LookUpVerdict(r) \/ (\E reply \in Replies(KeyOf(r)) : GuardReplies(r, reply)) \/ verdicts' = verdicts
  BY DEF Step, Arrive, Leave, CheckKeyword, Dropped, ReadEntry, RemoveExpired, Cleanup, CleanUp,
         Renamed, Serve, Answered, EndsUnstored
<1> QED BY <1>4, <1>5, <1>6, <1>7

--------------------------------------------------------------------------------
(* Nothing gets past a filter that blocks it.                                *)

\* A filter that has let a request through has done so for good.
LEMMA LetsPassKept ==
  ASSUME NEW r, NEW i, filters' = filters, asked'[r] = asked[r], given \subseteq given',
         filters[i].kind = "qwen_guard" => letBy'[r] = letBy[r],
         LetsPass(filters[i], r)
  PROVE  LetsPass(filters[i], r)'
BY DEF LetsPass, GuardAllows, FirstMatch, TextOf, KeyOf

\* What the steps of others leave of a request.
LEMMA OthersKeep ==
  ASSUME PrefilterInv, NEW r \in Requests, Frame(r), NEW q \in Requests \ {r}
  PROVE  RequestOK(q)'
<1>1. /\ RequestOK(q) /\ filters' = filters /\ clock' = clock /\ given \subseteq given'
      /\ at'[q] = at[q] /\ pos'[q] = pos[q] /\ asked'[q] = asked[q]
      /\ got'[q] = got[q] /\ letBy'[q] = letBy[q]
  BY DEF PrefilterInv, Frame, OthersStay
<1>2. \A i : LetsPass(filters[i], q) => LetsPass(filters[i], q)'
  BY <1>1, LetsPassKept
<1> QED BY <1>1, <1>2 DEF RequestOK, Filter, Expired

\* A request that the filter at hand lets through keeps what is said of it.
LEMMA PassKeeps ==
  ASSUME PrefilterInv, NEW r \in Requests, Pass(r), at[r] \in Holding,
         filters' = filters, asked'[r] = asked[r], given \subseteq given',
         Filter(r).kind # "qwen_guard" => letBy'[r] = letBy[r],
         NEW n, n = pos[r], LetsPass(filters[n], r)'
  PROVE  RequestOK(r)'
<1>1. /\ Typed /\ VerdictsOK /\ RequestOK(r)
      /\ Len(filters) \in Nat /\ DOMAIN filters = 1..Len(filters)
      /\ pos[r] \in 1..Len(filters)
  BY FiltersFacts DEF PrefilterInv, Typed, RequestOK
<1>2. ASSUME NEW i \in 1..pos[r] - 1
      PROVE  LetsPass(filters[i], r)'
  <2>1. LetsPass(filters[i], r) /\ i \in DOMAIN filters /\ i # pos[r]
    BY <1>1 DEF RequestOK
  <2>2. filters[i].kind = "qwen_guard" => letBy'[r] = letBy[r]
    BY <1>1, <2>1, FiltersFacts DEF Filter
  <2> QED BY <2>1, <2>2, LetsPassKept
<1>3. ASSUME NEW i \in 1..pos[r]
      PROVE  LetsPass(filters[i], r)'
  <2>1. i = n \/ i \in 1..pos[r] - 1
    BY <1>1
  <2> QED BY <1>2, <2>1
<1>4. CASE at'[r] = "forwarded" /\ pos[r] = Len(filters) /\ pos'[r] = pos[r]
  BY <1>1, <1>3, <1>4 DEF RequestOK, Holding
<1>5. CASE at'[r] = "check" /\ pos[r] # Len(filters) /\ pos'[r] = pos[r] + 1
  BY <1>1, <1>3, <1>5 DEF RequestOK, Holding
<1> QED BY <1>1, <1>4, <1>5, PassMoves

\* A request that is rejected, or that leaves.
LEMMA RestOK ==
  ASSUME PrefilterInv, NEW r \in Requests, filters' = filters,
         \/ at'[r] = "rejected" /\ pos'[r] = pos[r]
         \/ at'[r] = "done" /\ pos'[r] = 1
  PROVE  RequestOK(r)'
<1>1. /\ RequestOK(r) /\ Len(filters) \in Nat /\ pos[r] \in Nat \ {0}
  BY FiltersFacts DEF PrefilterInv, Typed
<1> QED BY <1>1 DEF RequestOK, Holding

\* The keyword filter.
LEMMA KeywordKeeps ==
  ASSUME PrefilterInv, NEW r \in Requests, Frame(r), CheckKeyword(r)
  PROVE  RequestOK(r)'
<1>0. Typed
  BY DEF PrefilterInv
<1>1. /\ at[r] = "check" /\ Filter(r).kind = "keyword"
      /\ filters' = filters /\ asked' = asked /\ letBy' = letBy /\ given \subseteq given'
  BY DEF CheckKeyword, At, Frame
<1>2. CASE Decide(r, "rejected")
  BY <1>0, <1>1, <1>2, DecideMoves, RestOK DEF Decided
<1>3. CASE Pass(r) /\ ~ FirstMatch(Filter(r), TextOf(r))
  <2>1. PICK n : n = pos[r]
    OBVIOUS
  <2>2. LetsPass(filters[n], r)
    BY <1>1, <1>3, <2>1 DEF LetsPass, Filter
  <2>3. LetsPass(filters[n], r)'
    BY <1>1, <2>2, LetsPassKept
  <2>4. at[r] \in Holding
    BY <1>1 DEF Holding
  <2> QED BY <1>1, <1>3, <2>1, <2>3, <2>4, PassKeeps
<1> QED BY <1>2, <1>3 DEF CheckKeyword

\* The guard's look into its cache.
LEMMA LookUpKeeps ==
  ASSUME PrefilterInv, NEW r \in Requests, Frame(r), LookUpVerdict(r)
  PROVE  RequestOK(r)'
<1>0. Typed /\ VerdictsOK /\ RequestOK(r)
  BY DEF PrefilterInv
<1>1. /\ at[r] = "check" /\ Filter(r).kind = "qwen_guard"
      /\ filters' = filters /\ asked' = asked /\ given' = given
  BY DEF LookUpVerdict, At, Frame, historyVars
<1>2. at[r] \in Holding
  BY <1>1 DEF Holding
<1>3. PICK n : n = pos[r]
  OBVIOUS
<1>4. CASE TextOf(r) = {}
  <2>1. Pass(r)
    BY <1>4 DEF LookUpVerdict
  <2>2. LetsPass(filters[n], r)'
    BY <1>1, <1>3, <1>4 DEF LetsPass, GuardAllows, TextOf, KeyOf, Filter
  <2> QED BY <1>1, <1>2, <1>3, <2>1, <2>2, PassKeeps
<1>5. CASE TextOf(r) # {} /\ Hit(verdicts, KeyOf(r))
  <2>1. Apply(r, verdicts.map[KeyOf(r)]) /\ letBy' = [letBy EXCEPT ![r] = "verdict"]
    BY <1>5 DEF LookUpVerdict
  <2>2. CASE verdicts.map[KeyOf(r)] = "accept"
    <3>1. Pass(r)
      BY <2>1, <2>2 DEF Apply
    <3>2. <<KeyOf(r), "accept">> \in given
      BY <1>0, <1>5, <2>2 DEF Hit, VerdictsOK
    <3>3. letBy'[r] = "verdict"
      BY <1>0, <2>1 DEF Typed
    <3>4. LetsPass(filters[n], r)'
      BY <1>1, <1>3, <3>2, <3>3 DEF LetsPass, GuardAllows, TextOf, KeyOf, Filter
    <3> QED BY <1>1, <1>2, <1>3, <3>1, <3>4, PassKeeps
  <2>3. CASE verdicts.map[KeyOf(r)] # "accept"
    <3>1. Decide(r, "rejected")
      BY <2>1, <2>3 DEF Apply
    <3> QED BY <1>0, <1>1, <3>1, DecideMoves, RestOK DEF Decided
  <2> QED BY <2>2, <2>3
<1>6. CASE TextOf(r) # {} /\ ~ Hit(verdicts, KeyOf(r))
  <2>1. at'[r] = "guard" /\ pos' = pos /\ letBy' = letBy
    BY <1>0, <1>6 DEF LookUpVerdict, Move, Typed
  <2>2. \A i \in 1..pos[r] - 1 : LetsPass(filters[i], r) => LetsPass(filters[i], r)'
    BY <1>1, <2>1, LetsPassKept
  <2> QED BY <1>0, <1>1, <1>2, <2>1, <2>2 DEF RequestOK, Filter, Holding
<1> QED BY <1>4, <1>5, <1>6

\* The guard's reply.
LEMMA ReplyPasses ==
  ASSUME PrefilterInv, NEW r \in Requests, Frame(r),
         NEW reply \in Replies(KeyOf(r)), GuardReplies(r, reply)
  PROVE  RequestOK(r)'
<1>0. Typed /\ VerdictsOK /\ RequestOK(r)
  BY DEF PrefilterInv
<1>1. /\ at[r] = "guard" /\ filters' = filters /\ asked' = asked /\ given \subseteq given'
      /\ letBy'[r] = WhatHappened(reply)
  BY <1>0 DEF GuardReplies, Frame, Typed
<1>2. at[r] \in Holding /\ Filter(r).kind = "qwen_guard"
  BY <1>0, <1>1 DEF Holding, RequestOK
<1>3. PICK n : n = pos[r]
  OBVIOUS
<1>4. CASE Pass(r)
  <2>1. \/ WhatHappened(reply) = "error" /\ Filter(r).onError = "accept"
        \/ WhatHappened(reply) = "unparseable" /\ Filter(r).onUnparseable = "accept"
        \/ WhatHappened(reply) = "verdict" /\ <<KeyOf(r), "accept">> \in given'
        \/ Decide(r, "rejected")
    <3>1. CASE WhatHappened(reply) = "error"
      BY <3>1 DEF GuardReplies, Reading, WhatHappened, Apply
    <3>2. CASE WhatHappened(reply) = "unparseable"
      BY <3>2 DEF GuardReplies, Reading, WhatHappened, Apply
    <3>3. CASE WhatHappened(reply) = "verdict"
      BY <3>3 DEF GuardReplies, Reading, WhatHappened, Apply
    <3> QED BY <3>1, <3>2, <3>3 DEF WhatHappened
  <2>2. CASE Decide(r, "rejected")
    BY <1>0, <1>1, <2>2, DecideMoves, RestOK DEF Decided
  <2>3. CASE ~ Decide(r, "rejected")
    <3>1. LetsPass(filters[n], r)'
      BY <1>1, <1>2, <1>3, <2>1, <2>3 DEF LetsPass, GuardAllows, KeyOf, Filter
    <3> QED BY <1>1, <1>2, <1>3, <1>4, <3>1, PassKeeps
  <2> QED BY <2>2, <2>3
<1>5. CASE Decide(r, "rejected")
  BY <1>0, <1>1, <1>5, DecideMoves, RestOK DEF Decided
<1> QED BY <1>4, <1>5 DEF GuardReplies, Apply

\* The result cache never blocks.
LEMMA CachePasses ==
  ASSUME PrefilterInv, NEW r \in Requests, Frame(r), Pass(r), at[r] \in Holding,
         Filter(r).kind = "result_cache", asked' = asked, letBy' = letBy
  PROVE  RequestOK(r)'
<1>1. PICK n : n = pos[r]
  OBVIOUS
<1>2. filters' = filters /\ given \subseteq given'
  BY DEF Frame
<1>3. LetsPass(filters[n], r)'
  BY <1>1, <1>2 DEF LetsPass, Filter
<1> QED BY <1>1, <1>2, <1>3, PassKeeps

\* The result cache.
LEMMA CacheKeeps ==
  ASSUME PrefilterInv, NEW r \in Requests, Frame(r),
         \/ ReadEntry(r)
         \/ Serve(r)
         \/ \E succeeds \in BOOLEAN : RemoveExpired(r, succeeds) \/ Cleanup(r, succeeds)
  PROVE  RequestOK(r)'
<1>0. Typed /\ VerdictsOK /\ RequestOK(r)
  BY DEF PrefilterInv
<1>1. /\ filters' = filters /\ clock' = clock /\ given \subseteq given'
      /\ asked' = asked /\ letBy' = letBy
      /\ at[r] \in Holding /\ Filter(r).kind = "result_cache"
  BY <1>0 DEF Frame, ReadEntry, Serve, RemoveExpired, Cleanup, CleanUp, At, RequestOK, Holding
<1>2. \A i \in 1..pos[r] - 1 : LetsPass(filters[i], r) /\ LetsPass(filters[i], r)'
  BY <1>0, <1>1, LetsPassKept DEF RequestOK
<1>3. CASE Pass(r)
  BY <1>1, <1>3, CachePasses
<1>4. CASE Decide(r, "served")
  <2>1. at'[r] = "served" /\ pos' = pos
    BY <1>0, <1>4, DecideMoves DEF Decided
  <2> QED BY <1>0, <1>1, <1>2, <2>1 DEF RequestOK, Holding
<1>5. CASE ReadEntry(r) /\ ~ Pass(r)
  <2>1. /\ pos' = pos /\ got'[r] = entry[KeyOf(r)] /\ at'[r] \in {"expired", "cleanup", "serve"}
        /\ at'[r] = "expired" =>
             got'[r] = Corrupt \/ Expired(entry[KeyOf(r)], Filter(r).ttl)
    BY <1>0, <1>5 DEF ReadEntry, Move, Typed
  <2> QED BY <1>0, <1>1, <1>2, <2>1 DEF RequestOK, Holding, Filter, Expired
<1> QED BY <1>3, <1>4, <1>5 DEF Serve, RemoveExpired, Cleanup, CleanUp

\* Each step keeps what is said of the requests.
LEMMA StepKeepsRequests ==
  ASSUME PrefilterInv, NEW r \in Requests, Step(r)
  PROVE  \A q \in Requests : RequestOK(q)'
<1>0. Typed /\ VerdictsOK /\ RequestOK(r) /\ Frame(r)
  BY StepTyped DEF PrefilterInv
<1>1. filters' = filters /\ given \subseteq given' /\ Len(filters) \in Nat
      /\ DOMAIN filters = 1..Len(filters)
  BY <1>0, FiltersFacts DEF Frame
<1>2. ASSUME NEW request \in Workload, Arrive(r, request) PROVE RequestOK(r)'
  <2>1. /\ pos[r] = 1 /\ pos'[r] = 1
        /\ at'[r] = IF filters = <<>> THEN "forwarded" ELSE "check"
    BY <1>0, <1>2 DEF Arrive, Move, RequestOK, Typed
  <2>2. filters # <<>> => 1 <= Len(filters)
    <3>1. filters \in Seq(ToSet(filters))
      BY <1>0, FiltersAreSeq DEF VerdictsOK, IsSeq
    <3> QED BY <3>1
  <2>3. filters = <<>> => DOMAIN filters = {}
    OBVIOUS
  <2> QED BY <1>1, <2>1, <2>2, <2>3 DEF RequestOK, Holding
<1>3. ASSUME Leave(r) \/ Dropped(r) \/ EndsUnstored(r) \/ \E succeeds \in BOOLEAN : Renamed(r, succeeds)
      PROVE  RequestOK(r)'
  <2>1. End(r)
    BY <1>3 DEF Leave, Dropped, EndsUnstored, Renamed
  <2> QED BY <1>0, <1>1, <2>1, EndMoves, RestOK
<1>4. ASSUME Answered(r) PROVE RequestOK(r)'
  <2>1. /\ at[r] = "forwarded" /\ at'[r] = "stamped" /\ UNCHANGED <<asked, pos, letBy, given>>
    BY <1>0, <1>4 DEF Answered, Move, Typed, historyVars
  <2>2. \A i \in DOMAIN filters : LetsPass(filters[i], r)'
    BY <1>0, <1>1, <2>1, LetsPassKept DEF RequestOK
  <2> QED BY <1>0, <1>1, <2>1, <2>2 DEF RequestOK, Holding
<1>5. RequestOK(r)'
  BY <1>0, <1>2, <1>3, <1>4, KeywordKeeps, LookUpKeeps, ReplyPasses, CacheKeeps DEF Step
<1> QED BY <1>0, <1>5, OthersKeep

--------------------------------------------------------------------------------
(* An answer is in one place.                                                *)

\* A step that stores no answer, and may remove one.
LEMMA NothingStored ==
  ASSUME PrefilterInv, NEW r \in Requests, Frame(r), answers' = answers, spent' = spent,
         NEW k \in Keys, entry' \in {entry, [entry EXCEPT ![k] = NoEntry]},
         at'[r] \notin {"stamped", "cleanup"},
         got'[r] \in {got[r], NoEntry} \cup {entry[j] : j \in Keys}
  PROVE  AnswersOK'
<1>0. Typed /\ AnswersOK
  BY DEF PrefilterInv
<1>1. /\ clock' = clock /\ clock \in Nat /\ answers \in Nat
      /\ \A q \in Requests \ {r} : at'[q] = at[q] /\ got'[q] = got[q] /\ asked'[q] = asked[q]
  BY <1>0 DEF Frame, OthersStay, Typed
<1>2. \A j \in Keys : entry'[j] = entry[j] \/ entry'[j] = NoEntry
  BY <1>0 DEF Typed
<1>3. EntryOK(NoEntry) /\ NoEntry.id = 0
  BY <1>1 DEF EntryOK, NoEntry
<1>4. \A j \in Keys : EntryOK(entry[j])
  BY <1>0 DEF AnswersOK
<1>5. \A j \in Keys : EntryOK(entry'[j])
  BY <1>2, <1>3, <1>4
<1>6. \A q \in Requests : EntryOK(got'[q])
  BY <1>0, <1>1, <1>3, <1>4 DEF AnswersOK
<1>7. \A q \in Requests : at'[q] \in {"stamped", "cleanup"} => q # r
  OBVIOUS
<1>8. ASSUME NEW q \in Requests, at'[q] = "stamped" PROVE StampedOK(q)'
  <2>1. at[q] = "stamped" /\ got'[q] = got[q] /\ StampedOK(q)
    BY <1>0, <1>1, <1>7, <1>8 DEF AnswersOK
  <2> QED BY <1>1, <1>2, <1>3, <1>7, <2>1 DEF StampedOK
<1>9. ASSUME NEW q \in Requests, at'[q] = "cleanup" PROVE CleanupOK(q)'
  <2>1. at[q] = "cleanup" /\ got'[q] = got[q] /\ asked'[q] = asked[q] /\ CleanupOK(q)
    BY <1>0, <1>1, <1>7, <1>9 DEF AnswersOK
  <2> QED BY <1>2, <1>3, <2>1 DEF CleanupOK, KeyOf
<1>10. SpentIsGone'
  BY <1>0, <1>1, <1>2, <1>3 DEF AnswersOK, SpentIsGone
<1>11. \A i, j \in Keys : entry'[i].id > 0 /\ entry'[i].id = entry'[j].id => i = j
  BY <1>0, <1>2, <1>3 DEF AnswersOK
<1> QED BY <1>0, <1>1, <1>5, <1>6, <1>8, <1>9, <1>10, <1>11 DEF AnswersOK, EntryOK

\* An answer is read that will be removed.
LEMMA ReadForRemoval ==
  ASSUME PrefilterInv, NEW r \in Requests, Frame(r), ReadEntry(r), at'[r] = "cleanup"
  PROVE  AnswersOK'
<1>0. Typed /\ AnswersOK
  BY DEF PrefilterInv
<1>1. /\ clock' = clock /\ answers' = answers /\ entry' = entry /\ spent' = spent /\ asked' = asked
      /\ \A q \in Requests \ {r} : at'[q] = at[q] /\ got'[q] = got[q]
  BY DEF Frame, OthersStay, ReadEntry, historyVars
<1>2. ~ Pass(r)
  BY <1>0, PassMoves
<1>3. KeyOf(r) \in Keys
  BY <1>0, PrefilterAssumption DEF ReadEntry, At, Typed, KeyOf
<1>4. got'[r] = entry[KeyOf(r)] /\ entry[KeyOf(r)] # NoEntry /\ entry[KeyOf(r)] # Corrupt
  BY <1>0, <1>2 DEF ReadEntry, Move, Typed
<1>5. EntryOK(entry[KeyOf(r)]) /\ entry[KeyOf(r)].id > 0
  <2>1. EntryOK(entry[KeyOf(r)])
    BY <1>0, <1>3 DEF AnswersOK
  <2> QED BY <1>0, <1>4, <2>1 DEF EntryOK, Typed
<1>6. \A q \in Requests : EntryOK(got'[q])
  BY <1>0, <1>1, <1>4, <1>5 DEF AnswersOK
<1>7. ASSUME NEW q \in Requests, at'[q] = "stamped" PROVE StampedOK(q)'
  <2>1. q # r /\ at[q] = "stamped" /\ got'[q] = got[q] /\ StampedOK(q)
    BY <1>0, <1>1, <1>7 DEF AnswersOK
  <2> QED BY <1>1, <1>3, <1>4, <2>1 DEF StampedOK
<1>8. ASSUME NEW q \in Requests, at'[q] = "cleanup" PROVE CleanupOK(q)'
  <2>1. CASE q # r
    BY <1>0, <1>1, <1>8, <2>1 DEF AnswersOK, CleanupOK, KeyOf
  <2>2. CASE q = r
    BY <1>0, <1>1, <1>3, <1>4, <1>5, <2>2 DEF AnswersOK, CleanupOK, KeyOf
  <2> QED BY <2>1, <2>2
<1> QED BY <1>0, <1>1, <1>6, <1>7, <1>8 DEF AnswersOK, SpentIsGone, EntryOK

\* An answer is removed once it was served.
LEMMA CleanupSpends ==
  ASSUME PrefilterInv, NEW r \in Requests, Frame(r), NEW succeeds \in BOOLEAN, Cleanup(r, succeeds)
  PROVE  AnswersOK'
<1>0. Typed /\ AnswersOK /\ CleanupOK(r) /\ KeyOf(r) \in Keys
  BY PrefilterAssumption DEF PrefilterInv, AnswersOK, Cleanup, CleanUp, Typed, KeyOf
<1>1. /\ at'[r] = "served" /\ got'[r] = NoEntry /\ answers' = answers /\ asked' = asked
      /\ entry' = IF succeeds THEN [entry EXCEPT ![KeyOf(r)] = NoEntry] ELSE entry
      /\ spent' = IF succeeds THEN spent \cup {got[r].id} ELSE spent
  BY <1>0 DEF Cleanup, CleanUp, RemoveEntry, Decide, Move, Forget, Typed
<1>2. CASE ~ succeeds
  BY <1>0, <1>1, <1>2, NothingStored
<1>3. CASE succeeds
  <2>1. /\ clock' = clock /\ clock \in Nat /\ answers \in Nat
        /\ \A q \in Requests \ {r} : at'[q] = at[q] /\ got'[q] = got[q]
    BY <1>0 DEF Frame, OthersStay, Typed
  <2>2. /\ entry'[KeyOf(r)] = NoEntry /\ \A j \in Keys \ {KeyOf(r)} : entry'[j] = entry[j]
        /\ NoEntry.id = 0 /\ EntryOK(NoEntry)
    BY <1>0, <1>1, <1>3, <2>1 DEF Typed, NoEntry, EntryOK
  <2>3. got[r].id \in 1..answers
    <3>1. EntryOK(got[r]) /\ got[r].id > 0
      BY <1>0 DEF AnswersOK, CleanupOK
    <3> QED BY <2>1, <3>1 DEF EntryOK
  <2>4. spent' \subseteq 1..answers
    BY <1>0, <1>1, <1>3, <2>3 DEF AnswersOK
  <2>5. ASSUME NEW j \in Keys PROVE entry'[j].id \notin spent'
    <3>1. CASE j = KeyOf(r)
      BY <2>1, <2>2, <2>4, <3>1
    <3>2. CASE j # KeyOf(r)
      BY <1>0, <1>1, <1>3, <2>2, <3>2 DEF AnswersOK, SpentIsGone, CleanupOK
    <3> QED BY <3>1, <3>2
  <2>6. ASSUME NEW q \in Requests, at'[q] = "stamped" PROVE StampedOK(q)'
    <3>1. q # r /\ at[q] = "stamped" /\ got'[q] = got[q] /\ StampedOK(q) /\ at[r] = "cleanup"
      BY <1>0, <1>1, <2>1, <2>6 DEF AnswersOK, Cleanup, CleanUp
    <3>2. got[q].id \notin spent' /\ got[q].id > 0
      BY <1>1, <1>3, <3>1 DEF StampedOK
    <3>3. \A j \in Keys : entry'[j].id # got[q].id
      BY <2>2, <3>1, <3>2 DEF StampedOK
    <3>4. \A p \in Requests \ {q} : at'[p] \in {"stamped", "cleanup"} => got'[p].id # got[q].id
      BY <1>1, <2>1, <3>1 DEF StampedOK
    <3> QED BY <3>1, <3>2, <3>3, <3>4 DEF StampedOK
  <2>7. ASSUME NEW q \in Requests, at'[q] = "cleanup" PROVE CleanupOK(q)'
    <3>1. q # r /\ at[q] = "cleanup" /\ got'[q] = got[q] /\ CleanupOK(q)
      BY <1>0, <1>1, <2>1, <2>7 DEF AnswersOK
    <3> QED BY <1>1, <2>2, <3>1 DEF CleanupOK, KeyOf
  <2>8. \A j \in Keys : EntryOK(entry'[j])
    BY <1>0, <2>2 DEF AnswersOK
  <2>9. \A q \in Requests : EntryOK(got'[q])
    BY <1>0, <1>1, <2>1, <2>2 DEF AnswersOK
  <2>10. \A i, j \in Keys : entry'[i].id > 0 /\ entry'[i].id = entry'[j].id => i = j
    BY <1>0, <2>2 DEF AnswersOK
  <2> QED BY <1>1, <2>1, <2>4, <2>5, <2>6, <2>7, <2>8, <2>9, <2>10 DEF AnswersOK, SpentIsGone, EntryOK
<1> QED BY <1>2, <1>3

\* A new answer gets a number that nothing has.
LEMMA AnsweredIsNew ==
  ASSUME PrefilterInv, NEW r \in Requests, Frame(r), Answered(r)
  PROVE  AnswersOK'
<1>0. Typed /\ AnswersOK
  BY DEF PrefilterInv
<1>1. /\ at'[r] = "stamped" /\ answers' = answers + 1 /\ got'[r] = [id |-> answers + 1, at |-> clock]
      /\ entry' = entry /\ spent' = spent /\ asked' = asked
  BY <1>0 DEF Answered, Move, Typed, historyVars
<1>2. /\ clock' = clock /\ clock \in Nat /\ answers \in Nat
      /\ \A q \in Requests \ {r} : at'[q] = at[q] /\ got'[q] = got[q]
  BY <1>0 DEF Frame, OthersStay, Typed
<1>3. \A j \in Keys : EntryOK(entry[j]) /\ entry[j].id \in -1..answers
  BY <1>0 DEF AnswersOK, EntryOK
<1>4. \A q \in Requests : EntryOK(got[q]) /\ got[q].id \in -1..answers
  BY <1>0 DEF AnswersOK, EntryOK
<1>6. EntryOK(got[r])'
  BY <1>1, <1>2 DEF EntryOK
<1>7. \A q \in Requests : EntryOK(got[q])'
  <2>1. ASSUME NEW q \in Requests, q # r PROVE EntryOK(got[q])'
    BY <1>1, <1>2, <1>4, <2>1 DEF EntryOK
  <2> QED BY <1>6, <2>1
<1>8. \A j \in Keys : EntryOK(entry[j])'
  BY <1>1, <1>2, <1>3 DEF EntryOK
<1>9. ASSUME NEW q \in Requests, at'[q] = "stamped" PROVE StampedOK(q)'
  <2>1. CASE q = r
    <3>1. got'[r].id = answers + 1
      BY <1>1
    <3>2. answers + 1 > 0 /\ answers + 1 \notin spent
      BY <1>0, <1>2 DEF AnswersOK
    <3>3. \A j \in Keys : entry[j].id # answers + 1
      BY <1>2, <1>3
    <3>4. \A p \in Requests \ {r} : got'[p].id # answers + 1
      BY <1>2, <1>4
    <3> QED BY <1>1, <2>1, <3>1, <3>2, <3>3, <3>4 DEF StampedOK
  <2>2. CASE q # r
    <3>1. at[q] = "stamped" /\ got'[q] = got[q] /\ StampedOK(q)
      BY <1>0, <1>2, <1>9, <2>2 DEF AnswersOK
    <3>2. got'[r].id # got[q].id
      BY <1>1, <1>2, <1>4
    <3> QED BY <1>1, <1>2, <3>1, <3>2 DEF StampedOK
  <2> QED BY <2>1, <2>2
<1>10. ASSUME NEW q \in Requests, at'[q] = "cleanup" PROVE CleanupOK(q)'
  <2>1. at[q] = "cleanup" /\ got'[q] = got[q] /\ CleanupOK(q)
    BY <1>0, <1>1, <1>2, <1>10 DEF AnswersOK
  <2> QED BY <1>1, <2>1 DEF CleanupOK, KeyOf
<1>11. spent \subseteq 1..answers'
  BY <1>0, <1>1, <1>2 DEF AnswersOK
<1> QED BY <1>0, <1>1, <1>7, <1>8, <1>9, <1>10, <1>11 DEF AnswersOK, SpentIsGone

\* A stamped answer gets its name.
LEMMA RenamedIsNew ==
  ASSUME PrefilterInv, NEW r \in Requests, Frame(r), NEW succeeds \in BOOLEAN, Renamed(r, succeeds)
  PROVE  AnswersOK'
<1>0. Typed /\ AnswersOK /\ StampedOK(r) /\ KeyOf(r) \in Keys
  BY PrefilterAssumption DEF PrefilterInv, AnswersOK, Renamed, Typed, KeyOf
<1>1. /\ at'[r] = "done" /\ got'[r] = NoEntry /\ answers' = answers /\ spent' = spent
      /\ entry' = IF succeeds THEN [entry EXCEPT ![KeyOf(r)] = got[r]] ELSE entry
      /\ at[r] = "stamped"
  BY <1>0, EndMoves DEF Renamed, historyVars
<1>2. CASE ~ succeeds
  BY <1>0, <1>1, <1>2, NothingStored
<1>3. CASE succeeds
  <2>1. /\ clock' = clock /\ clock \in Nat /\ answers \in Nat
        /\ \A q \in Requests \ {r} : at'[q] = at[q] /\ got'[q] = got[q] /\ asked'[q] = asked[q]
    BY <1>0 DEF Frame, OthersStay, Typed
  <2>2. /\ entry'[KeyOf(r)] = got[r] /\ \A j \in Keys \ {KeyOf(r)} : entry'[j] = entry[j]
        /\ EntryOK(NoEntry)
    BY <1>0, <1>1, <1>3, <2>1 DEF Typed, NoEntry, EntryOK
  <2>3. ASSUME NEW q \in Requests, at'[q] = "stamped" PROVE StampedOK(q)'
    <3>1. q # r /\ at[q] = "stamped" /\ got'[q] = got[q] /\ StampedOK(q)
      BY <1>0, <1>1, <2>1, <2>3 DEF AnswersOK
    <3>2. got[r].id # got[q].id
      BY <1>1, <3>1 DEF StampedOK
    <3>3. \A p \in Requests \ {q} : at'[p] \in {"stamped", "cleanup"} => got'[p].id # got[q].id
      BY <1>1, <2>1, <3>1 DEF StampedOK
    <3> QED BY <1>1, <2>2, <3>1, <3>2, <3>3 DEF StampedOK
  <2>4. ASSUME NEW q \in Requests, at'[q] = "cleanup" PROVE CleanupOK(q)'
    <3>1. q # r /\ at[q] = "cleanup" /\ got'[q] = got[q] /\ asked'[q] = asked[q] /\ CleanupOK(q)
      BY <1>0, <1>1, <2>1, <2>4 DEF AnswersOK
    <3>2. got[q].id # got[r].id
      BY <1>0, <3>1 DEF StampedOK
    <3> QED BY <2>2, <3>1, <3>2 DEF CleanupOK, KeyOf
  <2>5. \A j \in Keys : EntryOK(entry'[j])
    BY <1>0, <2>2 DEF AnswersOK
  <2>6. \A q \in Requests : EntryOK(got'[q])
    BY <1>0, <1>1, <2>1, <2>2 DEF AnswersOK
  <2>7. \A i, j \in Keys : entry'[i].id > 0 /\ entry'[i].id = entry'[j].id => i = j
    BY <1>0, <2>2 DEF AnswersOK, StampedOK
  <2>8. SpentIsGone'
    BY <1>0, <1>1, <2>2 DEF AnswersOK, SpentIsGone, StampedOK
  <2> QED BY <1>0, <1>1, <2>1, <2>3, <2>4, <2>5, <2>6, <2>7, <2>8 DEF AnswersOK, EntryOK
<1> QED BY <1>2, <1>3

\* Each step of a request keeps what is said of the answers.
LEMMA StepKeepsAnswers ==
  ASSUME PrefilterInv, NEW r \in Requests, Step(r)
  PROVE  AnswersOK'
<1>0. Typed /\ Frame(r) /\ VerdictsOK /\ AnswersOK
  BY StepTyped DEF PrefilterInv
<1>1. ASSUME \/ \E request \in Workload : Arrive(r, request)
             \/ Leave(r) \/ Dropped(r) \/ EndsUnstored(r)
             \/ CheckKeyword(r) \/ LookUpVerdict(r)
             \/ \E reply \in Replies(KeyOf(r)) : GuardReplies(r, reply)
             \/ Serve(r)
      PROVE  AnswersOK'
  <2>1. /\ entry' = entry /\ answers' = answers /\ spent' = spent /\ got'[r] \in {got[r], NoEntry}
    BY <1>0, <1>1, EndMoves
       DEF Arrive, Leave, Dropped, EndsUnstored, CheckKeyword, LookUpVerdict, GuardReplies, Serve,
           Forget, Typed, historyVars
  <2>2. at'[r] \notin {"stamped", "cleanup"}
    <3>1. CASE End(r)
      BY <1>0, <3>1, EndMoves
    <3>2. CASE Pass(r) \/ Decide(r, "rejected") \/ Decide(r, "served")
      BY <1>0, <3>2, PassMoves, DecideMoves DEF Decided
    <3>3. CASE \E request \in Workload : Arrive(r, request)
      BY <1>0, <3>3 DEF Arrive, Move, Typed
    <3>4. CASE Move(r, "guard")
      BY <1>0, <3>4 DEF Move, Typed
    <3> QED BY <1>1, <3>1, <3>2, <3>3, <3>4
            DEF Leave, Dropped, EndsUnstored, CheckKeyword, LookUpVerdict, GuardReplies, Serve, Apply
  <2>3. CASE Keys # {}
    <3>1. PICK k \in Keys : TRUE
      BY <2>3
    <3>2. entry' \in {entry, [entry EXCEPT ![k] = NoEntry]}
      BY <2>1
    <3>3. got'[r] \in {got[r], NoEntry} \cup {entry[j] : j \in Keys}
      BY <2>1
    <3> QED BY <1>0, <2>1, <2>2, <3>2, <3>3, NothingStored
  <2>4. CASE Keys = {}
    <3>1. \A q \in Requests : at[q] = "done"
      BY <1>0, <2>4, PrefilterAssumption DEF Typed
    <3>2. Workload = {}
      BY <2>4, PrefilterAssumption
    <3> QED BY <1>1, <3>1, <3>2
            DEF Leave, Dropped, EndsUnstored, CheckKeyword, LookUpVerdict, GuardReplies, Serve, At
  <2> QED BY <2>3, <2>4
<1>2. ASSUME ReadEntry(r) PROVE AnswersOK'
  <2>1. CASE at'[r] = "cleanup"
    BY <1>0, <1>2, <2>1, ReadForRemoval
  <2>2. CASE at'[r] # "cleanup"
    <3>1. KeyOf(r) \in Keys
      BY <1>0, <1>2, PrefilterAssumption DEF ReadEntry, At, Typed, KeyOf
    <3>2. /\ entry' = entry /\ answers' = answers /\ spent' = spent
          /\ got'[r] \in {got[r], entry[KeyOf(r)]}
      BY <1>0, <1>2 DEF ReadEntry, Typed, historyVars
    <3>3. at'[r] # "stamped"
      <4>1. CASE Pass(r)
        BY <1>0, <4>1, PassMoves
      <4>2. CASE ~ Pass(r)
        BY <1>0, <1>2, <4>2 DEF ReadEntry, Move, Typed
      <4> QED BY <4>1, <4>2
    <3> QED BY <1>0, <2>2, <3>1, <3>2, <3>3, NothingStored
  <2> QED BY <2>1, <2>2
<1>3. ASSUME NEW succeeds \in BOOLEAN, RemoveExpired(r, succeeds) PROVE AnswersOK'
  <2>1. KeyOf(r) \in Keys
    BY <1>0, <1>3, PrefilterAssumption DEF RemoveExpired, Typed, KeyOf
  <2>2. /\ entry' \in {entry, [entry EXCEPT ![KeyOf(r)] = NoEntry]}
        /\ answers' = answers /\ spent' = spent /\ got'[r] = NoEntry
    BY <1>0, <1>3 DEF RemoveExpired, RemoveEntry, Forget, Typed, historyVars
  <2>3. at'[r] \notin {"stamped", "cleanup"}
    BY <1>0, <1>3, PassMoves DEF RemoveExpired
  <2> QED BY <1>0, <2>1, <2>2, <2>3, NothingStored
<1> QED BY <1>0, <1>1, <1>2, <1>3, CleanupSpends, AnsweredIsNew, RenamedIsNew DEF Step

--------------------------------------------------------------------------------
(* The invariant holds.                                                      *)

\* Time passes.
LEMMA TickKeeps ==
  ASSUME PrefilterInv, Tick
  PROVE  PrefilterInv'
<1>0. Typed /\ VerdictsOK /\ (\A r \in Requests : RequestOK(r)) /\ AnswersOK
  BY DEF PrefilterInv
<1>1. /\ clock' = clock + 1 /\ clock \in Nat
      /\ UNCHANGED <<filters, verdicts, entry, answers, at, asked, pos, got, letBy, given, spent>>
  BY <1>0 DEF Tick, requestVars, historyVars, Typed
<1>2. Typed'
  BY <1>0, <1>1 DEF Typed
<1>3. VerdictsOK'
  BY <1>0, <1>1 DEF VerdictsOK
<1>4. ASSUME NEW r \in Requests PROVE RequestOK(r)'
  <2>1. RequestOK(r)
    BY <1>0
  <2>2. \A i : LetsPass(filters[i], r) => LetsPass(filters[i], r)'
    BY <1>1, LetsPassKept
  <2>3. at[r] = "expired" /\ Expired(got[r], Filter(r).ttl) => Expired(got[r], Filter(r).ttl)'
    <3>1. SUFFICES ASSUME at[r] = "expired", Expired(got[r], Filter(r).ttl)
                   PROVE  Expired(got[r], Filter(r).ttl)'
      OBVIOUS
    <3>2. got[r].at \in Nat /\ Filter(r).ttl \in Nat
      <4>1. pos[r] \in DOMAIN filters /\ filters[pos[r]].kind = "result_cache"
        BY <1>0, <2>1, <3>1, FiltersFacts DEF RequestOK, Holding, Typed, Filter
      <4> QED BY <1>0, <4>1, FiltersFacts DEF Filter, Typed, Entries
    <3> QED BY <1>1, <3>1, <3>2 DEF Expired, Filter
  <2> QED BY <1>1, <2>1, <2>2, <2>3 DEF RequestOK, Filter
<1>6. \A r \in Requests : /\ StampedOK(r) => StampedOK(r)'
                          /\ CleanupOK(r) => CleanupOK(r)'
  BY <1>1 DEF StampedOK, CleanupOK, KeyOf
<1>7. /\ \A k \in Keys : EntryOK(entry[k])'
      /\ \A r \in Requests : EntryOK(got[r])'
  BY <1>0, <1>1 DEF AnswersOK, EntryOK
<1>8. AnswersOK'
  BY <1>0, <1>1, <1>6, <1>7 DEF AnswersOK, SpentIsGone
<1> QED BY <1>2, <1>3, <1>4, <1>8 DEF PrefilterInv

\* A restart.
LEMMA RestartKeeps ==
  ASSUME PrefilterInv, Restart
  PROVE  PrefilterInv'
<1>0. Typed /\ AnswersOK
  BY DEF PrefilterInv
<1>1. PICK list \in Lists : filters' = Loaded(list) /\ verdicts' = NewCache(GuardCap(filters'))
  BY DEF Restart
<1>2. /\ at' = All("done") /\ asked' = All(NoRequest) /\ pos' = All(1) /\ got' = All(NoEntry)
      /\ letBy' = All("no") /\ given' = {} /\ spent' = {}
      /\ UNCHANGED <<entry, clock, answers>>
  BY DEF Restart
<1>3. NoEntry \in Entries
  BY DEF NoEntry, Entries
<1>4. Typed'
  BY <1>0, <1>2, <1>3 DEF Typed, All, Decided
<1>5. VerdictsOK'
  BY <1>1, <1>2, NewCacheOK DEF VerdictsOK
<1>6. ASSUME NEW r \in Requests PROVE RequestOK(r)'
  <2>1. Len(filters') \in Nat
    <3>1. Loaded(list) \in Seq(ToSet(Loaded(list)))
      BY FiltersAreSeq DEF IsSeq
    <3> QED BY <1>1, <3>1
  <2> QED BY <1>2, <2>1 DEF RequestOK, All, Holding
<1>7. \A r \in Requests : EntryOK(got[r])'
  BY <1>0, <1>2 DEF All, EntryOK, NoEntry, Typed
<1>8. \A k \in Keys : EntryOK(entry[k])'
  BY <1>0, <1>2 DEF AnswersOK, EntryOK
<1>9. AnswersOK'
  BY <1>0, <1>2, <1>7, <1>8 DEF AnswersOK, SpentIsGone, All
<1> QED BY <1>4, <1>5, <1>6, <1>9 DEF PrefilterInv

\* Nothing happens.
LEMMA StutterKeeps ==
  ASSUME PrefilterInv, UNCHANGED vars
  PROVE  PrefilterInv'
<1>0. Typed /\ VerdictsOK /\ (\A r \in Requests : RequestOK(r)) /\ AnswersOK
  BY DEF PrefilterInv
<1>1. UNCHANGED <<filters, verdicts, entry, clock, answers, at, asked, pos, got, letBy, given, spent>>
  BY DEF vars, requestVars, historyVars
<1>2. Typed' /\ VerdictsOK'
  BY <1>0, <1>1 DEF Typed, VerdictsOK
<1>3. ASSUME NEW r \in Requests PROVE RequestOK(r)'
  <2>1. \A i : LetsPass(filters[i], r) => LetsPass(filters[i], r)'
    BY <1>1, LetsPassKept
  <2> QED BY <1>0, <1>1, <2>1 DEF RequestOK, Filter, Expired
<1>4. \A r \in Requests : /\ StampedOK(r) => StampedOK(r)'
                          /\ CleanupOK(r) => CleanupOK(r)'
  BY <1>1 DEF StampedOK, CleanupOK, KeyOf
<1>5. AnswersOK'
  BY <1>0, <1>1, <1>4 DEF AnswersOK, EntryOK, SpentIsGone
<1> QED BY <1>2, <1>3, <1>5 DEF PrefilterInv

\* The invariant is inductive.
LEMMA PrefilterInvNext ==
  ASSUME PrefilterInv, [Next]_vars
  PROVE  PrefilterInv'
<1>1. ASSUME NEW r \in Requests, Step(r) PROVE PrefilterInv'
  BY <1>1, StepTyped, StepKeepsVerdicts, StepKeepsRequests, StepKeepsAnswers DEF PrefilterInv
<1> QED BY <1>1, TickKeeps, RestartKeeps, StutterKeeps DEF Next

\* The inductive invariant: the guard's cache has only decisions of the guard and
\* each with its place in the queue, a request has passed the filters behind it,
\* and an answer not yet stored, or about to be removed, is in no other file.
THEOREM PrefilterInvariant == Spec => []PrefilterInv
<1>1. Init => PrefilterInv
  BY PrefilterInvInit
<1>2. PrefilterInv /\ [Next]_vars => PrefilterInv'
  BY PrefilterInvNext
<1> QED BY <1>1, <1>2, PTL DEF Spec

\* What the invariant says of types.
LEMMA InvImpliesTypes == PrefilterInv => PrefilterTypeOK
<1> SUFFICES ASSUME PrefilterInv PROVE PrefilterTypeOK
  OBVIOUS
<1>1. pos \in [Requests -> 1 .. Len(filters) + 1]
  <2>1. \A r \in Requests : pos[r] \in 1 .. Len(filters) + 1
    BY FiltersFacts DEF PrefilterInv, Typed, RequestOK
  <2> QED BY <2>1 DEF PrefilterInv, Typed
<1>2. /\ Cached(verdicts) \subseteq Queued(verdicts)
      /\ verdicts.order # <<>> => verdicts.cap > 0
  BY DEF PrefilterInv, VerdictsOK, CacheOK
<1>3. \A k \in Keys : entry[k].id \in -1 .. answers /\ entry[k].at \in 0 .. clock
  BY DEF PrefilterInv, AnswersOK, EntryOK
<1> QED BY <1>1, <1>2, <1>3 DEF PrefilterInv, Typed, PrefilterTypeOK, Holding

\* Types; and the guard's cache keeps no decision that it could not evict
\* (VerdictCache::put of qwen_guard.rs), however often a key was put twice.
THEOREM PrefilterTypes == Spec => []PrefilterTypeOK
BY PrefilterInvariant, InvImpliesTypes, PTL

\* What the invariant says of the filters.
LEMMA InvImpliesClosed == PrefilterInv => FailsClosed
<1> SUFFICES ASSUME PrefilterInv PROVE FailsClosed
  OBVIOUS
<1>1. ASSUME NEW r \in Requests, NEW i \in PassedBy(r)
      PROVE  LetsPass(filters[i], r)
  BY <1>1 DEF PassedBy, PrefilterInv, RequestOK, Holding
<1> QED BY <1>1 DEF PrefilterInv, VerdictsOK, FailsClosed

\* Nothing that a keyword or the guard blocks reaches the backend or a cached
\* answer behind it (the prefilter chain of chat, app.rs), for any list of
\* filters with one guard, any verdicts and replies, and any restarts.
THEOREM FailsClosedAlways == Spec => []FailsClosed
BY PrefilterInvariant, InvImpliesClosed, PTL

\* An answer that was served and removed (RemoveAfterServe of result_cache.rs) is in no
\* file again, whatever overlaps with it: a store under way does not bring it back.
THEOREM SpentStaysGone == Spec => []SpentIsGone
<1>1. PrefilterInv => SpentIsGone
  BY DEF PrefilterInv, AnswersOK
<1> QED BY <1>1, PrefilterInvariant, PTL

--------------------------------------------------------------------------------
(* The expiry.                                                               *)

\* Only the look-up serves, and only what is not too old.
LEMMA ServesInTime ==
  ASSUME PrefilterInv, [Next]_vars, NEW r \in Requests,
         at[r] = "check", at'[r] \in {"serve", "cleanup"}
  PROVE  Filter(r).ttl = 0 \/ clock - entry[KeyOf(r)].at <= Filter(r).ttl
<1>0. Typed /\ VerdictsOK /\ RequestOK(r)
  BY DEF PrefilterInv
<1>1. at' # at
  OBVIOUS
<1>2. ~ Restart /\ ~ Tick /\ ~ UNCHANGED vars
  BY <1>1 DEF Restart, Tick, All, vars, requestVars
<1>3. PICK q \in Requests : Step(q)
  BY <1>2 DEF Next
<1>4. q = r
  BY <1>3, StepTyped DEF Frame, OthersStay
<1>5. ~ Pass(r) /\ ~ End(r) /\ ~ Decide(r, "rejected") /\ ~ Decide(r, "served")
  BY <1>0, PassMoves, EndMoves, DecideMoves DEF Decided
<1>6. ~ Move(r, "guard")
  BY <1>0 DEF Move, Typed
<1>7. ReadEntry(r)
  BY <1>3, <1>4, <1>5, <1>6
     DEF Step, Arrive, Leave, CheckKeyword, LookUpVerdict, Apply, GuardReplies, Dropped,
         RemoveExpired, Cleanup, CleanUp, Renamed, Serve, Answered, EndsUnstored
<1>8. ~ Expired(entry[KeyOf(r)], Filter(r).ttl)
  BY <1>0, <1>5, <1>7 DEF ReadEntry, Move, Typed
<1>9. Filter(r).ttl \in Nat /\ entry[KeyOf(r)].at \in Nat /\ clock \in Nat
  <2>1. pos[r] \in DOMAIN filters /\ Filter(r).kind = "result_cache"
    BY <1>0, <1>7, FiltersFacts DEF ReadEntry, At, RequestOK, Holding, Typed
  <2>2. KeyOf(r) \in Keys
    BY <1>0, PrefilterAssumption DEF Typed, KeyOf
  <2> QED BY <1>0, <2>1, <2>2, FiltersFacts DEF Filter, Typed, Entries
<1> QED BY <1>8, <1>9 DEF Expired

\* Only a removal removes an answer, and only for its reasons.
LEMMA RemovesForAReason ==
  ASSUME PrefilterInv, [Next]_vars, NEW k \in Keys, entry[k].id > 0, entry'[k] = NoEntry
  PROVE  \E r \in Requests :
           /\ KeyOf(r) = k
           /\ \/ at[r] = "cleanup"
              \/ at[r] = "expired" /\ got[r] # entry[k]
              \/ at[r] = "expired" /\ Filter(r).ttl > 0 /\ clock - entry[k].at > Filter(r).ttl
<1>0. Typed /\ AnswersOK /\ \A r \in Requests : RequestOK(r)
  BY DEF PrefilterInv
<1>1. entry' # entry
  <2>1. NoEntry.id = 0
    BY DEF NoEntry
  <2> QED BY <2>1
<1>2. ~ Restart /\ ~ Tick /\ ~ UNCHANGED vars
  BY <1>1 DEF Restart, Tick, vars
<1>3. PICK r \in Requests : Step(r)
  BY <1>2 DEF Next
<1>4. ASSUME NEW succeeds \in BOOLEAN, Renamed(r, succeeds) PROVE FALSE
  <2>1. StampedOK(r) /\ entry' = [entry EXCEPT ![KeyOf(r)] = got[r]]
    BY <1>0, <1>1, <1>4 DEF Renamed, AnswersOK
  <2>2. entry'[k] = entry[k] \/ entry'[k] = got[r]
    BY <1>0, <2>1 DEF Typed
  <2>3. NoEntry.id = 0
    BY DEF NoEntry
  <2> QED BY <2>1, <2>2, <2>3 DEF StampedOK
<1>5. PICK succeeds \in BOOLEAN : RemoveExpired(r, succeeds) \/ Cleanup(r, succeeds)
  BY <1>1, <1>3, <1>4
     DEF Step, Arrive, Leave, CheckKeyword, LookUpVerdict, GuardReplies, Dropped, ReadEntry, Serve,
         Answered, EndsUnstored
<1>6. entry' = [entry EXCEPT ![KeyOf(r)] = NoEntry]
  BY <1>1, <1>5 DEF RemoveExpired, Cleanup, CleanUp, RemoveEntry
<1>7. KeyOf(r) = k
  <2>1. NoEntry.id = 0
    BY DEF NoEntry
  <2> QED BY <1>0, <1>6, <2>1 DEF Typed
<1>8. CASE Cleanup(r, succeeds)
  BY <1>7, <1>8 DEF Cleanup, CleanUp
<1>9. CASE RemoveExpired(r, succeeds) /\ got[r] = entry[k]
  <2>1. at[r] = "expired" /\ got[r] # Corrupt
    <3>1. Corrupt.id = -1
      BY DEF Corrupt
    <3> QED BY <1>9, <3>1 DEF RemoveExpired
  <2>2. Expired(got[r], Filter(r).ttl)
    BY <1>0, <2>1 DEF RequestOK
  <2> QED BY <1>7, <1>9, <2>1, <2>2 DEF Expired
<1>10. CASE RemoveExpired(r, succeeds) /\ got[r] # entry[k]
  BY <1>7, <1>10 DEF RemoveExpired
<1> QED BY <1>5, <1>8, <1>9, <1>10

\* An entry is served up to its expiry and not after (ResultCache::get of
\* result_cache.rs), and nothing else removes one that is not served once.
THEOREM ExpiryIsExact == Spec => TtlExact
<1>1. PrefilterInv /\ [Next]_vars =>
        [ /\ \A r \in Requests :
               at[r] = "check" /\ at'[r] \in {"serve", "cleanup"} =>
                 Filter(r).ttl = 0 \/ clock - entry[KeyOf(r)].at <= Filter(r).ttl
          /\ \A k \in Keys :
               entry[k].id > 0 /\ entry'[k] = NoEntry =>
                 \E r \in Requests :
                   /\ KeyOf(r) = k
                   /\ \/ at[r] = "cleanup"
                      \/ at[r] = "expired" /\ got[r] # entry[k]
                      \/ at[r] = "expired" /\ Filter(r).ttl > 0 /\ clock - entry[k].at > Filter(r).ttl
        ]_vars
  BY ServesInTime, RemovesForAReason
<1> QED BY <1>1, PrefilterInvariant, PTL DEF Spec, TtlExact

================================================================================
