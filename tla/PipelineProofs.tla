----------------------------- MODULE PipelineProofs -----------------------------
(***************************************************************************)
(* Proofs about the slot pool, for every number of slots, backends and     *)
(* requests, and about the chat pipeline that uses it, for every workload  *)
(* and every number of save retries.                                       *)
(***************************************************************************)
EXTENDS Pipeline, SequenceTheorems, FunctionTheorems, FiniteSetTheorems,
        WellFoundedInduction, TLAPS

--------------------------------------------------------------------------------
(* The slot pool: lemmas.                                                    *)

\* What removing an element does to a sequence.
LEMMA RemoveAtProperties ==
  ASSUME NEW S, NEW q \in Seq(S), NEW k \in 1..Len(q)
  PROVE  /\ RemoveAt(q, k) \in Seq(S)
         /\ Len(RemoveAt(q, k)) = Len(q) - 1
         /\ \A i \in 1..Len(q) - 1 :
              RemoveAt(q, k)[i] = IF i < k THEN q[i] ELSE q[i + 1]
<1> DEFINE front == SubSeq(q, 1, k - 1)
           back  == SubSeq(q, k + 1, Len(q))
<1>0. Len(q) \in Nat /\ k \in Nat /\ 1 <= k /\ k <= Len(q)
  BY LenProperties
<1>1. /\ front \in Seq(S)
      /\ Len(front) = k - 1
      /\ \A i \in 1..k - 1 : front[i] = q[i]
  <2>1. \A i \in 1..k - 1 : q[i] \in S
    BY <1>0, ElementOfSeq
  <2>2. QED
    BY <1>0, <2>1, SubSeqProperties
<1>2. /\ back \in Seq(S)
      /\ Len(back) = Len(q) - k
      /\ \A i \in 1..Len(q) - k : back[i] = q[k + i]
  <2>1. \A i \in k + 1..Len(q) : q[i] \in S
    BY <1>0, ElementOfSeq
  <2>2. /\ back \in Seq(S)
        /\ Len(back) = IF k + 1 <= Len(q) THEN Len(q) - (k + 1) + 1 ELSE 0
        /\ \A i \in 1..Len(q) - (k + 1) + 1 : back[i] = q[k + 1 + i - 1]
    BY <1>0, <2>1, SubSeqProperties
  <2>3. QED
    BY <1>0, <2>2
<1>3. RemoveAt(q, k) = front \o back
  BY DEF RemoveAt
<1>4. /\ front \o back \in Seq(S)
      /\ Len(front \o back) = Len(front) + Len(back)
      /\ \A i \in 1..Len(front) + Len(back) :
           (front \o back)[i] = IF i <= Len(front) THEN front[i]
                                                   ELSE back[i - Len(front)]
  BY <1>1, <1>2, ConcatProperties
<1>. HIDE DEF front, back
<1>5. ASSUME NEW i \in 1..Len(q) - 1
      PROVE  (front \o back)[i] = IF i < k THEN q[i] ELSE q[i + 1]
  <2>1. CASE i < k
    BY <1>0, <1>1, <1>2, <1>4, <2>1
  <2>2. CASE ~(i < k)
    <3>1. (front \o back)[i] = back[i - (k - 1)]
      BY <1>0, <1>1, <1>2, <1>4, <2>2
    <3>2. i - (k - 1) \in 1..Len(q) - k
      BY <1>0, <2>2
    <3>3. back[i - (k - 1)] = q[k + (i - (k - 1))]
      BY <1>2, <3>2
    <3>4. k + (i - (k - 1)) = i + 1
      BY <1>0
    <3>5. QED
      BY <2>2, <3>1, <3>3, <3>4
  <2>3. QED
    BY <2>1, <2>2
<1>6. QED
  BY <1>0, <1>1, <1>2, <1>3, <1>4, <1>5

--------------------------------------------------------------------------------
(* The slot pool: types.                                                     *)

\* What PickFiltered and Picks return lies in the slots they may choose from.
LEMMA PicksType ==
  ASSUME NEW allowed \in SUBSET Slots, NEW want, NEW p \in Picks(allowed, want)
  PROVE  p[1] \in allowed /\ p[2] \in BOOLEAN
<1> DEFINE withKv == PickFiltered(allowed \cap SlotsOf(KvBackends))
<1>1. \A a \in SUBSET Slots : PickFiltered(a) \subseteq a
  BY DEF PickFiltered, Eligible
<1>2. PickFiltered(allowed) \subseteq allowed /\ withKv \subseteq allowed
  BY <1>1
<1>3. p \in withKv \X {TRUE} \/ p \in PickFiltered(allowed) \X {FALSE}
  BY DEF Picks
<1>. HIDE DEF withKv
<1>4. QED
  BY <1>2, <1>3

\* A cooldown is never longer than MAX_BACKEND_COOLDOWN.
LEMMA CooldownType ==
  ASSUME NEW n \in 1..5
  PROVE  Cooldown(n) \in 0..MaxCooldown
<1>1. Doubling[n] \in Nat
  BY DEF Doubling
<1>2. BaseCooldown * Doubling[n] \in Nat
  BY <1>1, CooldownAssumption
<1>3. QED
  BY <1>2, CooldownAssumption DEF Cooldown, Capped

\* A report leaves cooldowns and streaks in their bounds,
LEMMA ReportFailureType ==
  ASSUME TypeOK, NEW b \in Backends, ReportFailure(b)
  PROVE  /\ down' \in [Backends -> 0..MaxCooldown]
         /\ streak' \in [Backends -> 0..StreakCap]
<1> DEFINE n == Capped(streak[b] + 1, StreakCap)
<1>1. n \in 1..5 /\ n \in 0..StreakCap
  BY CooldownAssumption DEF TypeOK, Capped
<1>2. Cooldown(n) \in 0..MaxCooldown
  BY <1>1, CooldownType
<1>3. QED
  BY <1>1, <1>2 DEF ReportFailure, TypeOK

\* so does the end of a cooldown;
LEMMA MarkBackendUpType ==
  ASSUME TypeOK, NEW b \in Backends, MarkBackendUp(b)
  PROVE  /\ down' \in [Backends -> 0..MaxCooldown]
         /\ streak' \in [Backends -> 0..StreakCap]
BY CooldownAssumption DEF TypeOK, MarkBackendUp

\* a use leaves the ranks in theirs.
LEMMA MarkUsedType ==
  ASSUME TypeOK, NEW s \in Slots, MarkUsed(s)
  PROVE  last_used' \in [Slots -> 0..NSlots]
<1>1. /\ NSlots \in 0..NSlots
      /\ \A t \in Slots : last_used[t] \in 0..NSlots
  BY PoolAssumption DEF TypeOK
<1>2. ASSUME NEW t \in Slots, last_used[t] > last_used[s]
      PROVE  last_used[t] - 1 \in 0..NSlots
  BY <1>1, <1>2, PoolAssumption
<1>3. QED
  BY <1>1, <1>2 DEF MarkUsed

\* The variables that dropping a permit changes keep their types.
LEMMA DropPermitType ==
  ASSUME TypeOK, NEW r \in Requests, slot[r] \in Slots, DropPermit(r)
  PROVE  /\ holder' \in [Slots -> Requests \cup {Nobody}]
         /\ queue' \in [Slots -> Seq(Requests)]
         /\ stage' \in [Requests -> Stages]
         /\ slot' \in [Requests -> Slots \cup {NoSlot}]
         /\ restore' \in [Requests -> BOOLEAN]
<1>1. slot' \in [Requests -> Slots \cup {NoSlot}] /\ restore' \in [Requests -> BOOLEAN]
  BY DEF DropPermit, Forget, TypeOK
<1>2. CASE queue[slot[r]] = <<>>
  BY <1>1, <1>2 DEF DropPermit, TypeOK, Stages
<1>3. CASE queue[slot[r]] # <<>>
  <2>1. Head(queue[slot[r]]) \in Requests /\ Tail(queue[slot[r]]) \in Seq(Requests)
    BY <1>3, HeadTailProperties DEF TypeOK
  <2>2. Granted(Head(queue[slot[r]])) \in Stages
    BY DEF Granted, Stages
  <2>3. /\ holder' = [holder EXCEPT ![slot[r]] = Head(queue[slot[r]])]
        /\ queue' = [queue EXCEPT ![slot[r]] = Tail(@)]
        /\ stage' = [stage EXCEPT ![r] = "out",
                       ![Head(queue[slot[r]])] = Granted(Head(queue[slot[r]]))]
    BY <1>3 DEF DropPermit
  <2>4. stage' \in [Requests -> Stages]
    BY <2>1, <2>2, <2>3 DEF TypeOK, Stages
  <2>5. holder' \in [Slots -> Requests \cup {Nobody}] /\ queue' \in [Slots -> Seq(Requests)]
    BY <2>1, <2>3 DEF TypeOK
  <2>6. QED
    BY <1>1, <2>4, <2>5
<1>4. QED
  BY <1>2, <1>3

\* A waiter that leaves its queue.
LEMMA LeaveQueueType ==
  ASSUME TypeOK, NEW r \in Requests, slot[r] \in Slots, LeaveQueue(r)
  PROVE  /\ holder' \in [Slots -> Requests \cup {Nobody}]
         /\ queue' \in [Slots -> Seq(Requests)]
         /\ stage' \in [Requests -> Stages]
         /\ slot' \in [Requests -> Slots \cup {NoSlot}]
         /\ restore' \in [Requests -> BOOLEAN]
<1>1. PICK i \in 1..Len(queue[slot[r]]) :
         queue' = [queue EXCEPT ![slot[r]] = RemoveAt(@, i)]
  BY DEF LeaveQueue
<1>2. RemoveAt(queue[slot[r]], i) \in Seq(Requests)
  BY <1>1, RemoveAtProperties DEF TypeOK
<1>3. QED
  BY <1>1, <1>2 DEF LeaveQueue, Forget, TypeOK, Stages

\* A request inside the pool has a slot.
LEMMA InPoolHasSlot ==
  ASSUME TypeOK, SlotKnown, NEW r \in Requests, stage[r] # "out"
  PROVE  slot[r] \in Slots /\ BackendOf[slot[r]] \in Backends
BY PoolAssumption DEF TypeOK, SlotKnown

\* The inductive invariant: types, and how stages, slots, permits and queues
\* belong together.
PermitInv == SlotKnown /\ PermitOwned /\ WaitersQueued /\ NoIdleWait

PoolInv == TypeOK /\ PermitInv

\* At the start every permit is free.
LEMMA PoolInvInit == PoolInit => PoolInv
<1> SUFFICES ASSUME PoolInit PROVE PoolInv
  OBVIOUS
<1>1. TypeOK
  BY CooldownAssumption, PoolAssumption, EmptySeq
     DEF PoolInit, TypeOK, Stages, NoSlot, Slots
<1>2. SlotKnown /\ NoIdleWait
  BY DEF PoolInit, SlotKnown, NoIdleWait
<1>3. PermitOwned
  BY PoolAssumption DEF PoolInit, PermitOwned, InUse
<1>4. WaitersQueued
  BY DEF PoolInit, WaitersQueued
<1>5. QED
  BY <1>1, <1>2, <1>3, <1>4 DEF PoolInv, PermitInv

\* Every step keeps the types.
LEMMA TypeOKNext ==
  ASSUME TypeOK, SlotKnown, [PoolNext]_poolVars
  PROVE  TypeOK'
<1>1. ASSUME NEW r \in Requests, NEW x \in Backends \cup {Nobody}, NEW want \in BOOLEAN,
             Acquire(r, SlotsOf(Backends \ {x}), want)
      PROVE  TypeOK'
  <2>1. PICK p \in Picks(SlotsOf(Backends \ {x}), want) :
          /\ slot' = [slot EXCEPT ![r] = p[1]]
          /\ restore' = [restore EXCEPT ![r] = p[2]]
    BY <1>1 DEF Acquire
  <2>2. p[1] \in Slots /\ p[2] \in BOOLEAN
    BY <2>1, PicksType DEF SlotsOf
  <2>3. QED
    BY <1>1, <2>1, <2>2 DEF Acquire, TypeOK, Stages
<1>2. ASSUME NEW r \in Requests, Enter(r)
      PROVE  TypeOK'
  <2>1. slot[r] \in Slots
    BY <1>2, InPoolHasSlot DEF Enter
  <2>2. Granted(r) \in {"restoring", "held"}
    BY DEF Granted
  <2>3. Append(queue[slot[r]], r) \in Seq(Requests)
    BY <2>1, AppendProperties DEF TypeOK
  <2>4. CASE Idle(slot[r])
    <3>1. /\ holder' = [holder EXCEPT ![slot[r]] = r]
          /\ stage' = [stage EXCEPT ![r] = Granted(r)]
          /\ UNCHANGED <<queue, last_used, down, streak, probing, slot, restore>>
      BY <1>2, <2>4 DEF Enter
    <3>2. stage' \in [Requests -> Stages]
      BY <2>2, <3>1 DEF TypeOK, Stages
    <3>3. QED
      BY <2>1, <3>1, <3>2 DEF TypeOK
  <2>5. CASE ~Idle(slot[r])
    <3>1. /\ queue' = [queue EXCEPT ![slot[r]] = Append(@, r)]
          /\ stage' = [stage EXCEPT ![r] = "waiting"]
          /\ UNCHANGED <<holder, last_used, down, streak, probing, slot, restore>>
      BY <1>2, <2>5 DEF Enter
    <3>2. stage' \in [Requests -> Stages]
      BY <3>1 DEF TypeOK, Stages
    <3>3. queue' \in [Slots -> Seq(Requests)]
      BY <2>1, <2>3, <3>1 DEF TypeOK
    <3>4. QED
      BY <3>1, <3>2, <3>3 DEF TypeOK
  <2>6. QED
    BY <2>4, <2>5
<1>3. ASSUME NEW r \in Requests, RestoreDone(r)
      PROVE  TypeOK'
  BY <1>3 DEF RestoreDone, TypeOK, Stages
<1>4. ASSUME NEW r \in Requests, Timeout(r)
      PROVE  TypeOK'
  <2>1. slot[r] \in Slots
    BY <1>4, InPoolHasSlot DEF Timeout
  <2>2. QED
    BY <1>4, <2>1, LeaveQueueType DEF Timeout, TypeOK
<1>5. ASSUME NEW r \in Requests, Abandon(r)
      PROVE  TypeOK'
  <2>1. slot[r] \in Slots
    BY <1>5, InPoolHasSlot DEF Abandon
  <2>2. UNCHANGED <<last_used, down, streak, probing>>
    BY <1>5 DEF Abandon
  <2>3. CASE DropPermit(r)
    BY <2>1, <2>2, <2>3, DropPermitType DEF TypeOK
  <2>4. CASE LeaveQueue(r)
    BY <2>1, <2>2, <2>4, LeaveQueueType DEF TypeOK
  <2>5. QED
    BY <1>5, <2>3, <2>4 DEF Abandon
<1>6. ASSUME NEW r \in Requests, Answered(r)
      PROVE  TypeOK'
  <2>1. BackendOf[slot[r]] \in Backends
    BY <1>6, InPoolHasSlot DEF Answered
  <2>2. QED
    BY <1>6, <2>1, MarkBackendUpType DEF Answered, TypeOK
<1>7. ASSUME NEW r \in Requests, NEW verdict \in Verdicts, NEW used \in BOOLEAN,
             GiveBack(r, verdict, used)
      PROVE  TypeOK'
  <2>1. slot[r] \in Slots /\ BackendOf[slot[r]] \in Backends
    BY <1>7, InPoolHasSlot DEF GiveBack
  <2>2. /\ down' \in [Backends -> 0..MaxCooldown]
        /\ streak' \in [Backends -> 0..StreakCap]
    <3>1. Report(BackendOf[slot[r]], verdict)
      BY <1>7 DEF GiveBack
    <3>2. QED
      BY <2>1, <3>1, ReportFailureType, MarkBackendUpType DEF Report, TypeOK
  <2>3. last_used' \in [Slots -> 0..NSlots]
    BY <1>7, <2>1, MarkUsedType DEF GiveBack, Touch, TypeOK
  <2>4. DropPermit(r) /\ probing' = probing
    BY <1>7 DEF GiveBack
  <2>5. QED
    BY <2>1, <2>2, <2>3, <2>4, DropPermitType DEF TypeOK
<1>8. ASSUME NEW b \in Backends, ProbeStart(b)
      PROVE  TypeOK'
  BY <1>8 DEF ProbeStart, TypeOK
<1>9. ASSUME ProbeAnswer
      PROVE  TypeOK'
  <2>1. probing \in Backends
    BY <1>9 DEF ProbeAnswer, TypeOK
  <2>2. /\ down' \in [Backends -> 0..MaxCooldown]
        /\ streak' \in [Backends -> 0..StreakCap]
    BY <1>9, <2>1, MarkBackendUpType DEF ProbeAnswer, TypeOK
  <2>3. QED
    BY <1>9, <2>2 DEF ProbeAnswer, TypeOK
<1>10. ASSUME Tick
       PROVE  TypeOK'
  <2>1. \A b \in Backends : (IF Up(b) THEN 0 ELSE down[b] - 1) \in 0..MaxCooldown
    BY CooldownAssumption DEF TypeOK, Up
  <2>2. QED
    BY <1>10, <2>1 DEF Tick, TypeOK
<1>11. ASSUME UNCHANGED poolVars
       PROVE  TypeOK'
  BY <1>11 DEF poolVars, TypeOK
<1>12. QED
  BY <1>1, <1>2, <1>3, <1>4, <1>5, <1>6, <1>7, <1>8, <1>9, <1>10, <1>11
     DEF PoolNext, RequestNext

--------------------------------------------------------------------------------
(* Permits and queues.                                                       *)

\* The first waiter of a slot waits for that slot and stands nowhere else.
LEMMA HeadWaits ==
  ASSUME TypeOK, WaitersQueued, NEW s \in Slots, queue[s] # <<>>
  PROVE  /\ Head(queue[s]) \in Requests
         /\ stage[Head(queue[s])] = "waiting"
         /\ slot[Head(queue[s])] = s
         /\ Tail(queue[s]) \in Seq(Requests)
         /\ Len(Tail(queue[s])) = Len(queue[s]) - 1
         /\ \A i \in 1..Len(Tail(queue[s])) : /\ i + 1 \in 1..Len(queue[s])
                                            /\ Tail(queue[s])[i] = queue[s][i + 1]
                                            /\ Tail(queue[s])[i] # Head(queue[s])
<1>1. queue[s] \in Seq(Requests)
  BY DEF TypeOK
<1>2. Len(queue[s]) \in Nat /\ Len(queue[s]) # 0 /\ 1 \in 1..Len(queue[s])
  BY <1>1, EmptySeq, LenProperties
<1>3. Head(queue[s]) = queue[s][1]
  BY <1>1
<1>4. /\ Head(queue[s]) \in Requests
      /\ Tail(queue[s]) \in Seq(Requests)
      /\ Len(Tail(queue[s])) = Len(queue[s]) - 1
      /\ \A i \in 1..Len(Tail(queue[s])) : Tail(queue[s])[i] = queue[s][i + 1]
  BY <1>1, HeadTailProperties
<1>5. ASSUME NEW i \in 1..Len(Tail(queue[s]))
      PROVE  /\ i + 1 \in 1..Len(queue[s])
             /\ queue[s][i + 1] # queue[s][1]
  <2>1. i + 1 \in 1..Len(queue[s]) /\ i + 1 # 1
    BY <1>2, <1>4
  <2>2. QED
    BY <1>2, <2>1 DEF WaitersQueued
<1>6. QED
  BY <1>2, <1>3, <1>4, <1>5 DEF WaitersQueued

\* Dropping a permit keeps permits, queues and stages together.
LEMMA DropPermitInv ==
  ASSUME PoolInv, NEW r \in Requests, InUse(r), DropPermit(r)
  PROVE  PermitInv'
<1> DEFINE s == slot[r]
<1>0. /\ TypeOK /\ SlotKnown /\ PermitOwned /\ WaitersQueued /\ NoIdleWait
      /\ s \in Slots /\ s # NoSlot /\ holder[s] = r /\ r # Nobody
  <2>1. TypeOK /\ SlotKnown /\ PermitOwned /\ WaitersQueued /\ NoIdleWait
    BY DEF PoolInv, PermitInv
  <2>2. s \in Slots
    BY <2>1, InPoolHasSlot DEF InUse
  <2>3. QED
    BY <2>1, <2>2, PoolAssumption DEF PermitOwned, Slots, NoSlot
<1>1. /\ slot' = [slot EXCEPT ![r] = NoSlot]
      /\ \A q \in Requests \ {r} : slot'[q] = slot[q]
      /\ slot'[r] = NoSlot
  BY <1>0 DEF DropPermit, Forget, TypeOK
<1>. HIDE DEF s
<1>2. CASE queue[s] = <<>>
  <2>1. /\ holder' = [holder EXCEPT ![s] = Nobody]
        /\ stage' = [stage EXCEPT ![r] = "out"]
        /\ queue' = queue
    BY <1>2 DEF DropPermit, s
  <2>2. SlotKnown'
    BY <1>0, <1>1, <2>1 DEF SlotKnown, TypeOK
  <2>3. PermitOwned'
    BY <1>0, <1>1, <2>1, PoolAssumption DEF PermitOwned, InUse, TypeOK, s
  <2>4. WaitersQueued'
    <3>1. \A q \in Requests : stage'[q] = "waiting" <=> stage[q] = "waiting"
      BY <1>0, <2>1 DEF TypeOK, InUse
    <3>2. \A q \in Requests : stage[q] = "waiting" => slot'[q] = slot[q]
      BY <1>1 DEF InUse
    <3>3. \A t \in Slots : \A i \in 1..Len(queue[t]) : queue[t][i] \in Requests
      BY <1>0, ElementOfSeq DEF TypeOK
    <3>4. QED
      BY <1>0, <2>1, <3>1, <3>2, <3>3 DEF WaitersQueued
  <2>5. NoIdleWait'
    BY <1>0, <1>2, <2>1 DEF NoIdleWait, Idle, TypeOK
  <2>6. QED
    BY <2>2, <2>3, <2>4, <2>5 DEF PermitInv
<1>3. CASE queue[s] # <<>>
  <2> DEFINE h == Head(queue[s])
  <2>1. /\ holder' = [holder EXCEPT ![s] = h]
        /\ stage' = [stage EXCEPT ![r] = "out", ![h] = Granted(h)]
        /\ queue' = [queue EXCEPT ![s] = Tail(@)]
    BY <1>3 DEF DropPermit, s
  <2>2. /\ h \in Requests /\ stage[h] = "waiting" /\ slot[h] = s
        /\ Tail(queue[s]) \in Seq(Requests)
        /\ Len(Tail(queue[s])) = Len(queue[s]) - 1
        /\ \A i \in 1..Len(Tail(queue[s])) : /\ i + 1 \in 1..Len(queue[s])
                                           /\ Tail(queue[s])[i] = queue[s][i + 1]
                                           /\ Tail(queue[s])[i] # h
    BY <1>0, <1>3, HeadWaits
  <2>3. h # r /\ h # Nobody /\ Granted(h) \in {"restoring", "held"}
    BY <2>2, PoolAssumption DEF InUse, Granted
  <2>. HIDE DEF h
  <2>4. /\ \A q \in Requests \ {r, h} : stage'[q] = stage[q]
        /\ stage'[r] = "out" /\ stage'[h] \in {"restoring", "held"}
        /\ slot'[h] = s
    BY <1>0, <1>1, <2>1, <2>2, <2>3 DEF TypeOK
  <2>5. SlotKnown'
    BY <1>0, <1>1, <2>2, <2>3, <2>4 DEF SlotKnown
  <2>6. PermitOwned'
    <3> SUFFICES ASSUME NEW t \in Slots, NEW q \in Requests
                 PROVE  (holder[t] = q)' <=> InUse(q)' /\ slot'[q] = t
      BY DEF PermitOwned
    <3>1. holder'[t] = IF t = s THEN h ELSE holder[t]
      BY <1>0, <2>1 DEF TypeOK
    <3>2. CASE q = r
      BY <1>0, <1>1, <2>3, <2>4, <3>1, <3>2 DEF InUse, PermitOwned, s
    <3>3. CASE q = h
      BY <1>0, <2>2, <2>4, <3>1, <3>3 DEF InUse, PermitOwned
    <3>4. CASE q # r /\ q # h
      BY <1>0, <1>1, <2>4, <3>1, <3>4 DEF InUse, PermitOwned
    <3>5. QED
      BY <3>2, <3>3, <3>4
  <2>7. WaitersQueued'
    <3>1. /\ queue'[s] = Tail(queue[s])
          /\ \A t \in Slots \ {s} : queue'[t] = queue[t]
      BY <1>0, <2>1 DEF TypeOK
    <3>2. /\ \A t \in Slots : \A i \in 1..Len(queue[t]) : queue[t][i] \in Requests
          /\ \A t \in Slots : Len(queue[t]) \in Nat
      BY <1>0, ElementOfSeq, LenProperties DEF TypeOK
    <3>3. \A t \in Slots : \A i \in 1..Len(queue'[t]) :
            stage'[queue'[t][i]] = "waiting" /\ slot'[queue'[t][i]] = t
      <4> SUFFICES ASSUME NEW t \in Slots, NEW i \in 1..Len(queue'[t])
                   PROVE  stage'[queue'[t][i]] = "waiting" /\ slot'[queue'[t][i]] = t
        OBVIOUS
      <4>1. \E j \in 1..Len(queue[t]) : queue'[t][i] = queue[t][j] /\ queue[t][j] # h
        <5>1. CASE t = s
          <6>1. i \in 1..Len(Tail(queue[s])) /\ queue'[t][i] = Tail(queue[s])[i]
            BY <3>1, <5>1
          <6>2. /\ i + 1 \in 1..Len(queue[t])
                /\ queue'[t][i] = queue[t][i + 1] /\ queue[t][i + 1] # h
            BY <2>2, <5>1, <6>1
          <6>3. QED
            BY <6>2
        <5>2. CASE t # s
          BY <1>0, <2>2, <3>1, <5>2 DEF WaitersQueued
        <5>3. QED
          BY <5>1, <5>2
      <4>2. PICK j \in 1..Len(queue[t]) : queue'[t][i] = queue[t][j] /\ queue[t][j] # h
        BY <4>1
      <4>3. /\ queue[t][j] \in Requests
            /\ stage[queue[t][j]] = "waiting" /\ slot[queue[t][j]] = t
        BY <1>0, <3>2 DEF WaitersQueued
      <4>4. queue[t][j] # r
        BY <4>3 DEF InUse
      <4>5. QED
        BY <1>1, <2>4, <4>2, <4>3, <4>4
    <3>4. \A t \in Slots : \A i, j \in 1..Len(queue'[t]) :
            queue'[t][i] = queue'[t][j] => i = j
      <4> SUFFICES ASSUME NEW t \in Slots, NEW i \in 1..Len(queue'[t]),
                          NEW j \in 1..Len(queue'[t]), queue'[t][i] = queue'[t][j]
                   PROVE  i = j
        OBVIOUS
      <4>1. CASE t = s
        <5>1. i + 1 \in 1..Len(queue[s]) /\ j + 1 \in 1..Len(queue[s])
          BY <2>2, <3>1, <4>1
        <5>2. queue[s][i + 1] = queue[s][j + 1]
          BY <2>2, <3>1, <4>1
        <5>3. i + 1 = j + 1
          BY <1>0, <5>1, <5>2 DEF WaitersQueued
        <5>4. QED
          BY <5>3
      <4>2. CASE t # s
        BY <1>0, <3>1, <4>2 DEF WaitersQueued
      <4>3. QED
        BY <4>1, <4>2
    <3>5. \A q \in Requests : stage'[q] = "waiting" =>
            \E i \in 1..Len(queue'[slot'[q]]) : queue'[slot'[q]][i] = q
      <4> SUFFICES ASSUME NEW q \in Requests, stage'[q] = "waiting"
                   PROVE  \E i \in 1..Len(queue'[slot'[q]]) : queue'[slot'[q]][i] = q
        OBVIOUS
      <4>1. q # r /\ q # h
        BY <2>4
      <4>2. stage[q] = "waiting" /\ slot'[q] = slot[q] /\ slot[q] \in Slots
        BY <1>0, <1>1, <2>4, <4>1, InPoolHasSlot
      <4>3. PICK i \in 1..Len(queue[slot[q]]) : queue[slot[q]][i] = q
        BY <1>0, <4>2 DEF WaitersQueued
      <4>4. CASE slot[q] = s
        <5>1. i # 1
          <6>1. h = queue[s][1]
            BY <1>0, <1>3 DEF h, TypeOK
          <6>2. QED
            BY <4>1, <4>3, <4>4, <6>1
        <5>2. i - 1 \in 1..Len(Tail(queue[s])) /\ i - 1 + 1 = i
          BY <1>0, <2>2, <3>2, <4>3, <4>4, <5>1
        <5>3. Tail(queue[s])[i - 1] = q
          BY <2>2, <4>3, <4>4, <5>2
        <5>4. QED
          BY <3>1, <4>2, <4>4, <5>2, <5>3
      <4>5. CASE slot[q] # s
        BY <3>1, <4>2, <4>3, <4>5
      <4>6. QED
        BY <4>4, <4>5
    <3>6. QED
      BY <3>3, <3>4, <3>5 DEF WaitersQueued
  <2>8. NoIdleWait'
    BY <1>0, <2>1, <2>3 DEF NoIdleWait, Idle, TypeOK
  <2>9. QED
    BY <2>5, <2>6, <2>7, <2>8 DEF PermitInv
<1>4. QED
  BY <1>2, <1>3

\* Leaving a queue keeps permits, queues and stages together.
LEMMA LeaveQueueInv ==
  ASSUME PoolInv, NEW r \in Requests, stage[r] = "waiting", LeaveQueue(r)
  PROVE  PermitInv'
<1> DEFINE s == slot[r]
<1>0. /\ TypeOK /\ SlotKnown /\ PermitOwned /\ WaitersQueued /\ NoIdleWait
      /\ s \in Slots /\ r # Nobody
  <2>1. TypeOK /\ SlotKnown /\ PermitOwned /\ WaitersQueued /\ NoIdleWait
    BY DEF PoolInv, PermitInv
  <2>2. QED
    BY <2>1, InPoolHasSlot, PoolAssumption
<1>. HIDE DEF s
<1>1. PICK k \in 1..Len(queue[s]) :
        queue[s][k] = r /\ queue' = [queue EXCEPT ![s] = RemoveAt(@, k)]
  BY DEF LeaveQueue, s
<1>2. /\ holder' = holder
      /\ stage' = [stage EXCEPT ![r] = "out"]
      /\ slot' = [slot EXCEPT ![r] = NoSlot]
  BY DEF LeaveQueue, Forget
<1>3. /\ \A q \in Requests \ {r} : stage'[q] = stage[q] /\ slot'[q] = slot[q]
      /\ stage'[r] = "out" /\ slot'[r] = NoSlot
  BY <1>0, <1>2 DEF TypeOK
<1>4. /\ queue'[s] = RemoveAt(queue[s], k)
      /\ \A t \in Slots \ {s} : queue'[t] = queue[t]
  BY <1>0, <1>1 DEF TypeOK
<1>5. /\ queue[s] \in Seq(Requests)
      /\ \A t \in Slots : Len(queue[t]) \in Nat
      /\ \A t \in Slots : \A i \in 1..Len(queue[t]) : queue[t][i] \in Requests
  BY <1>0, ElementOfSeq, LenProperties DEF TypeOK
<1>6. /\ Len(RemoveAt(queue[s], k)) = Len(queue[s]) - 1
      /\ \A i \in 1..Len(queue[s]) - 1 :
           RemoveAt(queue[s], k)[i] = IF i < k THEN queue[s][i] ELSE queue[s][i + 1]
  BY <1>1, <1>5, RemoveAtProperties
<1> DEFINE old(t, i) == IF t = s /\ i >= k THEN i + 1 ELSE i
<1>7. ASSUME NEW t \in Slots, NEW i \in 1..Len(queue'[t])
      PROVE  /\ old(t, i) \in 1..Len(queue[t])
             /\ queue'[t][i] = queue[t][old(t, i)]
             /\ t = s => old(t, i) # k
  <2>1. CASE t = s
    <3>1. i \in 1..Len(queue[s]) - 1
      BY <1>4, <1>6, <2>1
    <3>2. i \in Int /\ k \in Int
      BY <1>1
    <3>3. queue'[t][i] = IF i < k THEN queue[s][i] ELSE queue[s][i + 1]
      BY <1>4, <1>6, <2>1, <3>1
    <3>4. QED
      BY <1>0, <1>1, <1>5, <2>1, <3>1, <3>2, <3>3
  <2>2. CASE t # s
    BY <1>4, <2>2
  <2>3. QED
    BY <2>1, <2>2
<1>8. ASSUME NEW t \in Slots, NEW j \in 1..Len(queue[t]), t = s => j # k
      PROVE  \E i \in 1..Len(queue'[t]) : old(t, i) = j
  <2>1. CASE t = s /\ j > k
    <3>1. j - 1 \in 1..Len(queue'[t]) /\ j - 1 >= k /\ j - 1 + 1 = j
      BY <1>1, <1>4, <1>5, <1>6, <2>1
    <3>2. QED
      BY <2>1, <3>1
  <2>2. CASE t = s /\ j < k
    <3>1. j \in 1..Len(queue'[t]) /\ ~(j >= k)
      BY <1>1, <1>4, <1>5, <1>6, <2>2
    <3>2. QED
      BY <3>1
  <2>3. CASE t # s
    BY <1>4, <2>3
  <2>4. QED
    BY <1>1, <1>8, <2>1, <2>2, <2>3
<1>9. SlotKnown'
  BY <1>0, <1>3 DEF SlotKnown
<1>10. PermitOwned'
  <2>1. \A q \in Requests : InUse(q)' <=> InUse(q)
    BY <1>3 DEF InUse
  <2>2. \A q \in Requests : InUse(q) => slot'[q] = slot[q]
    BY <1>3 DEF InUse
  <2>3. QED
    BY <1>0, <1>2, <2>1, <2>2 DEF PermitOwned
<1>11. WaitersQueued'
  <2>1. \A t \in Slots : \A i \in 1..Len(queue'[t]) :
          stage'[queue'[t][i]] = "waiting" /\ slot'[queue'[t][i]] = t
    <3> SUFFICES ASSUME NEW t \in Slots, NEW i \in 1..Len(queue'[t])
                 PROVE  stage'[queue'[t][i]] = "waiting" /\ slot'[queue'[t][i]] = t
      OBVIOUS
    <3>1. PICK j \in 1..Len(queue[t]) : queue'[t][i] = queue[t][j] /\ (t = s => j # k)
      BY <1>7
    <3>2. /\ queue[t][j] \in Requests
          /\ stage[queue[t][j]] = "waiting" /\ slot[queue[t][j]] = t
      BY <1>0, <1>5 DEF WaitersQueued
    <3>3. queue[t][j] # r
      <4>1. t # s => queue[t][j] # r
        BY <3>2 DEF s
      <4>2. t = s => queue[t][j] # r
        BY <1>0, <1>1, <3>1 DEF WaitersQueued
      <4>3. QED
        BY <4>1, <4>2
    <3>4. QED
      BY <1>3, <3>1, <3>2, <3>3
  <2>2. \A t \in Slots : \A i, j \in 1..Len(queue'[t]) :
          queue'[t][i] = queue'[t][j] => i = j
    <3> SUFFICES ASSUME NEW t \in Slots, NEW i \in 1..Len(queue'[t]),
                        NEW j \in 1..Len(queue'[t]), queue'[t][i] = queue'[t][j]
                 PROVE  i = j
      OBVIOUS
    <3>1. old(t, i) = old(t, j)
      <4>1. /\ old(t, i) \in 1..Len(queue[t]) /\ queue'[t][i] = queue[t][old(t, i)]
            /\ old(t, j) \in 1..Len(queue[t]) /\ queue'[t][j] = queue[t][old(t, j)]
        BY <1>7
      <4>2. \A m, n \in 1..Len(queue[t]) : queue[t][m] = queue[t][n] => m = n
        BY <1>0 DEF WaitersQueued
      <4>. HIDE DEF old
      <4>3. QED
        BY <4>1, <4>2
    <3>2. i \in Int /\ j \in Int /\ k \in Int
      BY <1>1
    <3>3. QED
      BY <3>1, <3>2
  <2>3. \A q \in Requests : stage'[q] = "waiting" =>
          \E i \in 1..Len(queue'[slot'[q]]) : queue'[slot'[q]][i] = q
    <3> SUFFICES ASSUME NEW q \in Requests, stage'[q] = "waiting"
                 PROVE  \E i \in 1..Len(queue'[slot'[q]]) : queue'[slot'[q]][i] = q
      OBVIOUS
    <3>1. q # r /\ stage[q] = "waiting" /\ slot'[q] = slot[q] /\ slot[q] \in Slots
      BY <1>0, <1>3, InPoolHasSlot
    <3>2. PICK j \in 1..Len(queue[slot[q]]) : queue[slot[q]][j] = q
      BY <1>0, <3>1 DEF WaitersQueued
    <3>3. slot[q] = s => j # k
      BY <1>1, <3>1, <3>2
    <3>4. PICK i \in 1..Len(queue'[slot[q]]) : old(slot[q], i) = j
      BY <1>8, <3>1, <3>2, <3>3
    <3>5. queue'[slot[q]][i] = q
      BY <1>7, <3>1, <3>2, <3>4
    <3>6. QED
      BY <3>1, <3>5
  <2>4. QED
    BY <2>1, <2>2, <2>3 DEF WaitersQueued
<1>12. NoIdleWait'
  <2> SUFFICES ASSUME NEW t \in Slots, holder'[t] = Nobody
               PROVE  queue'[t] = <<>>
    BY DEF NoIdleWait, Idle
  <2>1. queue[t] = <<>>
    BY <1>0, <1>2 DEF NoIdleWait, Idle
  <2>2. t # s
    <3>1. Len(queue[s]) >= 1
      BY <1>1, <1>5
    <3>2. Len(<<>>) = 0
      OBVIOUS
    <3>3. QED
      BY <2>1, <3>1, <3>2
  <2>3. QED
    BY <1>4, <2>1, <2>2
<1>13. QED
  BY <1>9, <1>10, <1>11, <1>12 DEF PermitInv

\* A request that only picks a slot disturbs no permit and no queue.
LEMMA AcquireInv ==
  ASSUME PoolInv, NEW r \in Requests, NEW x, NEW want,
         Acquire(r, SlotsOf(Backends \ {x}), want)
  PROVE  PermitInv'
<1>0. TypeOK /\ SlotKnown /\ PermitOwned /\ WaitersQueued /\ NoIdleWait
  BY DEF PoolInv, PermitInv
<1>1. PICK p \in Picks(SlotsOf(Backends \ {x}), want) : slot' = [slot EXCEPT ![r] = p[1]]
  BY DEF Acquire
<1>2. p[1] \in Slots /\ p[1] # NoSlot
  BY <1>1, PicksType DEF SlotsOf, Slots, NoSlot
<1>3. /\ stage[r] = "out" /\ stage'[r] = "picked" /\ slot'[r] = p[1]
      /\ \A q \in Requests \ {r} : stage'[q] = stage[q] /\ slot'[q] = slot[q]
      /\ UNCHANGED <<holder, queue>>
  BY <1>0, <1>1 DEF Acquire, TypeOK
<1>4. SlotKnown'
  BY <1>0, <1>2, <1>3 DEF SlotKnown
<1>5. PermitOwned'
  BY <1>0, <1>3 DEF PermitOwned, InUse
<1>6. WaitersQueued'
  <2>1. \A t \in Slots : \A i \in 1..Len(queue[t]) : queue[t][i] \in Requests \ {r}
    BY <1>0, <1>3, ElementOfSeq DEF WaitersQueued, TypeOK
  <2>2. QED
    BY <1>0, <1>3, <2>1 DEF WaitersQueued
<1>7. NoIdleWait'
  BY <1>0, <1>3 DEF NoIdleWait, Idle
<1>8. QED
  BY <1>4, <1>5, <1>6, <1>7 DEF PermitInv

\* Taking a free permit, or queueing for one that is owned.
LEMMA EnterInv ==
  ASSUME PoolInv, NEW r \in Requests, Enter(r)
  PROVE  PermitInv'
<1> DEFINE s == slot[r]
<1>0. /\ TypeOK /\ SlotKnown /\ PermitOwned /\ WaitersQueued /\ NoIdleWait
      /\ s \in Slots /\ r # Nobody /\ stage[r] = "picked" /\ slot' = slot
  <2>1. TypeOK /\ SlotKnown /\ PermitOwned /\ WaitersQueued /\ NoIdleWait
    BY DEF PoolInv, PermitInv
  <2>2. QED
    BY <2>1, InPoolHasSlot, PoolAssumption DEF Enter
<1>. HIDE DEF s
<1>1. \A t \in Slots : \A i \in 1..Len(queue[t]) : queue[t][i] \in Requests \ {r}
  BY <1>0, ElementOfSeq DEF WaitersQueued, TypeOK
<1>2. CASE Idle(s)
  <2>1. /\ holder' = [holder EXCEPT ![s] = r] /\ queue' = queue
        /\ stage' = [stage EXCEPT ![r] = Granted(r)]
    BY <1>2 DEF Enter, s
  <2>2. /\ stage'[r] \in {"restoring", "held"}
        /\ \A q \in Requests \ {r} : stage'[q] = stage[q]
    BY <1>0, <2>1 DEF TypeOK, Granted
  <2>3. SlotKnown'
    BY <1>0, <2>2 DEF SlotKnown
  <2>4. PermitOwned'
    <3> SUFFICES ASSUME NEW t \in Slots, NEW q \in Requests
                 PROVE  (holder[t] = q)' <=> InUse(q)' /\ slot'[q] = t
      BY DEF PermitOwned
    <3>1. holder'[t] = IF t = s THEN r ELSE holder[t]
      BY <1>0, <2>1 DEF TypeOK
    <3>2. CASE q = r
      BY <1>0, <2>2, <3>1, <3>2 DEF PermitOwned, InUse, s
    <3>3. CASE q # r
      BY <1>0, <1>2, <2>2, <3>1, <3>3, PoolAssumption DEF PermitOwned, InUse, Idle
    <3>4. QED
      BY <3>2, <3>3
  <2>5. WaitersQueued'
    BY <1>0, <1>1, <2>1, <2>2 DEF WaitersQueued
  <2>6. NoIdleWait'
    BY <1>0, <2>1 DEF NoIdleWait, Idle, TypeOK
  <2>7. QED
    BY <2>3, <2>4, <2>5, <2>6 DEF PermitInv
<1>3. CASE ~Idle(s)
  <2>1. /\ queue' = [queue EXCEPT ![s] = Append(@, r)] /\ holder' = holder
        /\ stage' = [stage EXCEPT ![r] = "waiting"]
    BY <1>3 DEF Enter, s
  <2>2. /\ stage'[r] = "waiting"
        /\ \A q \in Requests \ {r} : stage'[q] = stage[q]
    BY <1>0, <2>1 DEF TypeOK
  <2>3. /\ queue'[s] = Append(queue[s], r)
        /\ \A t \in Slots \ {s} : queue'[t] = queue[t]
    BY <1>0, <2>1 DEF TypeOK
  <2>4. /\ Len(queue[s]) \in Nat
        /\ Len(queue'[s]) = Len(queue[s]) + 1
        /\ \A i \in 1..Len(queue[s]) : queue'[s][i] = queue[s][i]
        /\ queue'[s][Len(queue[s]) + 1] = r
    <3>1. queue[s] \in Seq(Requests)
      BY <1>0 DEF TypeOK
    <3>2. QED
      BY <2>3, <3>1, AppendProperties, LenProperties
  <2>5. \A t \in Slots : \A i \in 1..Len(queue'[t]) :
          \/ i \in 1..Len(queue[t]) /\ queue'[t][i] = queue[t][i]
          \/ t = s /\ i = Len(queue[s]) + 1 /\ queue'[t][i] = r
    <3> SUFFICES ASSUME NEW t \in Slots, NEW i \in 1..Len(queue'[t])
                 PROVE  \/ i \in 1..Len(queue[t]) /\ queue'[t][i] = queue[t][i]
                        \/ t = s /\ i = Len(queue[s]) + 1 /\ queue'[t][i] = r
      OBVIOUS
    <3>1. CASE t = s
      BY <2>4, <3>1
    <3>2. CASE t # s
      BY <2>3, <3>2
    <3>3. QED
      BY <3>1, <3>2
  <2>6. SlotKnown'
    BY <1>0, <2>2 DEF SlotKnown
  <2>7. PermitOwned'
    BY <1>0, <2>1, <2>2 DEF PermitOwned, InUse
  <2>8. WaitersQueued'
    <3>1. \A t \in Slots : \A i \in 1..Len(queue'[t]) :
            stage'[queue'[t][i]] = "waiting" /\ slot'[queue'[t][i]] = t
      BY <1>0, <1>1, <2>2, <2>5 DEF WaitersQueued, s
    <3>2. \A t \in Slots : \A i, j \in 1..Len(queue'[t]) :
            queue'[t][i] = queue'[t][j] => i = j
      BY <1>0, <1>1, <2>5 DEF WaitersQueued
    <3>3. \A q \in Requests : stage'[q] = "waiting" =>
            \E i \in 1..Len(queue'[slot'[q]]) : queue'[slot'[q]][i] = q
      <4> SUFFICES ASSUME NEW q \in Requests, stage'[q] = "waiting"
                   PROVE  \E i \in 1..Len(queue'[slot'[q]]) : queue'[slot'[q]][i] = q
        OBVIOUS
      <4>1. CASE q = r
        BY <1>0, <2>4, <4>1 DEF s
      <4>2. CASE q # r
        <5>1. stage[q] = "waiting" /\ slot[q] \in Slots
          BY <1>0, <2>2, <4>2, InPoolHasSlot
        <5>2. PICK i \in 1..Len(queue[slot[q]]) : queue[slot[q]][i] = q
          BY <1>0, <5>1 DEF WaitersQueued
        <5>3. i \in 1..Len(queue'[slot[q]]) /\ queue'[slot[q]][i] = q
          BY <2>3, <2>4, <5>1, <5>2
        <5>4. QED
          BY <1>0, <5>3
      <4>3. QED
        BY <4>1, <4>2
    <3>4. QED
      BY <3>1, <3>2, <3>3 DEF WaitersQueued
  <2>9. NoIdleWait'
    BY <1>0, <1>3, <2>1, <2>3 DEF NoIdleWait, Idle
  <2>10. QED
    BY <2>6, <2>7, <2>8, <2>9 DEF PermitInv
<1>4. QED
  BY <1>2, <1>3

\* Steps that touch neither permits nor queues, and move nobody across the
\* borders that PermitInv speaks of.
LEMMA UntouchedInv ==
  ASSUME PermitInv, UNCHANGED <<holder, queue, slot>>,
         \A q \in Requests : /\ stage'[q] = "out" <=> stage[q] = "out"
                             /\ stage'[q] = "waiting" <=> stage[q] = "waiting"
                             /\ InUse(q)' <=> InUse(q),
         TypeOK
  PROVE  PermitInv'
<1>1. \A t \in Slots : \A i \in 1..Len(queue[t]) : queue[t][i] \in Requests
  BY ElementOfSeq DEF TypeOK
<1>2. SlotKnown' /\ NoIdleWait'
  BY DEF PermitInv, SlotKnown, NoIdleWait, Idle
<1>3. PermitOwned'
  <2> SUFFICES ASSUME NEW s \in Slots, NEW q \in Requests
               PROVE  holder'[s] = q <=> InUse(q)' /\ slot'[q] = s
    BY DEF PermitOwned
  <2>1. holder[s] = q <=> InUse(q) /\ slot[q] = s
    BY DEF PermitInv, PermitOwned
  <2>2. InUse(q)' <=> InUse(q)
    OBVIOUS
  <2>3. holder' = holder /\ slot' = slot
    OBVIOUS
  <2>4. QED
    BY <2>1, <2>2, <2>3 DEF InUse
<1>4. WaitersQueued'
  <2>1. holder' = holder /\ queue' = queue /\ slot' = slot
    OBVIOUS
  <2>2. \A q \in Requests : stage'[q] = "waiting" <=> stage[q] = "waiting"
    OBVIOUS
  <2>3. WaitersQueued
    BY DEF PermitInv
  <2>4. QED
    BY ONLY <1>1, <2>1, <2>2, <2>3 DEF WaitersQueued
<1>5. QED
  BY <1>2, <1>3, <1>4 DEF PermitInv

\* The inductive invariant is preserved by every step of the pool.
LEMMA PoolInvNext == PoolInv /\ [PoolNext]_poolVars => PoolInv'
<1> SUFFICES ASSUME PoolInv, [PoolNext]_poolVars PROVE PoolInv'
  OBVIOUS
<1>0. TypeOK /\ SlotKnown /\ PermitInv /\ TypeOK'
  BY TypeOKNext DEF PoolInv, PermitInv
<1>1. ASSUME NEW r \in Requests, NEW x \in Backends \cup {Nobody}, NEW want \in BOOLEAN,
             Acquire(r, SlotsOf(Backends \ {x}), want)
      PROVE  PermitInv'
  BY <1>1, AcquireInv
<1>2. ASSUME NEW r \in Requests, Enter(r)
      PROVE  PermitInv'
  BY <1>2, EnterInv
<1>3. ASSUME NEW r \in Requests, RestoreDone(r)
      PROVE  PermitInv'
  BY <1>0, <1>3, UntouchedInv DEF RestoreDone, TypeOK, InUse
<1>4. ASSUME NEW r \in Requests, Timeout(r)
      PROVE  PermitInv'
  BY <1>4, LeaveQueueInv DEF Timeout
<1>5. ASSUME NEW r \in Requests, Abandon(r)
      PROVE  PermitInv'
  BY <1>5, LeaveQueueInv, DropPermitInv DEF Abandon, InUse
<1>6. ASSUME NEW r \in Requests, Answered(r)
      PROVE  PermitInv'
  BY <1>0, <1>6, UntouchedInv DEF Answered, InUse
<1>7. ASSUME NEW r \in Requests, NEW verdict \in Verdicts, NEW used \in BOOLEAN,
             GiveBack(r, verdict, used)
      PROVE  PermitInv'
  BY <1>7, DropPermitInv DEF GiveBack, InUse
<1>8. ASSUME NEW b \in Backends, ProbeStart(b)
      PROVE  PermitInv'
  BY <1>0, <1>8, UntouchedInv DEF ProbeStart, InUse
<1>9. ASSUME ProbeAnswer
      PROVE  PermitInv'
  BY <1>0, <1>9, UntouchedInv DEF ProbeAnswer, InUse
<1>10. ASSUME Tick
       PROVE  PermitInv'
  BY <1>0, <1>10, UntouchedInv DEF Tick, InUse
<1>11. ASSUME UNCHANGED poolVars
       PROVE  PermitInv'
  BY <1>0, <1>11, UntouchedInv DEF poolVars, InUse
<1>12. PermitInv'
  BY <1>1, <1>2, <1>3, <1>4, <1>5, <1>6, <1>7, <1>8, <1>9, <1>10, <1>11
     DEF PoolNext, RequestNext
<1>13. QED
  BY <1>0, <1>12 DEF PoolInv

--------------------------------------------------------------------------------
(* The slot pool: theorems.                                                  *)

\* The inductive invariant holds throughout.
THEOREM PoolInvariant == PoolSpec => []PoolInv
<1>1. PoolInit => PoolInv
  BY PoolInvInit
<1>2. PoolInv /\ [PoolNext]_poolVars => PoolInv'
  BY PoolInvNext
<1>3. QED
  BY <1>1, <1>2, PTL DEF PoolSpec

\* The state of the pool is well-typed: ranks, cooldowns and streaks stay in
\* their bounds, whatever the callers do.
THEOREM PoolTypeCorrect == PoolSpec => []TypeOK
<1>1. PoolInv => TypeOK
  BY DEF PoolInv
<1>2. QED
  BY <1>1, PoolInvariant, PTL

\* A slot's permit is owned by exactly the request that works on the slot, so
\* two requests never work on one llama.cpp slot at a time.
THEOREM PermitsExclusive == PoolSpec => []PermitOwned
<1>1. PoolInv => PermitOwned
  BY DEF PoolInv, PermitInv
<1>2. QED
  BY <1>1, PoolInvariant, PTL

\* No waiter is lost, doubled or left in the queue of another slot.
THEOREM WaitersKept == PoolSpec => []WaitersQueued
<1>1. PoolInv => WaitersQueued
  BY DEF PoolInv, PermitInv
<1>2. QED
  BY <1>1, PoolInvariant, PTL

\* Nobody waits for a permit that is free: however releases, timeouts and
\* dropped futures overlap, a permit that comes back goes to a waiter.
THEOREM NoPermitIdle == PoolSpec => []NoIdleWait
<1>1. PoolInv => NoIdleWait
  BY DEF PoolInv, PermitInv
<1>2. QED
  BY <1>1, PoolInvariant, PTL

--------------------------------------------------------------------------------
(* Handing over.                                                             *)

\* While callers wait for a permit, it stays where it is or goes to the first.
LEMMA HandoverToHead ==
  ASSUME PoolInv, [PoolNext]_poolVars, NEW s \in Slots, queue[s] # <<>>
  PROVE  holder'[s] = holder[s] \/ holder'[s] = Head(queue[s])
<1>1. TypeOK /\ SlotKnown /\ NoIdleWait
  BY DEF PoolInv, PermitInv
<1>2. ASSUME NEW r \in Requests, Enter(r)
      PROVE  holder'[s] = holder[s]
  <2>1. ~Idle(s)
    BY <1>1 DEF NoIdleWait
  <2>2. QED
    BY <1>1, <1>2, <2>1 DEF Enter, TypeOK
<1>3. ASSUME NEW r \in Requests, InUse(r), DropPermit(r)
      PROVE  holder'[s] = holder[s] \/ holder'[s] = Head(queue[s])
  <2>1. slot[r] \in Slots
    BY <1>1, <1>3, InPoolHasSlot DEF InUse
  <2>2. QED
    BY <1>1, <1>3, <2>1 DEF DropPermit, TypeOK
<1>4. ASSUME NEW r \in Requests, Abandon(r)
      PROVE  holder'[s] = holder[s] \/ holder'[s] = Head(queue[s])
  BY <1>3, <1>4 DEF Abandon, LeaveQueue, InUse
<1>5. ASSUME NEW r \in Requests, NEW verdict \in Verdicts, NEW used \in BOOLEAN,
             GiveBack(r, verdict, used)
      PROVE  holder'[s] = holder[s] \/ holder'[s] = Head(queue[s])
  BY <1>3, <1>5 DEF GiveBack, InUse
<1>6. ASSUME NEW r \in Requests, RequestNext(r), ~Enter(r), ~Abandon(r),
             ~\E verdict \in Verdicts, used \in BOOLEAN : GiveBack(r, verdict, used)
      PROVE  holder' = holder
  BY <1>6 DEF RequestNext, Acquire, RestoreDone, Timeout, LeaveQueue, Answered
<1>7. ASSUME \/ \E b \in Backends : ProbeStart(b)
             \/ ProbeAnswer
             \/ Tick
             \/ UNCHANGED poolVars
      PROVE  holder' = holder
  BY <1>7 DEF ProbeStart, ProbeAnswer, Tick, poolVars
<1>8. QED
  BY <1>2, <1>4, <1>5, <1>6, <1>7 DEF PoolNext

\* Permits are handed over in arrival order: whoever else times out or is
\* dropped meanwhile, no caller is served while one before it still waits.
THEOREM PermitsInArrivalOrder == PoolSpec => FifoHandover
<1> DEFINE A == \A s \in Slots, r, q \in Requests :
                  (\E i, j \in DOMAIN queue[s] :
                      i < j /\ queue[s][i] = r /\ queue[s][j] = q)
                    => ~(holder'[s] = q /\ stage'[r] = "waiting")
<1>1. PoolInv /\ [PoolNext]_poolVars => A
  <2> SUFFICES ASSUME PoolInv, [PoolNext]_poolVars, NEW s \in Slots,
                      NEW i \in DOMAIN queue[s], NEW j \in DOMAIN queue[s], i < j
               PROVE  holder'[s] # queue[s][j]
    OBVIOUS
  <2>1. TypeOK /\ PermitOwned /\ WaitersQueued
    BY DEF PoolInv, PermitInv
  <2>2. /\ queue[s] \in Seq(Requests)
        /\ DOMAIN queue[s] = 1..Len(queue[s])
        /\ Len(queue[s]) \in Nat
    BY <2>1, LenProperties DEF TypeOK
  <2>3. queue[s] # <<>> /\ 1 \in 1..Len(queue[s]) /\ j # 1
    BY <2>2, EmptySeq
  <2>4. Head(queue[s]) = queue[s][1]
    BY <2>2
  <2>5. queue[s][j] # queue[s][1]
    BY <2>1, <2>2, <2>3 DEF WaitersQueued
  <2>6. holder[s] # queue[s][j]
    <3>1. queue[s][j] \in Requests /\ stage[queue[s][j]] = "waiting"
      BY <2>1, <2>2, ElementOfSeq DEF WaitersQueued
    <3>2. QED
      BY <2>1, <3>1 DEF PermitOwned, InUse
  <2>7. QED
    BY <2>3, <2>4, <2>5, <2>6, HandoverToHead
<1>2. QED
  BY <1>1, PoolInvariant, PTL DEF PoolSpec, FifoHandover

--------------------------------------------------------------------------------
(* Least recent use.                                                         *)

\* Two used slots never have the same rank.
RanksDistinct ==
  \A s, t \in Slots : s # t /\ last_used[s] = last_used[t] => last_used[s] = 0

\* Above the rank of a used slot every rank is taken.
RanksDense ==
  \A s \in Slots : last_used[s] # 0 =>
    \A n \in last_used[s]..NSlots : \E t \in Slots : last_used[t] = n

\* The ranks stand for timestamps: distinct, and dense from the top.
RanksInv == TypeOK /\ RanksDistinct /\ RanksDense

\* While a slot has never been used, no slot has rank 1: there are more ranks
\* than used slots.
LEMMA NoRankOneWhileUnused ==
  ASSUME RanksInv, NEW s \in Slots, last_used[s] = 0, NEW t \in Slots
  PROVE  last_used[t] # 1
<1> SUFFICES ASSUME last_used[t] = 1 PROVE FALSE
  OBVIOUS
<1> DEFINE others == Slots \ {s}
           rank == [u \in others |-> IF last_used[u] = 0 THEN 1 ELSE last_used[u]]
<1>1. NSlots \in Nat \ {0} /\ \A u \in Slots : last_used[u] \in 0..NSlots
  BY PoolAssumption DEF RanksInv, TypeOK
<1>2. rank \in [others -> 1..NSlots]
  BY <1>1
<1>3. ASSUME NEW n \in 1..NSlots
      PROVE  \E u \in others : rank[u] = n
  <2>1. PICK u \in Slots : last_used[u] = n
    BY <1>1 DEF RanksInv, RanksDense
  <2>2. u # s
    BY <2>1
  <2>3. QED
    BY <2>1, <2>2
<1>4. rank \in Surjection(others, 1..NSlots)
  <2>. HIDE DEF rank
  <2>1. QED
    BY <1>2, <1>3, Fun_IsSurj
<1>5. IsFiniteSet(others) /\ Cardinality(others) = NSlots - 1
  <2>1. IsFiniteSet(Slots) /\ Cardinality(Slots) = NSlots
    BY <1>1, FS_Interval DEF Slots
  <2>2. QED
    BY <2>1, FS_RemoveElement
<1>6. Cardinality(1..NSlots) = NSlots
  BY <1>1, FS_Interval
<1>7. NSlots <= NSlots - 1
  <2>. HIDE DEF rank, others
  <2>1. Cardinality(1..NSlots) <= Cardinality(others)
    BY <1>4, <1>5, FS_Surjection
  <2>2. QED
    BY <1>5, <1>6, <2>1
<1>8. QED
  BY <1>1, <1>7

\* Marking a slot makes it the most recently used one and keeps the order of
\* all others, as a new timestamp does.
LEMMA MarkUsedKeepsOrder ==
  ASSUME RanksInv, NEW s \in Slots, MarkUsed(s)
  PROVE  /\ last_used'[s] = NSlots
         /\ \A t \in Slots \ {s} : last_used'[t] < NSlots
         /\ \A t, u \in Slots \ {s} : last_used'[t] < last_used'[u]
                                        <=> last_used[t] < last_used[u]
         /\ \A t \in Slots \ {s} : last_used'[t] = 0 <=> last_used[t] = 0
<1>1. /\ NSlots \in Nat \ {0}
      /\ \A t \in Slots : last_used[t] \in 0..NSlots
  BY PoolAssumption DEF RanksInv, TypeOK
<1>2. /\ last_used'[s] = NSlots
      /\ \A t \in Slots \ {s} :
           last_used'[t] = IF last_used[t] > last_used[s] THEN last_used[t] - 1
                                                          ELSE last_used[t]
  BY DEF MarkUsed
<1>3. ASSUME NEW t \in Slots \ {s}
      PROVE  /\ last_used[t] = last_used[s] => last_used[t] = 0
             /\ last_used[s] = 0 => last_used[t] # 1
  BY <1>3, NoRankOneWhileUnused DEF RanksInv, RanksDistinct
<1>4. \A t \in Slots \ {s} : last_used'[t] < NSlots
  BY <1>1, <1>2, <1>3
<1>5. ASSUME NEW t \in Slots \ {s}, NEW u \in Slots \ {s}
      PROVE  last_used'[t] < last_used'[u] <=> last_used[t] < last_used[u]
  <2>1. t # u /\ last_used[t] = last_used[u] => last_used[t] = 0
    BY DEF RanksInv, RanksDistinct
  <2>2. /\ last_used[t] \in Nat /\ last_used[u] \in Nat /\ last_used[s] \in Nat
        /\ last_used[t] = last_used[s] => last_used[t] = 0
        /\ last_used[u] = last_used[s] => last_used[u] = 0
        /\ last_used[s] = 0 => last_used[t] # 1 /\ last_used[u] # 1
    BY <1>1, <1>3
  <2>3. /\ last_used'[t] = IF last_used[t] > last_used[s] THEN last_used[t] - 1
                                                          ELSE last_used[t]
        /\ last_used'[u] = IF last_used[u] > last_used[s] THEN last_used[u] - 1
                                                          ELSE last_used[u]
    BY <1>2
  <2>4. QED
    BY <2>1, <2>2, <2>3
<1>6. ASSUME NEW t \in Slots \ {s}
      PROVE  last_used'[t] = 0 <=> last_used[t] = 0
  BY <1>1, <1>2, <1>3
<1>7. QED
  BY <1>2, <1>4, <1>5, <1>6

\* Marking a slot keeps the ranks distinct and dense.
LEMMA MarkUsedRanks ==
  ASSUME RanksInv, NEW s \in Slots, MarkUsed(s)
  PROVE  RanksDistinct' /\ RanksDense'
<1>1. /\ NSlots \in Nat \ {0}
      /\ \A t \in Slots : last_used[t] \in 0..NSlots
  BY PoolAssumption DEF RanksInv, TypeOK
<1>2. /\ last_used'[s] = NSlots
      /\ \A t \in Slots \ {s} :
           last_used'[t] = IF last_used[t] > last_used[s] THEN last_used[t] - 1
                                                          ELSE last_used[t]
  BY DEF MarkUsed
<1>3. RanksDistinct'
  <2> SUFFICES ASSUME NEW t \in Slots, NEW u \in Slots, t # u,
                      last_used'[t] = last_used'[u]
               PROVE  last_used'[t] = 0
    BY DEF RanksDistinct
  <2>1. t # s /\ u # s
    BY <1>1, <1>2, MarkUsedKeepsOrder
  <2>2. ~(last_used[t] < last_used[u]) /\ ~(last_used[u] < last_used[t])
    <3>1. ~(last_used'[t] < last_used'[u]) /\ ~(last_used'[u] < last_used'[t])
      BY <1>1, <1>2, <2>1
    <3>2. QED
      BY <2>1, <3>1, MarkUsedKeepsOrder
  <2>3. last_used[t] = 0
    BY <1>1, <2>2 DEF RanksInv, RanksDistinct
  <2>4. QED
    BY <2>1, <2>3, MarkUsedKeepsOrder
<1>4. RanksDense'
  <2> SUFFICES ASSUME NEW t \in Slots, last_used'[t] # 0,
                      NEW n \in last_used'[t]..NSlots
               PROVE  \E u \in Slots : last_used'[u] = n
    BY DEF RanksDense
  <2>1. CASE n = NSlots
    BY <1>2, <2>1
  <2>2. CASE n # NSlots
    <3>1. t # s
      BY <1>1, <1>2, <2>2
    <3>2. /\ last_used[t] \in 1..NSlots
          /\ last_used'[t] = IF last_used[t] > last_used[s] THEN last_used[t] - 1
                                                            ELSE last_used[t]
          /\ n \in Nat /\ last_used'[t] <= n /\ n < NSlots
      <4>1. last_used[t] # 0
        BY <3>1, MarkUsedKeepsOrder
      <4>2. last_used'[t] \in 0..NSlots
        BY <1>1, <1>2, <3>1, <4>1
      <4>3. QED
        BY <1>1, <1>2, <2>2, <3>1, <4>1, <4>2
    <3>3. ASSUME NEW k \in 1..NSlots, NEW v \in Slots, last_used[v] = k,
                 NEW m \in k..NSlots
          PROVE  \E u \in Slots : last_used[u] = m
      BY <1>1, <3>3 DEF RanksInv, RanksDense
    <3>4. CASE last_used[s] <= n
      <4>1. n + 1 \in last_used[t]..NSlots
        BY <1>1, <3>2
      <4>2. PICK u \in Slots : last_used[u] = n + 1
        BY <1>1, <3>2, <3>3, <4>1
      <4>3. u # s /\ last_used[u] > last_used[s] /\ last_used[u] - 1 = n
        BY <1>1, <3>2, <3>4, <4>2
      <4>4. QED
        BY <1>2, <4>3
    <3>5. CASE n < last_used[s]
      <4>1. n \in last_used[t]..NSlots
        BY <1>1, <1>2, <3>1, <3>2, <3>5
      <4>2. PICK u \in Slots : last_used[u] = n
        BY <3>2, <3>3, <4>1
      <4>3. u # s /\ ~(last_used[u] > last_used[s])
        BY <1>1, <3>2, <3>5, <4>2
      <4>4. QED
        BY <1>2, <4>2, <4>3
    <3>6. QED
      BY <1>1, <3>2, <3>4, <3>5
  <2>3. QED
    BY <2>1, <2>2
<1>5. QED
  BY <1>3, <1>4

\* Every step keeps the ranks distinct and dense: only GiveBack changes them.
LEMMA RanksInvNext == PoolInv /\ RanksInv /\ [PoolNext]_poolVars => RanksInv'
<1> SUFFICES ASSUME PoolInv, RanksInv, [PoolNext]_poolVars PROVE RanksInv'
  OBVIOUS
<1>1. TypeOK'
  BY TypeOKNext DEF PoolInv, PermitInv
<1>2. ASSUME UNCHANGED last_used
      PROVE  RanksDistinct' /\ RanksDense'
  BY <1>2 DEF RanksInv, RanksDistinct, RanksDense
<1>3. ASSUME NEW r \in Requests, NEW verdict \in Verdicts, NEW used \in BOOLEAN,
             GiveBack(r, verdict, used)
      PROVE  RanksDistinct' /\ RanksDense'
  <2>1. slot[r] \in Slots
    BY <1>3, InPoolHasSlot DEF GiveBack, PoolInv, PermitInv
  <2>2. QED
    BY <1>2, <1>3, <2>1, MarkUsedRanks DEF GiveBack, Touch
<1>4. ASSUME NEW r \in Requests, RequestNext(r),
             ~\E verdict \in Verdicts, used \in BOOLEAN : GiveBack(r, verdict, used)
      PROVE  UNCHANGED last_used
  BY <1>4 DEF RequestNext, Acquire, Enter, RestoreDone, Timeout, Abandon, Answered
<1>5. ASSUME \/ \E b \in Backends : ProbeStart(b)
             \/ ProbeAnswer
             \/ Tick
             \/ UNCHANGED poolVars
      PROVE  UNCHANGED last_used
  BY <1>5 DEF ProbeStart, ProbeAnswer, Tick, poolVars
<1>6. RanksDistinct' /\ RanksDense'
  BY <1>2, <1>3, <1>4, <1>5 DEF PoolNext
<1>7. QED
  BY <1>1, <1>6 DEF RanksInv

\* At the start no slot has been used.
LEMMA RanksInvInit == PoolInit => RanksInv
<1>1. PoolInit => TypeOK
  BY PoolInvInit DEF PoolInv
<1>2. QED
  BY <1>1 DEF PoolInit, RanksInv, RanksDistinct, RanksDense

\* The ranks are what a least-recently-used order over timestamps looks like:
\* no two used slots share one, and the lowest falls out only when every slot
\* has been used.
THEOREM RanksStandForTimes == PoolSpec => []RanksInv
<1>1. PoolInit => RanksInv
  BY RanksInvInit
<1>2. PoolInv /\ RanksInv /\ [PoolNext]_poolVars => RanksInv'
  BY RanksInvNext
<1>3. QED
  BY <1>1, <1>2, PoolInvariant, PTL DEF PoolSpec

--------------------------------------------------------------------------------
(* The choice of a slot.                                                     *)

\* A set of numbers that is not empty has a least element.
LEMMA LeastNatural ==
  ASSUME NEW T, T \subseteq Nat, T # {}
  PROVE  \E m \in T : \A n \in T : m <= n
<1> DEFINE R == {p \in Nat \X Nat : p[1] < p[2]}
<1>1. IsWellFoundedOn(R, Nat)
  BY NatLessThanWellFounded DEF OpToRel
<1>2. PICK m \in T : \A n \in T : <<n, m>> \notin R
  <2>. HIDE DEF R
  <2>1. QED
    BY <1>1, WFMin
<1>3. ASSUME NEW n \in T
      PROVE  m <= n
  <2>1. m \in Nat /\ n \in Nat
    OBVIOUS
  <2>2. n < m => <<n, m>> \in R
    BY <2>1
  <2>3. QED
    BY <1>2, <2>1, <2>2
<1>4. QED
  BY <1>3

\* pick_filtered returns one slot whenever it may choose from any, and none
\* otherwise: the order it selects by has no ties.
LEMMA PickFilteredChooses ==
  ASSUME TypeOK, NEW allowed \in SUBSET Slots
  PROVE  /\ Eligible(allowed) # {} => \E s \in Slots : PickFiltered(allowed) = {s}
         /\ Eligible(allowed) = {} => PickFiltered(allowed) = {}
<1> DEFINE eligible == Eligible(allowed)
           idle == {s \in eligible : Idle(s)}
           pool == IF idle # {} THEN idle ELSE eligible
<1>1. PickFiltered(allowed) = {s \in pool : \A t \in pool \ {s} : UsedBefore(s, t)}
  BY DEF PickFiltered
<1>2. pool \subseteq Slots /\ (pool = {} <=> eligible = {})
  BY DEF Eligible
<1>3. \A s \in Slots : s \in Nat /\ last_used[s] \in Nat
  BY PoolAssumption DEF TypeOK, Slots
<1>. HIDE DEF pool, eligible
<1>4. ASSUME pool # {}
      PROVE  \E s \in Slots : PickFiltered(allowed) = {s}
  <2> DEFINE ranks == {last_used[s] : s \in pool}
  <2>1. PICK m \in ranks : \A n \in ranks : m <= n
    <3>1. ranks \subseteq Nat /\ ranks # {}
      BY <1>2, <1>3, <1>4
    <3>2. QED
      BY <3>1, LeastNatural
  <2> DEFINE oldest == {s \in pool : last_used[s] = m}
  <2>2. PICK s \in oldest : \A t \in oldest : s <= t
    <3>1. oldest \subseteq Nat /\ oldest # {}
      BY <1>2, <1>3
    <3>. HIDE DEF oldest
    <3>2. QED
      BY <3>1, LeastNatural
  <2>3. s \in pool /\ s \in Slots
    BY <1>2
  <2>4. \A t \in pool \ {s} : UsedBefore(s, t)
    <3> SUFFICES ASSUME NEW t \in pool \ {s} PROVE UsedBefore(s, t)
      OBVIOUS
    <3>1. t \in Slots /\ last_used[t] \in ranks /\ last_used[s] = m
      BY <1>2
    <3>2. m <= last_used[t]
      BY <2>1, <3>1
    <3>3. last_used[t] = m => s <= t
      BY <2>2
    <3>4. QED
      BY <1>3, <2>3, <3>1, <3>2, <3>3 DEF UsedBefore
  <2>5. \A t \in pool \ {s} : ~UsedBefore(t, s)
    BY <1>2, <1>3, <2>3, <2>4 DEF UsedBefore
  <2>6. PickFiltered(allowed) = {s}
    BY <1>1, <2>3, <2>4, <2>5
  <2>7. QED
    BY <2>3, <2>6
<1>5. QED
  BY <1>1, <1>2, <1>4 DEF eligible

\* The pool fails open: a caller that excludes no backend gets a slot, exactly
\* one, whatever backends are in cooldown, if every backend has one.
THEOREM PoolFailsOpen ==
  ASSUME TypeOK, \A b \in Backends : \E s \in Slots : BackendOf[s] = b
  PROVE  \E s \in Slots : PickFiltered(Slots) = {s}
<1>1. Slots # {} /\ \A s \in Slots : BackendOf[s] \in Backends
  BY PoolAssumption DEF Slots
<1>2. Eligible(Slots) # {}
  BY <1>1 DEF Eligible
<1>3. QED
  BY <1>2, PickFilteredChooses

--------------------------------------------------------------------------------
(* Refinement of SlotPool.tla.                                               *)

\* A request that is not inside owns no permit.
LEMMA OutsideOwnsNone ==
  ASSUME PermitOwned, NEW r \in Requests, ~InUse(r)
  PROVE  Promise!OwnsNone(r)
<1>1. \A t \in Slots : holder[t] # r
  BY DEF PermitOwned
<1>2. QED
  BY <1>1 DEF Promise!OwnsNone, Promise!AllSlots, Slots

\* Taking a free permit is a Take of the promise, queueing a stutter.
LEMMA EnterKeepsPromise ==
  ASSUME PoolInv, NEW r \in Requests, Enter(r)
  PROVE  [Promise!Next]_holder
<1>1. TypeOK /\ PermitOwned /\ SlotKnown
  BY DEF PoolInv, PermitInv
<1>2. slot[r] \in Slots /\ ~InUse(r)
  BY <1>1, InPoolHasSlot DEF Enter, InUse
<1>3. CASE Idle(slot[r])
  <2>1. holder[slot[r]] = Nobody /\ holder' = [holder EXCEPT ![slot[r]] = r]
    BY <1>3 DEF Enter, Idle
  <2>2. Promise!Take(r, slot[r])
    BY <1>1, <1>2, <2>1, OutsideOwnsNone DEF Promise!Take
  <2>3. QED
    BY <1>2, <2>2 DEF Promise!Next, Promise!AllSlots, Slots
<1>4. CASE ~Idle(slot[r])
  BY <1>4 DEF Enter
<1>5. QED
  BY <1>3, <1>4

\* Giving a permit back is a Drop of the promise, handing it over a Pass.
LEMMA DropPermitKeepsPromise ==
  ASSUME PoolInv, NEW r \in Requests, InUse(r), DropPermit(r)
  PROVE  Promise!Next
<1> DEFINE s == slot[r]
<1>1. TypeOK /\ PermitOwned /\ WaitersQueued /\ SlotKnown
  BY DEF PoolInv, PermitInv
<1>2. s \in Slots /\ holder[s] # Nobody
  <2>1. s \in Slots
    BY <1>1, InPoolHasSlot DEF InUse
  <2>2. holder[s] = r
    BY <1>1, <2>1 DEF PermitOwned
  <2>3. QED
    BY <2>1, <2>2, PoolAssumption
<1>3. CASE queue[s] = <<>>
  <2>1. Promise!Drop(s)
    BY <1>2, <1>3 DEF DropPermit, Promise!Drop
  <2>2. QED
    BY <1>2, <2>1 DEF Promise!Next, Promise!AllSlots, Slots
<1>4. CASE queue[s] # <<>>
  <2> DEFINE q == Head(queue[s])
  <2>1. q \in Requests /\ ~InUse(q)
    BY <1>1, <1>2, <1>4, HeadWaits DEF InUse
  <2>2. holder' = [holder EXCEPT ![s] = q]
    BY <1>4 DEF DropPermit
  <2>3. Promise!Pass(s, q)
    BY <1>1, <1>2, <2>1, <2>2, OutsideOwnsNone DEF Promise!Pass
  <2>4. QED
    BY <1>2, <2>1, <2>3 DEF Promise!Next, Promise!AllSlots, Slots
<1>5. QED
  BY <1>3, <1>4

\* Every step of the pool is a step of the promise or leaves the owners alone.
LEMMA StepKeepsPromise ==
  PoolInv /\ [PoolNext]_poolVars => [Promise!Next]_holder
<1> SUFFICES ASSUME PoolInv, [PoolNext]_poolVars PROVE [Promise!Next]_holder
  OBVIOUS
<1>1. ASSUME NEW r \in Requests, Enter(r)
      PROVE  [Promise!Next]_holder
  BY <1>1, EnterKeepsPromise
<1>2. ASSUME NEW r \in Requests, Abandon(r)
      PROVE  [Promise!Next]_holder
  <2>1. CASE stage[r] \in {"restoring", "held"} /\ DropPermit(r)
    BY <2>1, DropPermitKeepsPromise DEF InUse
  <2>2. CASE stage[r] = "waiting" /\ LeaveQueue(r)
    BY <2>2 DEF LeaveQueue
  <2>3. QED
    BY <1>2, <2>1, <2>2 DEF Abandon
<1>3. ASSUME NEW r \in Requests, NEW verdict \in Verdicts, NEW used \in BOOLEAN,
             GiveBack(r, verdict, used)
      PROVE  [Promise!Next]_holder
  BY <1>3, DropPermitKeepsPromise DEF GiveBack, InUse
<1>4. ASSUME NEW r \in Requests, RequestNext(r), ~Enter(r), ~Abandon(r),
             ~\E verdict \in Verdicts, used \in BOOLEAN : GiveBack(r, verdict, used)
      PROVE  holder' = holder
  BY <1>4 DEF RequestNext, Acquire, RestoreDone, Timeout, LeaveQueue, Answered
<1>5. ASSUME \/ \E b \in Backends : ProbeStart(b)
             \/ ProbeAnswer
             \/ Tick
             \/ UNCHANGED poolVars
      PROVE  holder' = holder
  BY <1>5 DEF ProbeStart, ProbeAnswer, Tick, poolVars
<1>6. QED
  BY <1>1, <1>2, <1>3, <1>4, <1>5 DEF PoolNext

\* The pool implements SlotPool.tla: an owner per slot, at most one slot per
\* request, whatever the interleaving of picks, waits, timeouts and releases.
THEOREM PoolRefinement == PoolSpec => PoolKeepsPromise
<1>1. PoolInit => Promise!Init
  BY DEF PoolInit, Promise!Init, Promise!AllSlots, Slots
<1>2. PoolInv /\ [PoolNext]_poolVars => [Promise!Next]_holder
  BY StepKeepsPromise
<1>3. QED
  BY <1>1, <1>2, PoolInvariant, PTL DEF PoolSpec, PoolKeepsPromise, Promise!Spec

\* No request owns two permits.
THEOREM OnePermitEach == PoolSpec => []OneSlotPerRequest
<1>1. PoolInv => OneSlotPerRequest
  <2> SUFFICES ASSUME PoolInv, NEW s \in Slots, NEW t \in Slots, s # t,
                      holder[s] = holder[t]
               PROVE  holder[s] = Nobody
    BY DEF OneSlotPerRequest, Promise!OneSlotEach, Promise!AllSlots, Slots
  <2>1. TypeOK /\ PermitOwned
    BY DEF PoolInv, PermitInv
  <2>2. holder[s] \in Requests => slot[holder[s]] = s /\ slot[holder[s]] = t
    BY <2>1 DEF PermitOwned
  <2>3. QED
    BY <2>1, <2>2 DEF TypeOK
<1>2. QED
  BY <1>1, PoolInvariant, PTL

--------------------------------------------------------------------------------
(* The pipeline uses the pool as SlotManager.tla specifies.                  *)

\* A pick from all slots is one that excludes no backend.
LEMMA AllSlots == Slots = SlotsOf(Backends \ {Nobody})
BY PoolAssumption DEF SlotsOf

\* NoSlot is not a slot.
LEMMA NoSlotIsNone == NoSlot \notin Slots
BY PoolAssumption DEF Slots, NoSlot

\* Every step of a request is one of the pool's steps of the same request, or
\* leaves the pool alone.
LEMMA RequestUsesPool ==
  ASSUME PipelineTypeOK, NEW r \in Requests,
         \/ \E k \in Workload : Arrive(r, k)
         \/ Step(r)
         \/ StreamEnded(r)
         \/ Cancelled(r)
  PROVE  RequestNext(r) \/ UNCHANGED poolVars
<1>1. ASSUME NEW k \in Workload, Arrive(r, k)
      PROVE  RequestNext(r)
  <2>1. Acquire(r, SlotsOf(Backends \ {Nobody}), k.candidate)
    BY <1>1, AllSlots DEF Arrive
  <2>2. k.candidate \in BOOLEAN
    BY PipelineAssumption DEF Kinds
  <2>3. QED
    BY <2>1, <2>2 DEF RequestNext
<1>2. ASSUME \/ TakeOrQueue(r)
             \/ Restored(r)
             \/ SlotTimeout(r)
             \/ Cancelled(r)
      PROVE  RequestNext(r)
  BY <1>2 DEF TakeOrQueue, Restored, SlotTimeout, Cancelled, RequestNext
<1>3. ASSUME NEW verdict \in Verdicts, NEW used \in BOOLEAN,
             GiveBack(r, verdict, used)
      PROVE  RequestNext(r)
  BY <1>3 DEF RequestNext
<1>4. "failure" \in Verdicts /\ "success" \in Verdicts /\ "none" \in Verdicts
  BY DEF Verdicts
<1>5. ASSUME ChatFailed(r) \/ ChatRejected(r) \/ StreamRefused(r)
      PROVE  RequestNext(r)
  BY <1>3, <1>4, <1>5 DEF ChatFailed, ChatRejected, StreamRefused
<1>6. ASSUME JsonAnswered(r)
      PROVE  RequestNext(r)
  BY <1>3, <1>4, <1>6 DEF JsonAnswered, RequestNext
<1>7. ASSUME StreamStarted(r) \/ StreamEnded(r)
      PROVE  RequestNext(r) \/ UNCHANGED poolVars
  BY <1>3, <1>4, <1>7 DEF StreamStarted, StreamEnded
<1>8. ASSUME NEW answer \in SaveAnswers, SaveAnswered(r, answer)
      PROVE  RequestNext(r) \/ UNCHANGED poolVars
  <2>1. SaveVerdict(answer, kind[r].stream) \in Verdicts
    BY <1>4 DEF SaveVerdict
  <2>2. QED
    BY <1>3, <1>8, <2>1 DEF SaveAnswered
<1>9. ASSUME Retry(r)
      PROVE  RequestNext(r) \/ UNCHANGED poolVars
  <2>1. failed[r] \in Backends \cup {Nobody} /\ kind[r].candidate \in BOOLEAN
    BY DEF PipelineTypeOK, Kinds
  <2>2. QED
    BY <1>9, <2>1 DEF Retry, RequestNext
<1>10. QED
  BY <1>1, <1>2, <1>5, <1>6, <1>7, <1>8, <1>9 DEF Step

\* Every step of the pipeline is a step of the pool, or leaves it alone.
LEMMA StepUsesPool ==
  ASSUME PipelineTypeOK, [Next]_vars
  PROVE  [PoolNext]_poolVars
<1>1. ASSUME NEW r \in Requests,
             \/ \E k \in Workload : Arrive(r, k)
             \/ Step(r)
             \/ StreamEnded(r)
             \/ Cancelled(r)
      PROVE  [PoolNext]_poolVars
  BY <1>1, RequestUsesPool DEF PoolNext
<1>2. ASSUME Environment
      PROVE  [PoolNext]_poolVars
  BY <1>2 DEF Environment, PoolNext
<1>3. ASSUME UNCHANGED vars
      PROVE  [PoolNext]_poolVars
  BY <1>3 DEF vars
<1>4. QED
  BY <1>1, <1>2, <1>3 DEF Next

--------------------------------------------------------------------------------
(* The pipeline: the inductive invariant.                                    *)

\* What holds of each request between two steps: its phase agrees with its use
\* of the pool; while it streams or saves the slot holds its prompt; it saves
\* and restores only where the slot endpoints may be called; it knows the
\* backend it failed on exactly from then on, and does not use that one again.
RequestOK(r) ==
  /\ phase[r] \in {"idle", "retry"} <=> stage[r] = "out"
  /\ phase[r] \in {"stream", "save"} => stage[r] = "held" /\ kv[slot[r]] = r
  /\ phase[r] = "save" => SavesKv(r)
  /\ phase[r] = "idle" => failed[r] = Nobody
  /\ phase[r] = "retry" => failed[r] # Nobody
  /\ stage[r] # "out" => /\ failed[r] # Nobody => Backend(r) # failed[r]
                         /\ restore[r] => SavesKv(r)
  /\ stage[r] = "restoring" => restore[r]

PipelineInv ==
  /\ PoolInv
  /\ RanksInv
  /\ PipelineTypeOK
  /\ \A r \in Requests : RequestOK(r)

\* At the start every request is idle.
LEMMA PipelineInvInit == Init => PipelineInv
<1> SUFFICES ASSUME Init PROVE PipelineInv
  OBVIOUS
<1>1. PoolInv /\ RanksInv
  BY PoolInvInit, RanksInvInit DEF Init
<1>2. PipelineTypeOK
  BY PipelineAssumption DEF Init, PipelineTypeOK, Phases, Kinds, NoKind
<1>3. \A r \in Requests : RequestOK(r)
  BY DEF Init, PoolInit, RequestOK
<1>4. QED
  BY <1>1, <1>2, <1>3 DEF PipelineInv

\* A request in the pool uses a slot of a known backend.
LEMMA BackendKnown ==
  ASSUME PoolInv, NEW r \in Requests, stage[r] # "out"
  PROVE  slot[r] \in Slots /\ Backend(r) \in Backends
BY InPoolHasSlot DEF PoolInv, PermitInv, Backend

--------------------------------------------------------------------------------
(* The pipeline: types.                                                      *)

\* The end of a request keeps the types.
LEMMA EndType ==
  ASSUME PipelineTypeOK, NEW r \in Requests, End(r)
  PROVE  PipelineTypeOK'
<1>1. "idle" \in Phases /\ NoKind \in Kinds /\ 0 \in 0..SaveRetries
  BY PipelineAssumption DEF Phases, NoKind, Kinds
<1>2. QED
  BY <1>1 DEF End, PipelineTypeOK

\* Every step keeps every value in its range.
LEMMA PipelineTypeNext ==
  ASSUME PoolInv, PipelineTypeOK, [Next]_vars
  PROVE  PipelineTypeOK'
<1>0. Phases = {"idle", "chat", "retry", "stream", "save"}
  BY DEF Phases
<1>1. ASSUME NEW r \in Requests, NEW k \in Workload, Arrive(r, k)
      PROVE  PipelineTypeOK'
  BY <1>0, <1>1, PipelineAssumption DEF Arrive, PipelineTypeOK
<1>2. ASSUME NEW r \in Requests, TakeOrQueue(r)
      PROVE  PipelineTypeOK'
  BY <1>2 DEF TakeOrQueue, requestVars, PipelineTypeOK
<1>3. ASSUME NEW r \in Requests, Restored(r)
      PROVE  PipelineTypeOK'
  BY <1>3 DEF Restored, requestVars, PipelineTypeOK
<1>4. ASSUME NEW r \in Requests, SlotTimeout(r) \/ Cancelled(r)
      PROVE  PipelineTypeOK'
  BY <1>4, EndType DEF SlotTimeout, Cancelled
<1>5. ASSUME NEW r \in Requests, ChatFailed(r)
      PROVE  PipelineTypeOK'
  <2>1. CASE failed[r] = Nobody
    <3>1. Backend(r) \in Backends
      BY <1>5, BackendKnown DEF ChatFailed, Dispatched
    <3>2. QED
      BY <1>0, <1>5, <2>1, <3>1 DEF ChatFailed, PipelineTypeOK
  <2>2. CASE failed[r] # Nobody
    BY <1>5, <2>2, EndType DEF ChatFailed
  <2>3. QED
    BY <2>1, <2>2
<1>6. ASSUME NEW r \in Requests, Retry(r)
      PROVE  PipelineTypeOK'
  <2>1. CASE End(r)
    BY <2>1, EndType
  <2>2. CASE phase' = [phase EXCEPT ![r] = "chat"] /\ UNCHANGED <<kind, failed, tries, kv>>
    BY <1>0, <2>2 DEF PipelineTypeOK
  <2>3. QED
    BY <1>6, <2>1, <2>2 DEF Retry
<1>7. ASSUME NEW r \in Requests, ChatRejected(r) \/ StreamRefused(r)
      PROVE  PipelineTypeOK'
  BY <1>7, EndType DEF ChatRejected, StreamRefused
<1>8. ASSUME NEW r \in Requests, JsonAnswered(r)
      PROVE  PipelineTypeOK'
  <2>1. CASE kind[r].big /\ SavesKv(r)
    BY <1>0, <1>8, <2>1 DEF JsonAnswered, PipelineTypeOK
  <2>2. CASE ~(kind[r].big /\ SavesKv(r))
    BY <1>8, <2>2, EndType DEF JsonAnswered
  <2>3. QED
    BY <2>1, <2>2
<1>9. ASSUME NEW r \in Requests, StreamStarted(r)
      PROVE  PipelineTypeOK'
  BY <1>0, <1>9 DEF StreamStarted, PipelineTypeOK
<1>10. ASSUME NEW r \in Requests, StreamEnded(r)
       PROVE  PipelineTypeOK'
  <2>1. CASE SavesKv(r)
    BY <1>0, <1>10, <2>1 DEF StreamEnded, PipelineTypeOK
  <2>2. CASE ~SavesKv(r)
    BY <1>10, <2>2, EndType DEF StreamEnded
  <2>3. QED
    BY <2>1, <2>2
<1>11. ASSUME NEW r \in Requests, NEW answer \in SaveAnswers, SaveAnswered(r, answer)
       PROVE  PipelineTypeOK'
  <2>1. CASE answer # "saved" /\ tries[r] < SaveRetries
    <3>1. tries[r] + 1 \in 0..SaveRetries
      BY <2>1, PipelineAssumption DEF PipelineTypeOK
    <3>2. QED
      BY <1>11, <2>1, <3>1 DEF SaveAnswered, PipelineTypeOK
  <2>2. CASE ~(answer # "saved" /\ tries[r] < SaveRetries)
    BY <1>11, <2>2, EndType DEF SaveAnswered
  <2>3. QED
    BY <2>1, <2>2
<1>12. ASSUME Environment \/ UNCHANGED vars
       PROVE  PipelineTypeOK'
  BY <1>12 DEF Environment, vars, requestVars, PipelineTypeOK
<1>13. QED
  BY <1>1, <1>2, <1>3, <1>4, <1>5, <1>6, <1>7, <1>8, <1>9, <1>10, <1>11, <1>12
     DEF Next, Step

--------------------------------------------------------------------------------
(* What a request's step does to the other requests.                         *)

\* In the pool another request only moves when the permit it waits for is
\* passed to it.
LEMMA OthersInPool ==
  ASSUME PoolInv, NEW q \in Requests, NEW r \in Requests, q # r,
         RequestNext(q) \/ UNCHANGED poolVars
  PROVE  /\ slot'[r] = slot[r]
         /\ restore'[r] = restore[r]
         /\ \/ stage'[r] = stage[r]
            \/ stage[r] = "waiting" /\ stage'[r] = Granted(r)
<1>1. TypeOK /\ SlotKnown /\ WaitersQueued
  BY DEF PoolInv, PermitInv
<1>2. ASSUME InUse(q), DropPermit(q)
      PROVE  /\ slot'[r] = slot[r]
             /\ restore'[r] = restore[r]
             /\ \/ stage'[r] = stage[r]
                \/ stage[r] = "waiting" /\ stage'[r] = Granted(r)
  <2>1. slot[q] \in Slots
    BY <1>1, <1>2, InPoolHasSlot DEF InUse
  <2>2. slot'[r] = slot[r] /\ restore'[r] = restore[r]
    BY <1>1, <1>2 DEF DropPermit, Forget, TypeOK
  <2>3. CASE queue[slot[q]] = <<>>
    BY <1>1, <1>2, <2>2, <2>3 DEF DropPermit, TypeOK
  <2>4. CASE queue[slot[q]] # <<>>
    <3>1. /\ Head(queue[slot[q]]) \in Requests
          /\ stage[Head(queue[slot[q]])] = "waiting"
      BY <1>1, <2>1, <2>4, HeadWaits
    <3>2. stage' = [stage EXCEPT ![q] = "out",
                      ![Head(queue[slot[q]])] = Granted(Head(queue[slot[q]]))]
      BY <1>2, <2>4 DEF DropPermit
    <3>3. QED
      BY <1>1, <2>2, <3>1, <3>2 DEF TypeOK
  <2>5. QED
    BY <2>3, <2>4
<1>3. ASSUME LeaveQueue(q)
      PROVE  slot'[r] = slot[r] /\ restore'[r] = restore[r] /\ stage'[r] = stage[r]
  BY <1>1, <1>3 DEF LeaveQueue, Forget, TypeOK
<1>4. CASE \/ \E excluded \in Backends \cup {Nobody}, want \in BOOLEAN :
                Acquire(q, SlotsOf(Backends \ {excluded}), want)
           \/ Enter(q)
           \/ RestoreDone(q)
           \/ Answered(q)
  BY <1>1, <1>4 DEF Acquire, Enter, RestoreDone, Answered, TypeOK
<1>5. CASE Timeout(q) \/ Abandon(q)
  BY <1>2, <1>3, <1>5 DEF Timeout, Abandon, InUse
<1>6. CASE \E verdict \in Verdicts, used \in BOOLEAN : GiveBack(q, verdict, used)
  BY <1>2, <1>6 DEF GiveBack, InUse
<1>7. CASE UNCHANGED poolVars
  BY <1>7 DEF poolVars
<1>8. QED
  BY <1>4, <1>5, <1>6, <1>7 DEF RequestNext

\* In the pipeline it does not move at all, and no slot loses its prompt except
\* the one the step's request works on and those that hold that request's own.
LeavesAlone(q, r) ==
  /\ phase'[r] = phase[r]
  /\ failed'[r] = failed[r]
  /\ \A s \in Slots : kv'[s] = kv[s] \/ kv[s] = q \/ (InUse(q) /\ s = slot[q])

\* A request changes nothing that another request relies on.
LEMMA OthersInPipeline ==
  ASSUME PoolInv, PipelineTypeOK, NEW q \in Requests, NEW r \in Requests, q # r,
         \/ \E k \in Workload : Arrive(q, k)
         \/ Step(q)
         \/ StreamEnded(q)
         \/ Cancelled(q)
  PROVE  LeavesAlone(q, r)
<1>1. ASSUME End(q)
      PROVE  LeavesAlone(q, r)
  BY <1>1 DEF End, LeavesAlone, PipelineTypeOK
<1>2. ASSUME NEW x, phase' = [phase EXCEPT ![q] = x],
             failed' = failed \/ failed' = [failed EXCEPT ![q] = Backend(q)],
             kv' = kv \/ (InUse(q) /\ \E y : kv' = [kv EXCEPT ![slot[q]] = y])
      PROVE  LeavesAlone(q, r)
  BY <1>2 DEF LeavesAlone, PipelineTypeOK
<1>3. ASSUME \E k \in Workload : Arrive(q, k)
      PROVE  LeavesAlone(q, r)
  BY <1>2, <1>3 DEF Arrive
<1>4. ASSUME TakeOrQueue(q) \/ Restored(q)
      PROVE  LeavesAlone(q, r)
  <2>1. Restored(q) => InUse(q)
    BY DEF Restored, RestoreDone, InUse
  <2>2. QED
    BY <1>4, <2>1 DEF TakeOrQueue, Restored, requestVars, LeavesAlone, PipelineTypeOK
<1>5. ASSUME ChatFailed(q)
      PROVE  LeavesAlone(q, r)
  <2>1. InUse(q)
    BY <1>5 DEF ChatFailed, Dispatched, InUse
  <2>2. QED
    BY <1>1, <1>2, <1>5, <2>1 DEF ChatFailed
<1>6. ASSUME Retry(q)
      PROVE  LeavesAlone(q, r)
  BY <1>1, <1>2, <1>6 DEF Retry
<1>7. ASSUME JsonAnswered(q) \/ StreamStarted(q)
      PROVE  LeavesAlone(q, r)
  <2>1. InUse(q)
    BY <1>7 DEF JsonAnswered, StreamStarted, Dispatched, InUse
  <2>2. QED
    BY <1>1, <1>2, <1>7, <2>1 DEF JsonAnswered, StreamStarted
<1>8. ASSUME StreamEnded(q)
      PROVE  LeavesAlone(q, r)
  BY <1>1, <1>2, <1>8 DEF StreamEnded
<1>9. ASSUME NEW answer \in SaveAnswers, SaveAnswered(q, answer)
      PROVE  LeavesAlone(q, r)
  BY <1>1, <1>9 DEF SaveAnswered, LeavesAlone
<1>10. ASSUME SlotTimeout(q) \/ ChatRejected(q) \/ StreamRefused(q) \/ Cancelled(q)
       PROVE  LeavesAlone(q, r)
  BY <1>1, <1>10 DEF SlotTimeout, ChatRejected, StreamRefused, Cancelled
<1>11. QED
  BY <1>3, <1>4, <1>5, <1>6, <1>7, <1>8, <1>9, <1>10 DEF Step

\* So the others keep what they know,
LEMMA OthersStayOK ==
  ASSUME PipelineInv, NEW q \in Requests, NEW r \in Requests, q # r,
         \/ \E k \in Workload : Arrive(q, k)
         \/ Step(q)
         \/ StreamEnded(q)
         \/ Cancelled(q)
  PROVE  RequestOK(r)'
<1>1. PoolInv /\ PipelineTypeOK /\ RequestOK(r) /\ PermitOwned
  BY DEF PipelineInv, PoolInv, PermitInv
<1>2. /\ slot'[r] = slot[r] /\ restore'[r] = restore[r]
      /\ \/ stage'[r] = stage[r]
         \/ stage[r] = "waiting" /\ stage'[r] = Granted(r)
  BY <1>1, RequestUsesPool, OthersInPool
<1>3. /\ phase'[r] = phase[r] /\ failed'[r] = failed[r]
      /\ \A s \in Slots : kv'[s] = kv[s] \/ kv[s] = q \/ (InUse(q) /\ s = slot[q])
  BY <1>1, OthersInPipeline DEF LeavesAlone
<1>4. (Backend(r))' = Backend(r) /\ (SavesKv(r))' = SavesKv(r)
  BY <1>2 DEF Backend, SavesKv
<1>5. stage'[r] = "out" <=> stage[r] = "out"
  BY <1>2 DEF Granted
<1>6. stage'[r] = "restoring" => restore'[r]
  BY <1>1, <1>2 DEF Granted, RequestOK
<1>7. ASSUME phase[r] \in {"stream", "save"}
      PROVE  stage'[r] = "held" /\ kv'[slot'[r]] = r
  <2>1. stage[r] = "held" /\ kv[slot[r]] = r
    BY <1>1, <1>7 DEF RequestOK
  <2>2. slot[r] \in Slots
    BY <1>1, <2>1, BackendKnown
  <2>3. ~(InUse(q) /\ slot[r] = slot[q])
    <3>1. holder[slot[r]] = r
      BY <1>1, <2>1, <2>2 DEF PermitOwned, InUse
    <3>2. QED
      BY <1>1, <2>2, <3>1 DEF PermitOwned
  <2>4. kv'[slot[r]] = r
    BY <1>3, <2>1, <2>2, <2>3
  <2>5. QED
    BY <1>2, <2>1, <2>4
<1>8. QED
  BY <1>1, <1>2, <1>3, <1>4, <1>5, <1>6, <1>7 DEF RequestOK

--------------------------------------------------------------------------------
(* What a step does to its own request.                                      *)

\* A picked slot is one of the allowed ones, and one whose backend has kv_cache
\* if the restore key is kept.
LEMMA PicksKv ==
  ASSUME NEW allowed \in SUBSET Slots, NEW want, NEW p \in Picks(allowed, want)
  PROVE  p[1] \in allowed /\ (p[2] => p[1] \in SlotsOf(KvBackends))
<1> DEFINE kvSlots == PickFiltered(allowed \cap SlotsOf(KvBackends))
<1>1. \A a \in SUBSET Slots : PickFiltered(a) \subseteq a
  BY DEF PickFiltered, Eligible
<1>2. kvSlots \subseteq SlotsOf(KvBackends)
  BY <1>1
<1>3. p \in kvSlots \X {TRUE} \/ p \in PickFiltered(allowed) \X {FALSE}
  BY DEF Picks
<1>. HIDE DEF kvSlots
<1>4. QED
  BY <1>2, <1>3, PicksType

\* A request that gives its permit back is out of the pool.
LEMMA DropPermitLeaves ==
  ASSUME PoolInv, NEW r \in Requests, InUse(r), DropPermit(r)
  PROVE  stage'[r] = "out" /\ restore'[r] = FALSE
<1>1. TypeOK /\ WaitersQueued /\ slot[r] \in Slots
  BY InPoolHasSlot DEF PoolInv, PermitInv, InUse
<1>2. CASE queue[slot[r]] = <<>>
  BY <1>1, <1>2 DEF DropPermit, Forget, TypeOK
<1>3. CASE queue[slot[r]] # <<>>
  <2>1. Head(queue[slot[r]]) # r /\ Head(queue[slot[r]]) \in Requests
    BY <1>1, <1>3, HeadWaits DEF InUse
  <2>2. stage' = [stage EXCEPT ![r] = "out",
                    ![Head(queue[slot[r]])] = Granted(Head(queue[slot[r]]))]
    BY <1>3 DEF DropPermit
  <2>3. QED
    BY <1>1, <2>1, <2>2 DEF DropPermit, Forget, TypeOK
<1>4. QED
  BY <1>2, <1>3

\* A request that has ended and left the pool is as it was before it came.
LEMMA EndedOK ==
  ASSUME PipelineTypeOK, NEW r \in Requests, End(r), stage'[r] = "out"
  PROVE  RequestOK(r)'
<1>1. phase'[r] = "idle" /\ failed'[r] = Nobody
  BY DEF End, PipelineTypeOK
<1>2. QED
  BY <1>1 DEF RequestOK

\* A request that gets a slot and is not excluded from its backend.
LEMMA AcquiredOK ==
  ASSUME PipelineInv, NEW r \in Requests, NEW allowed \in SUBSET Slots, NEW want,
         Acquire(r, allowed, want),
         \A s \in allowed : failed[r] # Nobody => BackendOf[s] # failed[r],
         phase' = [phase EXCEPT ![r] = "chat"], failed' = failed
  PROVE  RequestOK(r)'
<1>1. TypeOK /\ PipelineTypeOK
  BY DEF PipelineInv, PoolInv
<1>2. PICK p \in Picks(allowed, want) :
        /\ slot' = [slot EXCEPT ![r] = p[1]]
        /\ restore' = [restore EXCEPT ![r] = p[2]]
  BY DEF Acquire
<1>3. p[1] \in allowed /\ (p[2] => p[1] \in SlotsOf(KvBackends))
  BY PicksKv
<1>4. slot'[r] = p[1] /\ restore'[r] = p[2] /\ stage'[r] = "picked" /\ phase'[r] = "chat"
  BY <1>1, <1>2 DEF Acquire, TypeOK, PipelineTypeOK
<1>5. p[2] => BackendOf[p[1]] \in KvBackends
  BY <1>3 DEF SlotsOf
<1>6. QED
  BY <1>3, <1>4, <1>5 DEF RequestOK, Backend, SavesKv

\* A request that keeps its slot, its failed backend and its place in the pool.
LEMMA GoneOnOK ==
  ASSUME PipelineInv, NEW r \in Requests,
         UNCHANGED <<stage, slot, restore, failed>>,
         stage[r] = "held",
         phase'[r] \in {"chat", "stream", "save"},
         phase'[r] # "chat" => kv'[slot[r]] = r,
         phase'[r] = "save" => SavesKv(r)
  PROVE  RequestOK(r)'
<1>1. RequestOK(r)
  BY DEF PipelineInv
<1>2. (Backend(r))' = Backend(r) /\ (SavesKv(r))' = SavesKv(r)
  BY DEF Backend, SavesKv
<1>3. QED
  BY <1>1, <1>2 DEF RequestOK

\* and the request that moves knows it anew.
LEMMA OwnStepOK ==
  ASSUME PipelineInv, NEW r \in Requests,
         \/ \E k \in Workload : Arrive(r, k)
         \/ Step(r)
         \/ StreamEnded(r)
         \/ Cancelled(r)
  PROVE  RequestOK(r)'
<1>1. PoolInv /\ PipelineTypeOK /\ RequestOK(r) /\ TypeOK
  BY DEF PipelineInv, PoolInv
<1>2. ASSUME stage[r] # "out"
      PROVE  slot[r] \in Slots /\ Backend(r) \in Backends /\ Backend(r) # Nobody
  BY <1>1, <1>2, BackendKnown, PoolAssumption
<1>3. ASSUME NEW verdict, NEW used, GiveBack(r, verdict, used)
      PROVE  stage'[r] = "out"
  BY <1>1, <1>3, DropPermitLeaves DEF GiveBack, InUse
<1>4. ASSUME NEW k \in Workload, Arrive(r, k)
      PROVE  RequestOK(r)'
  <2>1. failed[r] = Nobody
    BY <1>1, <1>4 DEF Arrive, RequestOK
  <2>2. QED
    BY <1>4, <2>1, AcquiredOK DEF Arrive
<1>5. ASSUME TakeOrQueue(r)
      PROVE  RequestOK(r)'
  <2>1. /\ stage[r] = "picked" /\ phase'[r] = phase[r] /\ failed'[r] = failed[r]
        /\ slot'[r] = slot[r] /\ restore'[r] = restore[r]
    BY <1>5 DEF TakeOrQueue, Enter, requestVars
  <2>2. stage'[r] \in {Granted(r), "waiting"}
    BY <1>1, <1>5 DEF TakeOrQueue, Enter, TypeOK
  <2>3. stage'[r] # "out" /\ (stage'[r] = "restoring" => restore[r])
    BY <2>2 DEF Granted
  <2>4. (Backend(r))' = Backend(r) /\ (SavesKv(r))' = SavesKv(r)
    BY <2>1 DEF Backend, SavesKv
  <2>5. QED
    BY <1>1, <2>1, <2>3, <2>4 DEF RequestOK
<1>6. ASSUME Restored(r)
      PROVE  RequestOK(r)'
  <2>1. /\ stage[r] = "restoring" /\ phase'[r] = phase[r] /\ failed'[r] = failed[r]
        /\ slot'[r] = slot[r] /\ restore'[r] = restore[r] /\ stage'[r] = "held"
    BY <1>1, <1>6 DEF Restored, RestoreDone, requestVars, TypeOK
  <2>2. (Backend(r))' = Backend(r) /\ (SavesKv(r))' = SavesKv(r)
    BY <2>1 DEF Backend, SavesKv
  <2>3. QED
    BY <1>1, <2>1, <2>2 DEF RequestOK
<1>7. ASSUME SlotTimeout(r)
      PROVE  RequestOK(r)'
  <2>1. stage'[r] = "out"
    BY <1>1, <1>7 DEF SlotTimeout, Timeout, LeaveQueue, TypeOK
  <2>2. QED
    BY <1>1, <1>7, <2>1, EndedOK DEF SlotTimeout
<1>8. ASSUME Cancelled(r)
      PROVE  RequestOK(r)'
  <2>1. stage'[r] = "out"
    <3>1. CASE stage[r] \in {"restoring", "held"} /\ DropPermit(r)
      BY <1>1, <3>1, DropPermitLeaves DEF InUse
    <3>2. CASE stage[r] = "waiting" /\ LeaveQueue(r)
      BY <1>1, <3>2 DEF LeaveQueue, TypeOK
    <3>3. QED
      BY <1>8, <3>1, <3>2 DEF Cancelled, Abandon
  <2>2. QED
    BY <1>1, <1>8, <2>1, EndedOK DEF Cancelled
<1>9. ASSUME ChatFailed(r)
      PROVE  RequestOK(r)'
  <2>1. stage'[r] = "out" /\ stage[r] # "out"
    BY <1>3, <1>9 DEF ChatFailed, Dispatched
  <2>2. CASE failed[r] = Nobody
    <3>1. phase'[r] = "retry" /\ failed'[r] = Backend(r) /\ failed'[r] # Nobody
      BY <1>1, <1>2, <1>9, <2>1, <2>2 DEF ChatFailed, PipelineTypeOK
    <3>2. QED
      BY <2>1, <3>1 DEF RequestOK
  <2>3. CASE failed[r] # Nobody
    BY <1>1, <1>9, <2>1, <2>3, EndedOK DEF ChatFailed
  <2>4. QED
    BY <2>2, <2>3
<1>10. ASSUME Retry(r)
       PROVE  RequestOK(r)'
  <2> DEFINE others == SlotsOf(Backends \ {failed[r]})
  <2>1. CASE Acquire(r, others, kind[r].candidate)
    <3>1. others \in SUBSET Slots /\ \A s \in others : BackendOf[s] # failed[r]
      BY DEF SlotsOf
    <3>2. phase' = [phase EXCEPT ![r] = "chat"] /\ failed' = failed
      <4>1. ~UNCHANGED poolVars
        BY <1>1, <2>1 DEF Acquire, TypeOK, poolVars
      <4>2. QED
        BY <1>10, <4>1 DEF Retry
    <3>. HIDE DEF others
    <3>3. QED
      BY <2>1, <3>1, <3>2, AcquiredOK
  <2>2. CASE End(r) /\ UNCHANGED poolVars
    <3>1. stage'[r] = "out"
      BY <1>1, <1>10, <2>2 DEF Retry, RequestOK, poolVars
    <3>2. QED
      BY <1>1, <2>2, <3>1, EndedOK
  <2>3. QED
    BY <1>10, <2>1, <2>2 DEF Retry
<1>11. ASSUME ChatRejected(r) \/ StreamRefused(r)
       PROVE  RequestOK(r)'
  BY <1>1, <1>3, <1>11, EndedOK DEF ChatRejected, StreamRefused
<1>12. ASSUME JsonAnswered(r)
       PROVE  RequestOK(r)'
  <2>1. stage[r] = "held" /\ slot[r] \in Slots
    BY <1>2, <1>12 DEF JsonAnswered, Dispatched
  <2>2. CASE kind[r].big /\ SavesKv(r)
    <3>1. phase'[r] = "save" /\ kv'[slot[r]] = r /\ UNCHANGED <<stage, slot, restore, failed>>
      BY <1>1, <1>12, <2>1, <2>2 DEF JsonAnswered, Answered, PipelineTypeOK
    <3>2. QED
      BY <2>1, <2>2, <3>1, GoneOnOK
  <2>3. CASE ~(kind[r].big /\ SavesKv(r))
    BY <1>1, <1>3, <1>12, <2>3, EndedOK DEF JsonAnswered
  <2>4. QED
    BY <2>2, <2>3
<1>13. ASSUME StreamStarted(r)
       PROVE  RequestOK(r)'
  <2>1. stage[r] = "held" /\ slot[r] \in Slots
    BY <1>2, <1>13 DEF StreamStarted, Dispatched
  <2>2. phase'[r] = "stream" /\ kv'[slot[r]] = r /\ UNCHANGED <<stage, slot, restore, failed>>
    BY <1>1, <1>13, <2>1 DEF StreamStarted, poolVars, PipelineTypeOK
  <2>3. QED
    BY <2>1, <2>2, GoneOnOK
<1>14. ASSUME StreamEnded(r)
       PROVE  RequestOK(r)'
  <2>1. stage[r] = "held" /\ kv[slot[r]] = r
    BY <1>1, <1>14 DEF StreamEnded, RequestOK
  <2>2. CASE SavesKv(r)
    <3>1. phase'[r] = "save" /\ kv' = kv /\ UNCHANGED <<stage, slot, restore, failed>>
      BY <1>1, <1>14, <2>2 DEF StreamEnded, poolVars, PipelineTypeOK
    <3>2. QED
      BY <2>1, <2>2, <3>1, GoneOnOK
  <2>3. CASE ~SavesKv(r)
    BY <1>1, <1>3, <1>14, <2>3, EndedOK DEF StreamEnded
  <2>4. QED
    BY <2>2, <2>3
<1>15. ASSUME NEW answer \in SaveAnswers, SaveAnswered(r, answer)
       PROVE  RequestOK(r)'
  <2>1. phase[r] = "save" /\ stage[r] = "held" /\ kv[slot[r]] = r /\ SavesKv(r)
    BY <1>1, <1>15 DEF SaveAnswered, RequestOK
  <2>2. CASE answer # "saved" /\ tries[r] < SaveRetries
    <3>1. UNCHANGED <<phase, kv, stage, slot, restore, failed>>
      BY <1>15, <2>2 DEF SaveAnswered, poolVars
    <3>2. QED
      BY <2>1, <3>1, GoneOnOK
  <2>3. CASE ~(answer # "saved" /\ tries[r] < SaveRetries)
    BY <1>1, <1>3, <1>15, <2>3, EndedOK DEF SaveAnswered
  <2>4. QED
    BY <2>2, <2>3
<1>16. QED
  BY <1>4, <1>5, <1>6, <1>7, <1>8, <1>9, <1>10, <1>11, <1>12, <1>13, <1>14, <1>15
     DEF Step

--------------------------------------------------------------------------------
(* The invariant holds.                                                      *)

\* Every step keeps the invariant.
LEMMA PipelineInvNext == PipelineInv /\ [Next]_vars => PipelineInv'
<1> SUFFICES ASSUME PipelineInv, [Next]_vars PROVE PipelineInv'
  OBVIOUS
<1>1. PoolInv /\ RanksInv /\ PipelineTypeOK /\ \A r \in Requests : RequestOK(r)
  BY DEF PipelineInv
<1>2. [PoolNext]_poolVars
  BY <1>1, StepUsesPool
<1>3. PoolInv' /\ RanksInv'
  BY <1>1, <1>2, PoolInvNext, RanksInvNext
<1>4. PipelineTypeOK'
  BY <1>1, PipelineTypeNext
<1>5. ASSUME NEW r \in Requests
      PROVE  RequestOK(r)'
  <2>1. ASSUME NEW q \in Requests,
               \/ \E k \in Workload : Arrive(q, k)
               \/ Step(q)
               \/ StreamEnded(q)
               \/ Cancelled(q)
        PROVE  RequestOK(r)'
    BY <2>1, OwnStepOK, OthersStayOK
  <2>2. ASSUME Environment \/ UNCHANGED vars
        PROVE  RequestOK(r)'
    <3>1. UNCHANGED <<phase, failed, kv, stage, slot, restore>>
      BY <2>2 DEF Environment, ProbeStart, ProbeAnswer, Tick, requestVars, vars, poolVars
    <3>2. (Backend(r))' = Backend(r) /\ (SavesKv(r))' = SavesKv(r)
      BY <3>1 DEF Backend, SavesKv
    <3>3. QED
      BY <1>1, <3>1, <3>2 DEF RequestOK
  <2>3. QED
    BY <2>1, <2>2 DEF Next
<1>6. QED
  BY <1>3, <1>4, <1>5 DEF PipelineInv

\* The inductive invariant holds throughout, whatever the backends answer and
\* whichever clients leave.
THEOREM PipelineInvariant == Spec => []PipelineInv
<1>1. Init => PipelineInv
  BY PipelineInvInit
<1>2. PipelineInv /\ [Next]_vars => PipelineInv'
  BY PipelineInvNext
<1>3. QED
  BY <1>1, <1>2, PTL DEF Spec

\* Phases, attempts and the content of the slots stay in their ranges.
THEOREM PipelineTypeCorrect == Spec => []PipelineTypeOK
<1>1. PipelineInv => PipelineTypeOK
  BY DEF PipelineInv
<1>2. QED
  BY <1>1, PipelineInvariant, PTL

--------------------------------------------------------------------------------
(* What the pipeline guarantees.                                             *)

\* Whatever the outcomes of the backend calls and the moments at which clients
\* leave, a request only makes the calls of the pool that SlotManager.tla allows
\* its callers, in the states in which it allows them.
THEOREM PipelineUsesPool == Spec => UsesPoolAsSpecified
<1>1. Init => PoolInit
  BY DEF Init
<1>2. PipelineInv /\ [Next]_vars => [PoolNext]_poolVars
  BY StepUsesPool DEF PipelineInv
<1>3. QED
  BY <1>1, <1>2, PipelineInvariant, PTL DEF Spec, UsesPoolAsSpecified, PoolSpec

\* So all that is proved of the pool holds under the pipeline: above all the
\* promise of one owner per slot and one slot per request.
THEOREM PipelineKeepsPromise == Spec => PoolKeepsPromise /\ []PermitOwned
<1>1. QED
  BY PipelineUsesPool, PoolRefinement, PermitsExclusive, PTL DEF UsesPoolAsSpecified

\* A KV file never holds another conversation than its meta file describes:
\* from the chat to the last answer of the save the slot is not used by others.
THEOREM SavedPromptIsOwn == Spec => []SavesOwnPrompt
<1>1. PipelineInv => SavesOwnPrompt
  <2> SUFFICES ASSUME PipelineInv, NEW r \in Requests, phase[r] = "save"
               PROVE  kv[slot[r]] = r /\ holder[slot[r]] = r
    BY DEF SavesOwnPrompt
  <2>1. PoolInv /\ PermitOwned /\ RequestOK(r)
    BY DEF PipelineInv, PoolInv, PermitInv
  <2>2. kv[slot[r]] = r /\ stage[r] = "held"
    BY <2>1 DEF RequestOK
  <2>3. slot[r] \in Slots
    BY <2>1, <2>2, BackendKnown
  <2>4. QED
    BY <2>1, <2>2, <2>3 DEF PermitOwned, InUse
<1>2. QED
  BY <1>1, PipelineInvariant, PTL

\* The retry never uses the backend on which the first attempt failed.
THEOREM RetryAvoidsFailed == Spec => []RetryElsewhere
<1>1. PipelineInv => RetryElsewhere
  BY DEF PipelineInv, RequestOK, RetryElsewhere
<1>2. QED
  BY <1>1, PipelineInvariant, PTL

\* Backends without kv_cache never get a request for their slot endpoints.
THEOREM SlotCallsOnlyWithKv == Spec => []SlotCallsNeedKv
<1>1. PipelineInv => SlotCallsNeedKv
  BY DEF PipelineInv, RequestOK, SlotCallsNeedKv
<1>2. QED
  BY <1>1, PipelineInvariant, PTL

\* No path of the pipeline keeps a permit after the request's answer or gives
\* it back while a stream or a save still uses the slot.
THEOREM PhasesMatchPool == Spec => []PoolUseMatchesPhase
<1>1. PipelineInv => PoolUseMatchesPhase
  BY DEF PipelineInv, RequestOK, PoolUseMatchesPhase
<1>2. QED
  BY <1>1, PipelineInvariant, PTL

\* Giving a slot back as used puts it behind every other idle eligible slot.
LEMMA UsedSlotYields ==
  ASSUME PoolInv, RanksInv, NEW r \in Requests, NEW s, s = slot[r], NEW verdict,
         GiveBack(r, verdict, TRUE),
         NEW t \in Eligible(Slots)', t # s, holder'[t] = Nobody
  PROVE  s \notin PickFiltered(Slots)'
<1> DEFINE eligible == Eligible(Slots)'
           idle == {u \in eligible : Idle(u)'}
<1>1. s \in Slots /\ stage[r] = "held"
  BY BackendKnown DEF GiveBack
<1>2. t \in idle /\ t \in Slots
  BY DEF Eligible, Idle
<1>3. PickFiltered(Slots)' = {u \in idle : \A v \in idle \ {u} : UsedBefore(u, v)'}
  BY <1>2 DEF PickFiltered
<1>4. last_used'[s] = NSlots /\ last_used'[t] < NSlots
  <2>1. MarkUsed(s)
    BY DEF GiveBack, Touch
  <2>2. QED
    BY <1>1, <1>2, <2>1, MarkUsedKeepsOrder
<1>5. last_used'[t] \in Nat /\ NSlots \in Nat
  <2>1. last_used' \in [Slots -> 0..NSlots]
    BY <1>1, MarkUsedType DEF GiveBack, Touch, PoolInv
  <2>2. QED
    BY <1>2, <2>1, PoolAssumption
<1>6. ~UsedBefore(s, t)'
  BY <1>4, <1>5 DEF UsedBefore
<1>. HIDE DEF idle
<1>7. QED
  BY <1>2, <1>3, <1>6

\* Neither a dead backend nor one that rejects every request draws all traffic:
\* the slot of a failed attempt is not the next choice while another is idle.
THEOREM FailedSlotYields == Spec => FailureYieldsSlot
<1>1. ASSUME PipelineInv, NEW r \in Requests,
             ChatFailed(r) \/ ChatRejected(r) \/ StreamRefused(r),
             NEW t \in Eligible(Slots)', t # slot[r], holder'[t] = Nobody
      PROVE  slot[r] \notin PickFiltered(Slots)'
  <2>1. \E verdict : GiveBack(r, verdict, TRUE)
    BY <1>1 DEF ChatFailed, ChatRejected, StreamRefused
  <2>2. QED
    BY <1>1, <2>1, UsedSlotYields DEF PipelineInv
<1>2. PipelineInv => \A r \in Requests :
        (ChatFailed(r) \/ ChatRejected(r) \/ StreamRefused(r))
        /\ (\E t \in Eligible(Slots)' : t # slot[r] /\ holder'[t] = Nobody)
          => slot[r] \notin PickFiltered(Slots)'
  BY <1>1
<1>3. QED
  BY <1>2, PipelineInvariant, PTL DEF FailureYieldsSlot
================================================================================
