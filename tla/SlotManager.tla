------------------------------ MODULE SlotManager ------------------------------
(***************************************************************************)
(* The slot pool of the proxy: src/src/slot_manager.rs.                    *)
(*                                                                         *)
(* Every llama.cpp slot is guarded by a semaphore of one permit.  A caller *)
(* first picks a slot (circuit breaker, idleness, least recent use), then  *)
(* takes or queues for that slot's permit, optionally restores a KV file   *)
(* into it while it holds the permit, works, and gives the permit back.    *)
(* Picking and taking are two steps: the pick reads shared atomics and the *)
(* semaphore is polled later, so other callers run between the two.        *)
(*                                                                         *)
(* The callers are the most general ones: whatever a holder may legally do *)
(* with the manager is a step here.  Pipeline.tla is the caller the code   *)
(* has, and its steps are shown to be steps of this module.                *)
(*                                                                         *)
(* Abstractions of data.  The timestamps `last_used' keep only what the    *)
(* code compares, their order: a rank in 0..NSlots, 0 for "never used".    *)
(* `down_until' is kept as the time left until it, in units in which the   *)
(* base cooldown is BaseCooldown.  A failure streak saturates at StreakCap,*)
(* above which the cooldown it selects no longer changes.                  *)
(***************************************************************************)
EXTENDS Integers, SequencesExt

CONSTANTS
  Requests,      \* the chat requests that use the pool
  Nobody,        \* holder of a free permit
  Backends,      \* the configured llama-server backends
  NSlots,        \* number of slots of all backends together
  BackendOf,     \* the backend of each slot, in the order of `all'
  KvBackends,    \* the backends configured with kv_cache
  BaseCooldown,  \* backend_cooldown
  MaxCooldown,   \* MAX_BACKEND_COOLDOWN
  StreakCap      \* streaks from this one on select the same cooldown

Slots == 1..NSlots

\* No slot: `slot' of a request that uses none.
NoSlot == 0

\* The doubling of the cooldown: 1u32 << (streak - 1).min(4).
Doubling == <<1, 2, 4, 8, 16>>

ASSUME PoolAssumption ==
  /\ NSlots \in Nat \ {0}
  /\ BackendOf \in [Slots -> Backends]
  /\ KvBackends \subseteq Backends
  /\ Nobody \notin Requests \cup Backends

ASSUME CooldownAssumption ==
  /\ BaseCooldown \in Nat \ {0}
  /\ MaxCooldown \in Nat \ {0}
  /\ StreakCap \in 1..5
  /\ StreakCap = 5 \/ BaseCooldown * Doubling[StreakCap] >= MaxCooldown

VARIABLES
  holder,     \* sems: who owns the permit of each slot, or Nobody
  queue,      \* sems: the callers waiting for each permit, in FIFO order
  last_used,  \* recency rank of each slot, 0 = never used
  down,       \* time left until down_until, 0 = not in cooldown
  streak,     \* failure_streak, saturated at StreakCap
  probing,    \* the backend whose probe answer is awaited, or Nobody
  stage,      \* how far each request's use of the pool has come
  slot,       \* the slot a request has picked, waits for or holds
  restore     \* whether the request still carries its restore key

poolVars == <<holder, queue, last_used, down, streak, probing,
              stage, slot, restore>>

Stages == {"out", "picked", "waiting", "restoring", "held"}

TypeOK ==
  /\ holder \in [Slots -> Requests \cup {Nobody}]
  /\ queue \in [Slots -> Seq(Requests)]
  /\ last_used \in [Slots -> 0..NSlots]
  /\ down \in [Backends -> 0..MaxCooldown]
  /\ streak \in [Backends -> 0..StreakCap]
  /\ probing \in Backends \cup {Nobody}
  /\ stage \in [Requests -> Stages]
  /\ slot \in [Requests -> Slots \cup {NoSlot}]
  /\ restore \in [Requests -> BOOLEAN]

PoolInit ==
  /\ holder = [s \in Slots |-> Nobody]
  /\ queue = [s \in Slots |-> <<>>]
  /\ last_used = [s \in Slots |-> 0]
  /\ down = [b \in Backends |-> 0]
  /\ streak = [b \in Backends |-> 0]
  /\ probing = Nobody
  /\ stage = [r \in Requests |-> "out"]
  /\ slot = [r \in Requests |-> NoSlot]
  /\ restore = [r \in Requests |-> FALSE]

--------------------------------------------------------------------------------
(* Selection of a slot.                                                      *)

Up(b) == down[b] = 0

\* available_permits() > 0.  A permit given back while callers wait goes to
\* the first of them and never becomes available.
Idle(s) == holder[s] = Nobody

SlotsOf(backends) == {s \in Slots : BackendOf[s] \in backends}

\* Slots of backends in cooldown are skipped, unless every backend is in
\* cooldown: any_up looks at all backends, whatever `allowed' excludes.
Eligible(allowed) ==
  {s \in allowed : Up(BackendOf[s]) \/ \A b \in Backends : ~Up(b)}

UsedBefore(s, t) ==
  \/ last_used[s] < last_used[t]
  \/ last_used[s] = last_used[t] /\ s < t

\* The slot pick_filtered returns, as a set of at most one: among the eligible
\* slots an idle one if there is any, never used first, else least recently
\* used, the first in order among equals.  Empty when nothing is eligible.
PickFiltered(allowed) ==
  LET eligible == Eligible(allowed)
      idle     == {s \in eligible : Idle(s)}
      pool     == IF idle # {} THEN idle ELSE eligible
  IN  {s \in pool : \A t \in pool \ {s} : UsedBefore(s, t)}

\* The slot and whether the restore key is kept: a restore wants a slot of a
\* backend with kv_cache, and is dropped when no such slot is eligible.
Picks(allowed, wantRestore) ==
  LET kv == PickFiltered(allowed \cap SlotsOf(KvBackends))
  IN  IF wantRestore /\ kv # {} THEN kv \X {TRUE}
                                ELSE PickFiltered(allowed) \X {FALSE}

--------------------------------------------------------------------------------
(* Taking, waiting for and giving back a permit.                             *)

\* A caller that gets the permit restores first if it carries a restore key.
Granted(r) == IF restore[r] THEN "restoring" ELSE "held"

\* acquire and acquire_excluding up to the pick.
Acquire(r, allowed, wantRestore) ==
  /\ stage[r] = "out"
  /\ \E p \in Picks(allowed, wantRestore) :
       /\ slot' = [slot EXCEPT ![r] = p[1]]
       /\ restore' = [restore EXCEPT ![r] = p[2]]
  /\ stage' = [stage EXCEPT ![r] = "picked"]
  /\ UNCHANGED <<holder, queue, last_used, down, streak, probing>>

\* Mutant of Enter: the slot that was idle at the pick is taken without a look.
EnterUnguarded(r) ==
  /\ stage[r] = "picked"
  /\ holder' = [holder EXCEPT ![slot[r]] = r]
  /\ stage' = [stage EXCEPT ![r] = Granted(r)]
  /\ UNCHANGED <<queue, last_used, down, streak, probing, slot, restore>>

\* The first poll of acquire_owned: the permit is free, or the caller queues.
Enter(r) ==
  /\ stage[r] = "picked"
  /\ \/ /\ Idle(slot[r])
        /\ holder' = [holder EXCEPT ![slot[r]] = r]
        /\ stage' = [stage EXCEPT ![r] = Granted(r)]
        /\ UNCHANGED queue
     \/ /\ ~Idle(slot[r])
        /\ queue' = [queue EXCEPT ![slot[r]] = Append(@, r)]
        /\ stage' = [stage EXCEPT ![r] = "waiting"]
        /\ UNCHANGED holder
  /\ UNCHANGED <<last_used, down, streak, probing, slot, restore>>

\* restore_slot has answered (with any outcome), the permit is kept.
RestoreDone(r) ==
  /\ stage[r] = "restoring"
  /\ stage' = [stage EXCEPT ![r] = "held"]
  /\ UNCHANGED <<holder, queue, last_used, down, streak, probing, slot, restore>>

\* Request r leaves the pool: it forgets its slot.
Forget(r) ==
  /\ slot' = [slot EXCEPT ![r] = NoSlot]
  /\ restore' = [restore EXCEPT ![r] = FALSE]

\* Mutant of DropPermit: the permit becomes free although callers wait for it.
DropToNobody(r) ==
  /\ holder' = [holder EXCEPT ![slot[r]] = Nobody]
  /\ stage' = [stage EXCEPT ![r] = "out"]
  /\ Forget(r)
  /\ UNCHANGED queue

\* Mutant of DropPermit: the guard is forgotten without giving the permit back.
DropNothing(r) ==
  /\ stage' = [stage EXCEPT ![r] = "out"]
  /\ Forget(r)
  /\ UNCHANGED <<holder, queue>>

\* Mutant of DropPermit: the permit goes to the caller that came last.
DropToLast(r) ==
  LET s == slot[r]
  IN  /\ \/ /\ queue[s] = <<>>
            /\ holder' = [holder EXCEPT ![s] = Nobody]
            /\ stage' = [stage EXCEPT ![r] = "out"]
            /\ UNCHANGED queue
         \/ /\ queue[s] # <<>>
            /\ holder' = [holder EXCEPT ![s] = Last(queue[s])]
            /\ queue' = [queue EXCEPT ![s] = Front(@)]
            /\ stage' = [stage EXCEPT ![r] = "out",
                                      ![Last(queue[s])] = Granted(Last(queue[s]))]
      /\ Forget(r)

\* The permit of r's slot is dropped: the first waiter gets it at once.
DropPermit(r) ==
  LET s == slot[r]
  IN  /\ \/ /\ queue[s] = <<>>
            /\ holder' = [holder EXCEPT ![s] = Nobody]
            /\ stage' = [stage EXCEPT ![r] = "out"]
            /\ UNCHANGED queue
         \/ /\ queue[s] # <<>>
            /\ holder' = [holder EXCEPT ![s] = Head(queue[s])]
            /\ queue' = [queue EXCEPT ![s] = Tail(@)]
            /\ stage' = [stage EXCEPT ![r] = "out",
                                      ![Head(queue[s])] = Granted(Head(queue[s]))]
      /\ Forget(r)

\* Mutant of LeaveQueue: the first waiter is taken out instead.
LeaveAtHead(r) ==
  /\ queue' = [queue EXCEPT ![slot[r]] = Tail(@)]
  /\ stage' = [stage EXCEPT ![r] = "out"]
  /\ Forget(r)
  /\ UNCHANGED holder

\* Request r stops waiting: it leaves the queue of its slot.
LeaveQueue(r) ==
  /\ \E i \in 1..Len(queue[slot[r]]) :
       /\ queue[slot[r]][i] = r
       /\ queue' = [queue EXCEPT ![slot[r]] = RemoveAt(@, i)]
  /\ stage' = [stage EXCEPT ![r] = "out"]
  /\ Forget(r)
  /\ UNCHANGED holder

\* acquire_timeout elapsed before the permit came.
Timeout(r) ==
  /\ stage[r] = "waiting"
  /\ LeaveQueue(r)
  /\ UNCHANGED <<last_used, down, streak, probing>>

\* The future that uses the pool is dropped at one of its awaits.
Abandon(r) ==
  /\ \/ stage[r] \in {"restoring", "held"} /\ DropPermit(r)
     \/ stage[r] = "waiting" /\ LeaveQueue(r)
  /\ UNCHANGED <<last_used, down, streak, probing>>

--------------------------------------------------------------------------------
(* Circuit breaker and least-recent-use bookkeeping.                         *)

Capped(x, cap) == IF x < cap THEN x ELSE cap

Cooldown(n) == Capped(BaseCooldown * Doubling[n], MaxCooldown)

\* Mutant of ReportFailure: the cooldown starts when the last one ends, not now.
ReportFailureLater(b) ==
  LET n == Capped(streak[b] + 1, StreakCap)
  IN  /\ streak' = [streak EXCEPT ![b] = n]
      /\ down' = [down EXCEPT ![b] = @ + Cooldown(n)]

ReportFailure(b) ==
  LET n == Capped(streak[b] + 1, StreakCap)
  IN  /\ streak' = [streak EXCEPT ![b] = n]
      /\ down' = [down EXCEPT ![b] = Cooldown(n)]

MarkBackendUp(b) ==
  /\ down' = [down EXCEPT ![b] = 0]
  /\ streak' = [streak EXCEPT ![b] = 0]

\* What a holder tells the breaker about the backend of its slot.
Report(b, verdict) ==
  \/ verdict = "failure" /\ ReportFailure(b)
  \/ verdict = "success" /\ MarkBackendUp(b)
  \/ verdict = "none" /\ UNCHANGED <<down, streak>>

\* last_used := now.  The slot becomes the most recently used; the slots used
\* since its former use move down by one rank, which keeps the order.
MarkUsed(s) ==
  last_used' = [t \in Slots |->
                  IF t = s THEN NSlots
                  ELSE IF last_used[t] > last_used[s] THEN last_used[t] - 1
                  ELSE last_used[t]]

Touch(s, used) == IF used THEN MarkUsed(s) ELSE UNCHANGED last_used

\* A holder reports the backend's answer and keeps the permit.
Answered(r) ==
  /\ stage[r] = "held"
  /\ MarkBackendUp(BackendOf[slot[r]])
  /\ UNCHANGED <<holder, queue, last_used, probing, stage, slot, restore>>

\* A holder reports, marks the slot used or not, and releases it.
GiveBack(r, verdict, used) ==
  /\ stage[r] = "held"
  /\ Report(BackendOf[slot[r]], verdict)
  /\ Touch(slot[r], used)
  /\ DropPermit(r)
  /\ UNCHANGED probing

\* probe_down_backends finds b in cooldown and awaits its model id.
ProbeStart(b) ==
  /\ probing = Nobody
  /\ ~Up(b)
  /\ probing' = b
  /\ UNCHANGED <<holder, queue, last_used, down, streak, stage, slot, restore>>

\* The awaited answer: a model id clears the cooldown as it is now, not as it
\* was when the probe was sent.
ProbeAnswer ==
  /\ probing # Nobody
  /\ probing' = Nobody
  /\ MarkBackendUp(probing) \/ UNCHANGED <<down, streak>>
  /\ UNCHANGED <<holder, queue, last_used, stage, slot, restore>>

\* One unit of time passes.
Tick ==
  /\ \E b \in Backends : ~Up(b)
  /\ down' = [b \in Backends |-> IF Up(b) THEN 0 ELSE down[b] - 1]
  /\ UNCHANGED <<holder, queue, last_used, streak, probing, stage, slot, restore>>

--------------------------------------------------------------------------------
Verdicts == {"failure", "success", "none"}

RequestNext(r) ==
  \/ \E excluded \in Backends \cup {Nobody}, want \in BOOLEAN :
       Acquire(r, SlotsOf(Backends \ {excluded}), want)
  \/ Enter(r)
  \/ RestoreDone(r)
  \/ Timeout(r)
  \/ Abandon(r)
  \/ Answered(r)
  \/ \E verdict \in Verdicts, used \in BOOLEAN : GiveBack(r, verdict, used)

PoolNext ==
  \/ \E r \in Requests : RequestNext(r)
  \/ \E b \in Backends : ProbeStart(b)
  \/ ProbeAnswer
  \/ Tick

PoolSpec == PoolInit /\ [][PoolNext]_poolVars

--------------------------------------------------------------------------------
(* Properties.                                                               *)

\* The requests inside the critical section that slot s guards.
InUse(r) == stage[r] \in {"restoring", "held"}

\* A slot's permit is owned by exactly the request that works on the slot:
\* two requests never talk to one llama.cpp slot at a time, and a permit is
\* never left behind by a request that has gone (SlotGuard's RAII release).
PermitOwned ==
  \A s \in Slots, r \in Requests : holder[s] = r <=> InUse(r) /\ slot[r] = s

\* The queues hold exactly the waiters, each once, in the queue of the slot it
\* picked: no waiter is lost or doubled when others time out, are dropped or are
\* served before it.
WaitersQueued ==
  /\ \A s \in Slots : \A i \in 1..Len(queue[s]) :
       stage[queue[s][i]] = "waiting" /\ slot[queue[s][i]] = s
  /\ \A s \in Slots : \A i, j \in 1..Len(queue[s]) :
       queue[s][i] = queue[s][j] => i = j
  /\ \A r \in Requests : stage[r] = "waiting" =>
       \E i \in 1..Len(queue[slot[r]]) : queue[slot[r]][i] = r

\* Nobody waits for a permit that is free: a release wakes a waiter.
NoIdleWait == \A s \in Slots : Idle(s) => queue[s] = <<>>

\* A request knows its slot exactly while it uses the pool.
SlotKnown == \A r \in Requests : stage[r] = "out" <=> slot[r] = NoSlot

\* A queued caller is overtaken by nobody who came later: permits are handed
\* over in arrival order.
FifoHandover ==
  [][\A s \in Slots, r, q \in Requests :
       (\E i, j \in DOMAIN queue[s] : i < j /\ queue[s][i] = r /\ queue[s][j] = q)
         => ~(holder'[s] = q /\ stage'[r] = "waiting")]_poolVars

--------------------------------------------------------------------------------
(* The pool implements SlotPool.tla.                                         *)

Promise == INSTANCE SlotPool WITH owner <- holder

\* The pool behaves as the promise its callers rely on: an owner per slot, one
\* slot per request, changed only by taking, dropping and passing a permit.
PoolKeepsPromise == Promise!Spec

\* No request owns two permits, so requests cannot wait for each other in a
\* circle (acquire is called by requests that have released, never by holders).
OneSlotPerRequest == Promise!OneSlotEach
================================================================================
