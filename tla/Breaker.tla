-------------------------------- MODULE Breaker --------------------------------
(***************************************************************************)
(* The circuit breaker of src/src/slot_manager.rs, one atomic access at a  *)
(* time.  SlotManager.tla takes a pick and a report for one step each;     *)
(* here they are what the code makes of them: a pick reads down_until of   *)
(* every backend to learn whether any is up, then again for every slot it  *)
(* considers, and a report writes failure_streak and down_until one after  *)
(* the other, while other threads do the same.                             *)
(*                                                                         *)
(* Slots are not told apart: a slot is eligible if its backend is, so the  *)
(* two loops of pick_filtered over the slots are one pass over backends,   *)
(* and `eligible' holds the backends the pick may return.  Time is counted *)
(* in units of the base cooldown and ends at MaxTime; streaks saturate at  *)
(* StreakCap as in SlotManager.tla.                                        *)
(***************************************************************************)
EXTENDS Integers

CONSTANTS
  Callers,      \* request threads
  Prober,       \* the background probe task
  NBackends,    \* number of backends
  MaxCooldown,  \* MAX_BACKEND_COOLDOWN
  StreakCap,    \* streaks from this one on select the same cooldown
  MaxTime       \* bound on the time that passes

Backends == 1..NBackends
Threads == Callers \cup {Prober}

ASSUME BreakerAssumption ==
  /\ Prober \notin Callers
  /\ NBackends \in Nat \ {0}
  /\ MaxCooldown \in Nat \ {0}
  /\ StreakCap \in 1..5
  /\ MaxTime \in Nat

VARIABLES
  time,            \* the clock behind now_nanos
  down_until,      \* end of each backend's cooldown, 0 = none
  failure_streak,  \* consecutive failures, saturated
  pc,              \* what each thread is about to do
  be,              \* the backend it looks at or reports on
  now,             \* the time it has read
  until,           \* the end of the cooldown it is about to store
  any_up,          \* what its pick found out about all backends
  allowed,         \* the backends its pick may return
  eligible,        \* the backends its pick has found eligible
  always_up,       \* history: the backends that were up during all of its pick
  always_down      \* history: the backends that were down during all of it

shared == <<time, down_until, failure_streak>>
local == <<pc, be, now, until, any_up, allowed, eligible>>
vars == <<shared, local, always_up, always_down>>

Picking == {"any", "scan", "picked", "none"}

TypeOK ==
  /\ time \in 0..MaxTime
  /\ down_until \in [Backends -> 0..(MaxTime + MaxCooldown)]
  /\ failure_streak \in [Backends -> 0..StreakCap]
  /\ pc \in [Threads -> Picking \cup {"idle", "swap", "store", "probe", "await"}]
  /\ be \in [Threads -> Backends]
  /\ now \in [Threads -> 0..MaxTime]
  /\ until \in [Threads -> 0..(MaxTime + MaxCooldown)]
  /\ any_up \in [Threads -> BOOLEAN]
  /\ allowed \in [Threads -> SUBSET Backends]
  /\ eligible \in [Threads -> SUBSET Backends]
  /\ always_up \in [Threads -> SUBSET Backends]
  /\ always_down \in [Threads -> SUBSET Backends]

Init ==
  /\ time = 0
  /\ down_until = [b \in Backends |-> 0]
  /\ failure_streak = [b \in Backends |-> 0]
  /\ pc = [c \in Threads |-> "idle"]
  /\ be = [c \in Threads |-> 1]
  /\ now = [c \in Threads |-> 0]
  /\ until = [c \in Threads |-> 0]
  /\ any_up = [c \in Threads |-> FALSE]
  /\ allowed = [c \in Threads |-> {}]
  /\ eligible = [c \in Threads |-> {}]
  /\ always_up = [c \in Threads |-> {}]
  /\ always_down = [c \in Threads |-> {}]

--------------------------------------------------------------------------------
(* Picking.                                                                  *)

UpAt(b, t) == t >= down_until[b]

Goto(c, label) == pc' = [pc EXCEPT ![c] = label]

\* c forgets what it knows: its operation is over.
Done(c) ==
  /\ Goto(c, "idle")
  /\ be' = [be EXCEPT ![c] = 1]
  /\ now' = [now EXCEPT ![c] = 0]
  /\ until' = [until EXCEPT ![c] = 0]
  /\ any_up' = [any_up EXCEPT ![c] = FALSE]
  /\ allowed' = [allowed EXCEPT ![c] = {}]
  /\ eligible' = [eligible EXCEPT ![c] = {}]

\* pick_filtered with a filter that lets the backends `passing' through.
PickBegin(c, passing) ==
  /\ pc[c] = "idle"
  /\ now' = [now EXCEPT ![c] = time]
  /\ allowed' = [allowed EXCEPT ![c] = passing]
  /\ Goto(c, "any")
  /\ UNCHANGED <<shared, be, until, any_up, eligible>>

\* Mutant of LookForUp: only the first backend is looked at.
LookAtFirst(c) ==
  /\ pc[c] = "any"
  /\ any_up' = [any_up EXCEPT ![c] = UpAt(be[c], now[c])]
  /\ Goto(c, "scan")
  /\ UNCHANGED <<shared, be, now, until, allowed, eligible>>

\* One load of any_up's loop, which stops at the first backend that is up.
LookForUp(c) ==
  LET up == UpAt(be[c], now[c])
  IN  /\ pc[c] = "any"
      /\ IF up \/ be[c] = NBackends
           THEN /\ any_up' = [any_up EXCEPT ![c] = up]
                /\ be' = [be EXCEPT ![c] = 1]
                /\ Goto(c, "scan")
           ELSE /\ be' = [be EXCEPT ![c] = @ + 1]
                /\ UNCHANGED <<any_up, pc>>
      /\ UNCHANGED <<shared, now, until, allowed, eligible>>

\* What LookEligible does with a backend of which it knows whether it is eligible.
Consider(c, isEligible) ==
  LET found == IF isEligible THEN eligible[c] \cup {be[c]} ELSE eligible[c]
  IN  /\ pc[c] = "scan"
      /\ eligible' = [eligible EXCEPT ![c] = found]
      /\ IF be[c] < NBackends
           THEN be' = [be EXCEPT ![c] = @ + 1] /\ UNCHANGED pc
           ELSE Goto(c, IF found = {} THEN "none" ELSE "picked") /\ UNCHANGED be
      /\ UNCHANGED <<shared, now, until, any_up, allowed>>

\* Mutant of LookEligible: a cooldown has to lie strictly in the past.
LookStrictly(c) ==
  Consider(c, be[c] \in allowed[c] /\ (now[c] > down_until[be[c]] \/ ~any_up[c]))

\* Mutant of LookEligible: no fail-open.
LookClosed(c) ==
  Consider(c, be[c] \in allowed[c] /\ UpAt(be[c], now[c]))

\* One look of the selection: a load of its own.  The pick ends with a slot of
\* an eligible backend, or with none.
LookEligible(c) ==
  Consider(c, be[c] \in allowed[c] /\ (UpAt(be[c], now[c]) \/ ~any_up[c]))

PickEnd(c) ==
  /\ pc[c] \in {"picked", "none"}
  /\ Done(c)
  /\ UNCHANGED shared

--------------------------------------------------------------------------------
(* Reporting and probing.                                                    *)

Doubling == <<1, 2, 4, 8, 16>>
Capped(x, cap) == IF x < cap THEN x ELSE cap
Cooldown(streak) == Capped(Doubling[streak], MaxCooldown)

\* report_failure: read the clock and fetch_add the streak ...
FailBegin(c, b) ==
  LET streak == Capped(failure_streak[b] + 1, StreakCap)
  IN  /\ pc[c] = "idle"
      /\ failure_streak' = [failure_streak EXCEPT ![b] = streak]
      /\ until' = [until EXCEPT ![c] = time + Cooldown(streak)]
      /\ be' = [be EXCEPT ![c] = b]
      /\ Goto(c, "swap")
      /\ UNCHANGED <<time, down_until, now, any_up, allowed, eligible>>

\* Mutant of FailSwap: the end of the cooldown is added to the last one.
FailAdds(c) ==
  /\ pc[c] = "swap"
  /\ down_until' = [down_until EXCEPT ![be[c]] = @ + until[c]]
  /\ Done(c)
  /\ UNCHANGED <<time, failure_streak>>

\* ... then swap the end of the cooldown in.
FailSwap(c) ==
  /\ pc[c] = "swap"
  /\ down_until' = [down_until EXCEPT ![be[c]] = until[c]]
  /\ Done(c)
  /\ UNCHANGED <<time, failure_streak>>

\* mark_backend_up: swap 0 into down_until ...
UpBegin(c, b) ==
  /\ pc[c] = "idle"
  /\ down_until' = [down_until EXCEPT ![b] = 0]
  /\ be' = [be EXCEPT ![c] = b]
  /\ Goto(c, "store")
  /\ UNCHANGED <<time, failure_streak, now, until, any_up, allowed, eligible>>

\* The prober goes on to the next backend, or ends its round.
NextProbe ==
  IF be[Prober] < NBackends
    THEN /\ be' = [be EXCEPT ![Prober] = @ + 1]
         /\ Goto(Prober, "probe")
         /\ UNCHANGED <<now, until, any_up, allowed, eligible>>
    ELSE Done(Prober)

\* ... then store 0 in failure_streak.
UpStore(c) ==
  /\ pc[c] = "store"
  /\ failure_streak' = [failure_streak EXCEPT ![be[c]] = 0]
  /\ IF c = Prober THEN NextProbe ELSE Done(c)
  /\ UNCHANGED <<time, down_until>>

\* probe_down_backends: one round, backend after backend.
ProbeBegin ==
  /\ pc[Prober] = "idle"
  /\ now' = [now EXCEPT ![Prober] = time]
  /\ Goto(Prober, "probe")
  /\ UNCHANGED <<shared, be, until, any_up, allowed, eligible>>

ProbeLook ==
  /\ pc[Prober] = "probe"
  /\ IF UpAt(be[Prober], now[Prober])
       THEN NextProbe
       ELSE /\ Goto(Prober, "await")
            /\ UNCHANGED <<be, now, until, any_up, allowed, eligible>>
  /\ UNCHANGED shared

\* get_model_id answers.  A known model id starts mark_backend_up.
ProbeAnswer ==
  /\ pc[Prober] = "await"
  /\ \/ /\ down_until' = [down_until EXCEPT ![be[Prober]] = 0]
        /\ Goto(Prober, "store")
        /\ UNCHANGED <<time, failure_streak, be, now, until, any_up, allowed, eligible>>
     \/ NextProbe /\ UNCHANGED shared

Tick ==
  /\ time < MaxTime
  /\ time' = time + 1
  /\ UNCHANGED <<down_until, failure_streak, local>>

--------------------------------------------------------------------------------
Step ==
  \/ \E c \in Callers :
       \/ \E passing \in (SUBSET Backends) \ {{}} : PickBegin(c, passing)
       \/ LookForUp(c)
       \/ LookEligible(c)
       \/ PickEnd(c)
       \/ \E b \in Backends : FailBegin(c, b) \/ UpBegin(c, b)
       \/ FailSwap(c)
  \/ \E c \in Threads : UpStore(c)
  \/ ProbeBegin
  \/ ProbeLook
  \/ ProbeAnswer
  \/ Tick

\* The part of `set' that stays in `current' during c's pick.
During(c, set, current) ==
  IF pc[c] = "idle" /\ pc'[c] = "any" THEN current
  ELSE IF pc'[c] \in Picking THEN set \cap current
  ELSE {}

\* Up means out of cooldown at the time the pick has read, down means in cooldown
\* even at the present time.
History ==
  /\ always_up' = [c \in Threads |->
       During(c, always_up[c], {b \in Backends : now'[c] >= down_until'[b]})]
  /\ always_down' = [c \in Threads |->
       During(c, always_down[c], {b \in Backends : time' < down_until'[b]})]

Next == Step /\ History

Spec == Init /\ [][Next]_vars

--------------------------------------------------------------------------------
(* Properties.                                                               *)

\* However reports and probes interleave with a pick: it never returns a slot of
\* a backend that was in cooldown throughout while some other was up throughout.
PickAvoidsDown ==
  \A c \in Callers : pc[c] = "picked" /\ always_up[c] # {} =>
    eligible[c] \cap always_down[c] = {}

\* A pick finds a slot if a backend it may use was up throughout.
PickFindsUp ==
  \A c \in Callers : pc[c] = "none" => always_up[c] \cap allowed[c] = {}

\* Fail-open: a pick finds a slot if every backend was in cooldown throughout.
PickFailsOpen ==
  \A c \in Callers : pc[c] = "none" => always_down[c] # Backends

--------------------------------------------------------------------------------
(* What a comment says and the code does not do.                             *)

\* "At least one slot is eligible": a pick among all backends finds a slot.
PickNeverPanics ==
  \A c \in Callers : pc[c] = "none" => allowed[c] # Backends
================================================================================
