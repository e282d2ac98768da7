----------------------------- MODULE BreakerProofs ------------------------------
(***************************************************************************)
(* Proofs about the circuit breaker taken one atomic access at a time, for *)
(* every number of threads and backends, every cooldown and every time.    *)
(***************************************************************************)
EXTENDS Breaker, TLAPS

--------------------------------------------------------------------------------
(* Types.                                                                    *)

\* A cooldown is positive and never longer than MAX_BACKEND_COOLDOWN.
LEMMA CooldownType ==
  ASSUME NEW n \in 1..5
  PROVE  Cooldown(n) \in 1..MaxCooldown
<1>1. Doubling[n] \in Nat \ {0}
  BY DEF Doubling
<1>2. QED
  BY <1>1, BreakerAssumption DEF Cooldown, Capped

\* At the start every value is in its range.
LEMMA TypeOKInit == Init => TypeOK
BY BreakerAssumption DEF Init, TypeOK, Backends, Picking

\* A thread that is done leaves its locals in their ranges.
LEMMA DoneType ==
  ASSUME TypeOK, NEW c \in Threads, Done(c)
  PROVE  /\ pc' \in [Threads -> Picking \cup {"idle", "swap", "store", "probe", "await"}]
         /\ be' \in [Threads -> Backends]
         /\ now' \in [Threads -> 0..MaxTime]
         /\ until' \in [Threads -> 0..(MaxTime + MaxCooldown)]
         /\ any_up' \in [Threads -> BOOLEAN]
         /\ allowed' \in [Threads -> SUBSET Backends]
         /\ eligible' \in [Threads -> SUBSET Backends]
<1>1. 1 \in Backends /\ 0 \in 0..MaxTime /\ 0 \in 0..(MaxTime + MaxCooldown)
  BY BreakerAssumption DEF Backends
<1>2. QED
  BY <1>1 DEF Done, Goto, TypeOK

\* The types of all but the histories, which History gives theirs.
ThreadTypes ==
  /\ time \in 0..MaxTime
  /\ down_until \in [Backends -> 0..(MaxTime + MaxCooldown)]
  /\ failure_streak \in [Backends -> 0..StreakCap]
  /\ pc \in [Threads -> Picking \cup {"idle", "swap", "store", "probe", "await"}]
  /\ be \in [Threads -> Backends]
  /\ now \in [Threads -> 0..MaxTime]
  /\ until \in [Threads -> 0..(MaxTime + MaxCooldown)]
  /\ any_up \in [Threads -> BOOLEAN]
  /\ allowed \in [Threads -> SUBSET Backends]
  /\ eligible \in [Threads -> SUBSET Backends]

\* An atomic access keeps the threads' locals in their ranges.
LEMMA StepTypes ==
  ASSUME TypeOK, Step
  PROVE  ThreadTypes'
<1>0. /\ Callers \subseteq Threads /\ Prober \in Threads
      /\ "any" \in Picking /\ "scan" \in Picking
      /\ "picked" \in Picking /\ "none" \in Picking
      /\ NBackends \in Nat \ {0} /\ MaxTime \in Nat /\ MaxCooldown \in Nat \ {0}
      /\ 0 \in 0..(MaxTime + MaxCooldown) /\ 0 \in 0..StreakCap
  BY BreakerAssumption DEF Threads, Picking
<1>. USE <1>0 DEF ThreadTypes
<1>1. ASSUME NEW c \in Callers, NEW passing \in SUBSET Backends, PickBegin(c, passing)
      PROVE  ThreadTypes'
  BY <1>1 DEF PickBegin, Goto, shared, TypeOK
<1>2. ASSUME NEW c \in Callers, LookForUp(c)
      PROVE  ThreadTypes'
  <2>1. be[c] \in Backends /\ 1 \in Backends /\ UpAt(be[c], now[c]) \in BOOLEAN
    BY DEF TypeOK, UpAt, Backends
  <2>2. CASE UpAt(be[c], now[c]) \/ be[c] = NBackends
    BY <1>2, <2>1, <2>2 DEF LookForUp, Goto, shared, TypeOK
  <2>3. CASE ~(UpAt(be[c], now[c]) \/ be[c] = NBackends)
    <3>1. be[c] + 1 \in Backends
      BY <2>1, <2>3 DEF Backends
    <3>2. QED
      BY <1>2, <2>3, <3>1 DEF LookForUp, shared, TypeOK
  <2>4. QED
    BY <2>2, <2>3
<1>3. ASSUME NEW c \in Callers, LookEligible(c)
      PROVE  ThreadTypes'
  <2>1. PICK isEligible : Consider(c, isEligible)
    BY <1>3 DEF LookEligible
  <2> DEFINE found == IF isEligible THEN eligible[c] \cup {be[c]} ELSE eligible[c]
  <2>2. be[c] \in Backends /\ found \in SUBSET Backends
    BY DEF TypeOK
  <2>3. be[c] < NBackends => be[c] + 1 \in Backends
    BY <2>2 DEF Backends
  <2>. HIDE DEF found
  <2>4. /\ eligible' = [eligible EXCEPT ![c] = found]
        /\ IF be[c] < NBackends
             THEN be' = [be EXCEPT ![c] = @ + 1] /\ UNCHANGED pc
             ELSE Goto(c, IF found = {} THEN "none" ELSE "picked") /\ UNCHANGED be
        /\ UNCHANGED <<shared, now, until, any_up, allowed>>
    BY <2>1 DEF Consider, found
  <2>5. be' \in [Threads -> Backends]
    BY <2>2, <2>3, <2>4 DEF TypeOK
  <2>6. pc' \in [Threads -> Picking \cup {"idle", "swap", "store", "probe", "await"}]
    BY <2>4 DEF Goto, TypeOK
  <2>7. QED
    BY <2>2, <2>4, <2>5, <2>6 DEF shared, TypeOK
<1>4. ASSUME NEW c \in Callers, PickEnd(c)
      PROVE  ThreadTypes'
  BY <1>4, DoneType DEF PickEnd, shared, TypeOK
<1>5. ASSUME NEW c \in Callers, NEW b \in Backends, FailBegin(c, b)
      PROVE  ThreadTypes'
  <2> DEFINE streak == Capped(failure_streak[b] + 1, StreakCap)
  <2>1. streak \in 1..5 /\ streak \in 0..StreakCap
    BY BreakerAssumption DEF TypeOK, Capped
  <2>2. Cooldown(streak) \in 1..MaxCooldown
    BY <2>1, CooldownType
  <2>3. time + Cooldown(streak) \in 0..(MaxTime + MaxCooldown)
    BY <2>2 DEF TypeOK
  <2>4. QED
    BY <1>5, <2>1, <2>3 DEF FailBegin, Goto, TypeOK
<1>6. ASSUME NEW c \in Callers, NEW b \in Backends, UpBegin(c, b)
      PROVE  ThreadTypes'
  BY <1>6 DEF UpBegin, Goto, TypeOK
<1>7. ASSUME NEW c \in Callers, FailSwap(c)
      PROVE  ThreadTypes'
  BY <1>7, DoneType DEF FailSwap, TypeOK
<1>8. ASSUME NextProbe
      PROVE  /\ pc' \in [Threads -> Picking \cup {"idle", "swap", "store", "probe", "await"}]
             /\ be' \in [Threads -> Backends]
             /\ now' \in [Threads -> 0..MaxTime]
             /\ until' \in [Threads -> 0..(MaxTime + MaxCooldown)]
             /\ any_up' \in [Threads -> BOOLEAN]
             /\ allowed' \in [Threads -> SUBSET Backends]
             /\ eligible' \in [Threads -> SUBSET Backends]
  <2>1. CASE be[Prober] < NBackends
    <3>1. be[Prober] + 1 \in Backends
      BY <2>1 DEF TypeOK, Backends
    <3>2. QED
      BY <1>8, <2>1, <3>1 DEF NextProbe, Goto, TypeOK
  <2>2. CASE ~(be[Prober] < NBackends)
    BY <1>8, <2>2, DoneType DEF NextProbe
  <2>3. QED
    BY <2>1, <2>2
<1>9. ASSUME NEW c \in Threads, UpStore(c)
      PROVE  ThreadTypes'
  <2>1. failure_streak' \in [Backends -> 0..StreakCap]
    BY <1>9 DEF UpStore, TypeOK
  <2>2. QED
    BY <1>8, <1>9, <2>1, DoneType DEF UpStore, TypeOK
<1>10. ASSUME ProbeBegin
       PROVE  ThreadTypes'
  BY <1>10 DEF ProbeBegin, Goto, shared, TypeOK
<1>11. ASSUME ProbeLook
       PROVE  ThreadTypes'
  BY <1>8, <1>11 DEF ProbeLook, Goto, shared, TypeOK
<1>12. ASSUME ProbeAnswer
       PROVE  ThreadTypes'
  BY <1>8, <1>12 DEF ProbeAnswer, Goto, shared, TypeOK
<1>13. ASSUME Tick
       PROVE  ThreadTypes'
  BY <1>13 DEF Tick, local, TypeOK
<1>14. QED
  BY <1>1, <1>2, <1>3, <1>4, <1>5, <1>6, <1>7, <1>9, <1>10, <1>11, <1>12, <1>13
     DEF Step

\* Every access, and the passing of time, keeps every value in its range.
LEMMA TypeOKNext == TypeOK /\ [Next]_vars => TypeOK'
<1>1. ASSUME TypeOK, Next
      PROVE  TypeOK'
  <2>1. ThreadTypes'
    BY <1>1, StepTypes DEF Next
  <2>2. \A c \in Threads : always_up[c] \in SUBSET Backends /\ always_down[c] \in SUBSET Backends
    BY <1>1 DEF TypeOK
  <2>3. /\ always_up' \in [Threads -> SUBSET Backends]
        /\ always_down' \in [Threads -> SUBSET Backends]
    BY <1>1, <2>2 DEF Next, History, During
  <2>4. QED
    BY <2>1, <2>3 DEF ThreadTypes, TypeOK
<1>2. ASSUME TypeOK, UNCHANGED vars
      PROVE  TypeOK'
  BY <1>2 DEF vars, shared, local, TypeOK
<1>3. QED
  BY <1>1, <1>2

\* Every value stays in its range.
THEOREM BreakerTypeCorrect == Spec => []TypeOK
<1>1. QED
  BY TypeOKInit, TypeOKNext, PTL DEF Spec

--------------------------------------------------------------------------------
(* Picks.                                                                    *)

\* What holds of a request thread between any two of its accesses, whatever the
\* other threads store meanwhile.  While it looks for an up backend, none it has
\* passed was up throughout.  When it selects, any_up is right about the backends
\* that stayed as they were, and so is the choice among those it has looked at.
CallerOK(c) ==
  /\ pc[c] = "idle" => be[c] = 1 /\ eligible[c] = {}
  /\ pc[c] \in Picking =>
       /\ now[c] <= time
       /\ allowed[c] # {}
       /\ \A b \in always_up[c] : UpAt(b, now[c])
       /\ \A b \in always_down[c] : time < down_until[b]
  /\ pc[c] = "any" => eligible[c] = {} /\ \A b \in always_up[c] : b >= be[c]
  /\ pc[c] \in {"scan", "picked", "none"} =>
       /\ any_up[c] => always_down[c] # Backends /\ eligible[c] \cap always_down[c] = {}
       /\ ~any_up[c] => always_up[c] = {}
       /\ \A b \in allowed[c] :
            (b < be[c] \/ pc[c] # "scan") /\ (b \in always_up[c] \/ ~any_up[c])
              => b \in eligible[c]
  /\ pc[c] = "none" => eligible[c] = {}

BreakerInv == TypeOK /\ \A c \in Callers : CallerOK(c)

\* Backends only drop out of the histories of a pick under way, and those that
\* stay are up, or down, in the new state as well.
LEMMA HistoryShrinks ==
  ASSUME TypeOK, Next, NEW c \in Callers, pc[c] # "idle", pc'[c] \in Picking
  PROVE  /\ always_up'[c] \subseteq always_up[c]
         /\ always_down'[c] \subseteq always_down[c]
         /\ \A b \in always_up'[c] : UpAt(b, now[c])'
         /\ \A b \in always_down'[c] : (time < down_until[b])'
<1>1. c \in Threads
  BY DEF Threads
<1>2. /\ always_up'[c] = always_up[c] \cap {b \in Backends : now'[c] >= down_until'[b]}
      /\ always_down'[c] = always_down[c] \cap {b \in Backends : time' < down_until'[b]}
  BY <1>1 DEF Next, History, During
<1>3. QED
  BY <1>2 DEF UpAt

\* A step that leaves a caller's own variables alone keeps what holds of it.
LEMMA OtherStep ==
  ASSUME BreakerInv, Next, NEW c \in Callers,
         pc'[c] = pc[c], be'[c] = be[c], now'[c] = now[c], any_up'[c] = any_up[c],
         allowed'[c] = allowed[c], eligible'[c] = eligible[c], time' >= time
  PROVE  CallerOK(c)'
<1>1. TypeOK /\ CallerOK(c) /\ c \in Threads /\ TypeOK'
  BY TypeOKNext DEF BreakerInv, Threads
<1>2. CASE pc[c] \in Picking
  <2>1. pc[c] # "idle" /\ pc'[c] \in Picking
    BY <1>2 DEF Picking
  <2>2. /\ always_up'[c] \subseteq always_up[c]
        /\ always_down'[c] \subseteq always_down[c]
        /\ \A b \in always_up'[c] : UpAt(b, now[c])'
        /\ \A b \in always_down'[c] : (time < down_until[b])'
    BY <1>1, <2>1, HistoryShrinks DEF UpAt
  <2>3. now'[c] <= time'
    BY <1>1, <1>2 DEF CallerOK, TypeOK
  <2>4. any_up[c] => always_down'[c] # Backends \/ always_down[c] = Backends
    BY <1>1, <2>2 DEF TypeOK
  <2>5. QED
    BY <1>1, <1>2, <2>1, <2>2, <2>3, <2>4 DEF CallerOK, UpAt
<1>3. CASE pc[c] \notin Picking
  BY <1>1, <1>3 DEF CallerOK, Picking
<1>4. QED
  BY <1>2, <1>3

\* One look of any_up: a backend found down was not up throughout, and one found
\* up was not down throughout.
LEMMA LookForUpStep ==
  ASSUME BreakerInv, Next, NEW c \in Callers, LookForUp(c)
  PROVE  CallerOK(c)'
<1>1. TypeOK /\ CallerOK(c) /\ c \in Threads /\ TypeOK'
  BY TypeOKNext DEF BreakerInv, Threads
<1>2. /\ pc[c] = "any" /\ pc[c] # "idle" /\ pc[c] \in Picking /\ eligible[c] = {}
      /\ be[c] \in Backends /\ NBackends \in Nat \ {0}
      /\ now[c] \in Nat /\ time \in Nat
      /\ time' = time /\ down_until' = down_until
      /\ now'[c] = now[c] /\ allowed'[c] = allowed[c] /\ eligible'[c] = eligible[c]
  BY <1>1, BreakerAssumption DEF LookForUp, shared, TypeOK, Picking, CallerOK
<1>3. ~UpAt(be[c], now[c]) => \A b \in always_up[c] : b >= be[c] + 1
  BY <1>1, <1>2 DEF CallerOK, Backends, TypeOK
<1>4. UpAt(be[c], now[c]) => be[c] \notin always_down[c]
  BY <1>1, <1>2 DEF CallerOK, UpAt, TypeOK
<1>5. CASE UpAt(be[c], now[c]) \/ be[c] = NBackends
  <2>1. pc'[c] = "scan" /\ be'[c] = 1 /\ any_up'[c] = UpAt(be[c], now[c])
    BY <1>1, <1>2, <1>5 DEF LookForUp, Goto, TypeOK
  <2>2. /\ always_up'[c] \subseteq always_up[c]
        /\ always_down'[c] \subseteq always_down[c]
        /\ \A b \in always_up'[c] : UpAt(b, now[c])'
        /\ \A b \in always_down'[c] : (time < down_until[b])'
    BY <1>1, <1>2, <2>1, HistoryShrinks DEF Picking
  <2>3. any_up'[c] => always_down'[c] # Backends
    BY <1>2, <1>4, <2>1, <2>2
  <2>4. ~any_up'[c] => always_up'[c] = {}
    <3>1. ASSUME ~any_up'[c], NEW b \in always_up'[c]
          PROVE  FALSE
      <4>1. b \in always_up[c] /\ b \in Backends
        BY <1>1, <2>2, <3>1 DEF TypeOK
      <4>2. b >= NBackends + 1
        BY <1>3, <1>5, <2>1, <3>1, <4>1
      <4>3. QED
        BY <1>2, <4>1, <4>2 DEF Backends
    <3>2. QED
      BY <3>1
  <2>5. \A b \in allowed'[c] : ~(b < be'[c])
    BY <1>1, <1>2, <2>1 DEF TypeOK, Backends
  <2>6. now'[c] <= time' /\ allowed'[c] # {}
    BY <1>1, <1>2 DEF CallerOK
  <2>7. QED
    BY <1>2, <2>1, <2>2, <2>3, <2>4, <2>5, <2>6 DEF CallerOK, Picking
<1>6. CASE ~(UpAt(be[c], now[c]) \/ be[c] = NBackends)
  <2>1. pc'[c] = "any" /\ be'[c] = be[c] + 1
    BY <1>1, <1>2, <1>6 DEF LookForUp, TypeOK
  <2>2. /\ always_up'[c] \subseteq always_up[c]
        /\ always_down'[c] \subseteq always_down[c]
        /\ \A b \in always_up'[c] : UpAt(b, now[c])'
        /\ \A b \in always_down'[c] : (time < down_until[b])'
    BY <1>1, <1>2, <2>1, HistoryShrinks DEF Picking
  <2>3. now'[c] <= time' /\ allowed'[c] # {}
    BY <1>1, <1>2 DEF CallerOK
  <2>4. QED
    BY <1>2, <1>3, <1>6, <2>1, <2>2, <2>3 DEF CallerOK, Picking
<1>7. QED
  BY <1>5, <1>6

\* One look of the selection: the backend looked at is found eligible if it was
\* up throughout, or if no backend was up; and, if some backend was up, never if
\* it was down throughout.
LEMMA LookEligibleStep ==
  ASSUME BreakerInv, Next, NEW c \in Callers, LookEligible(c)
  PROVE  CallerOK(c)'
<1> DEFINE isEligible == be[c] \in allowed[c] /\ (UpAt(be[c], now[c]) \/ ~any_up[c])
           found == IF isEligible THEN eligible[c] \cup {be[c]} ELSE eligible[c]
<1>1. TypeOK /\ CallerOK(c) /\ c \in Threads /\ TypeOK'
  BY TypeOKNext DEF BreakerInv, Threads
<1>2. /\ pc[c] = "scan" /\ pc[c] # "idle" /\ pc[c] \in Picking
      /\ eligible'[c] = found
      /\ IF be[c] < NBackends
           THEN be'[c] = be[c] + 1 /\ pc'[c] = "scan"
           ELSE be'[c] = be[c] /\ pc'[c] = IF found = {} THEN "none" ELSE "picked"
  BY <1>1 DEF LookEligible, Consider, Goto, TypeOK, Picking
<1>3. /\ time' = time /\ down_until' = down_until
      /\ now'[c] = now[c] /\ allowed'[c] = allowed[c] /\ any_up'[c] = any_up[c]
      /\ be[c] \in Backends /\ NBackends \in Nat \ {0}
      /\ now[c] \in Nat /\ time \in Nat
  BY <1>1, BreakerAssumption DEF LookEligible, Consider, shared, TypeOK
<1>4. pc'[c] \in {"scan", "picked", "none"} /\ (pc'[c] = "none" => found = {})
  BY <1>2
<1>5. /\ always_up'[c] \subseteq always_up[c]
      /\ always_down'[c] \subseteq always_down[c]
      /\ \A b \in always_up'[c] : UpAt(b, now[c])'
      /\ \A b \in always_down'[c] : (time < down_until[b])'
  BY <1>1, <1>2, <1>4, HistoryShrinks DEF Picking
<1>6. any_up[c] => always_down[c] # Backends /\ found \cap always_down[c] = {}
  <2>1. be[c] \in always_down[c] => ~UpAt(be[c], now[c])
    BY <1>1, <1>2, <1>3 DEF CallerOK, UpAt, TypeOK
  <2>2. QED
    BY <1>1, <1>2, <2>1 DEF CallerOK
<1>7. ASSUME NEW b \in allowed[c],
             b < be'[c] \/ pc'[c] # "scan",
             b \in always_up'[c] \/ ~any_up[c]
      PROVE  b \in found
  <2>1. b \in always_up[c] \/ ~any_up[c]
    BY <1>5, <1>7
  <2>2. CASE b < be[c]
    BY <1>1, <1>2, <2>1, <2>2 DEF CallerOK
  <2>3. CASE ~(b < be[c])
    <3>1. b \in Backends
      BY <1>1 DEF TypeOK
    <3>2. b = be[c]
      BY <1>2, <1>3, <1>7, <2>3, <3>1 DEF Backends
    <3>3. b \in always_up[c] => UpAt(b, now[c])
      BY <1>1, <1>2 DEF CallerOK
    <3>4. QED
      BY <2>1, <3>2, <3>3
  <2>4. QED
    BY <2>2, <2>3
<1>8. now'[c] <= time' /\ allowed'[c] # {}
  BY <1>1, <1>2, <1>3 DEF CallerOK
<1>9. /\ any_up'[c] => always_down'[c] # Backends /\ eligible'[c] \cap always_down'[c] = {}
      /\ ~any_up'[c] => always_up'[c] = {}
  <2>1. always_down[c] \subseteq Backends
    BY <1>1 DEF TypeOK
  <2>. HIDE DEF found
  <2>2. QED
    BY <1>1, <1>2, <1>3, <1>5, <1>6, <2>1 DEF CallerOK
<1>. HIDE DEF found
<1>10. QED
  BY <1>2, <1>3, <1>4, <1>5, <1>7, <1>8, <1>9 DEF CallerOK

\* What any step of a caller leaves behind for itself.
LEMMA OwnStep ==
  ASSUME BreakerInv, Next, NEW c \in Callers,
         \/ \E passing \in (SUBSET Backends) \ {{}} : PickBegin(c, passing)
         \/ LookForUp(c)
         \/ LookEligible(c)
         \/ PickEnd(c)
         \/ \E b \in Backends : FailBegin(c, b) \/ UpBegin(c, b)
         \/ FailSwap(c)
         \/ UpStore(c)
  PROVE  CallerOK(c)'
<1>1. TypeOK /\ CallerOK(c) /\ c \in Threads /\ TypeOK' /\ c # Prober
  BY TypeOKNext, BreakerAssumption DEF BreakerInv, Threads
<1>2. ASSUME NEW passing \in (SUBSET Backends) \ {{}}, PickBegin(c, passing)
      PROVE  CallerOK(c)'
  <2>1. /\ pc[c] = "idle" /\ pc'[c] = "any" /\ now'[c] = time /\ time' = time
        /\ allowed'[c] = passing /\ be'[c] = be[c] /\ eligible'[c] = eligible[c]
    BY <1>1, <1>2 DEF PickBegin, Goto, shared, TypeOK
  <2>2. /\ always_up'[c] = {b \in Backends : now'[c] >= down_until'[b]}
        /\ always_down'[c] = {b \in Backends : time' < down_until'[b]}
    BY <1>1, <2>1 DEF Next, History, During
  <2>3. be'[c] = 1 /\ eligible'[c] = {} /\ \A b \in Backends : b >= 1
    BY <1>1, <2>1 DEF CallerOK, Backends
  <2>4. time \in Nat
    BY <1>1 DEF TypeOK
  <2>5. /\ \A b \in always_up'[c] : UpAt(b, now[c])'
        /\ \A b \in always_down'[c] : (time < down_until[b])'
        /\ now'[c] <= time' /\ allowed'[c] # {}
    BY <1>2, <2>1, <2>2, <2>4 DEF UpAt
  <2>6. \A b \in always_up'[c] : b >= be'[c]
    BY <2>2, <2>3
  <2>7. QED
    BY <2>1, <2>3, <2>5, <2>6 DEF CallerOK, Picking
<1>3. ASSUME Done(c)
      PROVE  CallerOK(c)'
  <2>1. pc'[c] = "idle" /\ be'[c] = 1 /\ eligible'[c] = {}
    BY <1>1, <1>3 DEF Done, Goto, TypeOK
  <2>2. QED
    BY <2>1 DEF CallerOK, Picking
<1>4. ASSUME NEW b \in Backends, FailBegin(c, b) \/ UpBegin(c, b)
      PROVE  CallerOK(c)'
  <2>1. pc'[c] \in {"swap", "store"}
    BY <1>1, <1>4 DEF FailBegin, UpBegin, Goto, TypeOK
  <2>2. QED
    BY <2>1 DEF CallerOK, Picking
<1>5. QED
  BY <1>1, <1>2, <1>3, <1>4, LookForUpStep, LookEligibleStep
     DEF PickEnd, FailSwap, UpStore

\* A step of one thread leaves the own variables of every other alone.
LEMMA OthersUntouched ==
  ASSUME TypeOK, Next, NEW c \in Callers,
         ~ \/ \E passing \in (SUBSET Backends) \ {{}} : PickBegin(c, passing)
           \/ LookForUp(c)
           \/ LookEligible(c)
           \/ PickEnd(c)
           \/ \E b \in Backends : FailBegin(c, b) \/ UpBegin(c, b)
           \/ FailSwap(c)
           \/ UpStore(c)
  PROVE  /\ pc'[c] = pc[c] /\ be'[c] = be[c] /\ now'[c] = now[c]
         /\ any_up'[c] = any_up[c] /\ allowed'[c] = allowed[c]
         /\ eligible'[c] = eligible[c]
         /\ time' >= time
<1> DEFINE Untouched ==
      /\ pc'[c] = pc[c] /\ be'[c] = be[c] /\ now'[c] = now[c]
      /\ any_up'[c] = any_up[c] /\ allowed'[c] = allowed[c]
      /\ eligible'[c] = eligible[c]
<1>1. c \in Threads /\ Prober \in Threads /\ c # Prober /\ Step /\ time \in Nat
  BY BreakerAssumption DEF Next, Threads, TypeOK
<1>2. ASSUME NEW d \in Threads, d # c, Done(d)
      PROVE  Untouched
  BY <1>1, <1>2 DEF Done, Goto, TypeOK
<1>3. NextProbe => Untouched
  BY <1>1, <1>2 DEF NextProbe, Goto, TypeOK
<1>4. ASSUME NEW d \in Callers, d # c,
             \/ \E passing \in (SUBSET Backends) \ {{}} : PickBegin(d, passing)
             \/ LookForUp(d)
             \/ LookEligible(d)
             \/ \E b \in Backends : FailBegin(d, b) \/ UpBegin(d, b)
      PROVE  Untouched /\ time' = time
  BY <1>1, <1>4 DEF PickBegin, LookForUp, LookEligible, Consider, FailBegin, UpBegin,
                    Goto, shared, Threads, TypeOK
<1>5. ASSUME NEW d \in Callers, d # c, PickEnd(d) \/ FailSwap(d)
      PROVE  Untouched /\ time' = time
  BY <1>2, <1>5 DEF PickEnd, FailSwap, shared, Threads
<1>6. ASSUME NEW d \in Threads, d # c, UpStore(d)
      PROVE  Untouched /\ time' = time
  BY <1>2, <1>3, <1>6 DEF UpStore
<1>7. ASSUME ProbeBegin \/ ProbeLook \/ ProbeAnswer
      PROVE  Untouched /\ time' = time
  BY <1>1, <1>3, <1>7 DEF ProbeBegin, ProbeLook, ProbeAnswer, Goto, shared, TypeOK
<1>8. ASSUME Tick
      PROVE  Untouched /\ time' >= time
  BY <1>1, <1>8 DEF Tick, local
<1>9. QED
  BY <1>1, <1>4, <1>5, <1>6, <1>7, <1>8 DEF Step

\* At the start nobody picks.
LEMMA BreakerInvInit == Init => BreakerInv
<1>1. ASSUME Init
      PROVE  BreakerInv
  <2>1. \A c \in Callers : pc[c] = "idle" /\ be[c] = 1 /\ eligible[c] = {}
    BY <1>1 DEF Init, Threads
  <2>2. QED
    BY <1>1, <2>1, TypeOKInit DEF BreakerInv, CallerOK, Picking
<1>2. QED
  BY <1>1

\* The caller that moves and those that do not keep what a pick knows.
LEMMA BreakerInvNext == BreakerInv /\ [Next]_vars => BreakerInv'
<1>1. ASSUME BreakerInv, Next
      PROVE  BreakerInv'
  <2>1. TypeOK /\ TypeOK'
    BY <1>1, TypeOKNext DEF BreakerInv
  <2>2. ASSUME NEW c \in Callers
        PROVE  CallerOK(c)'
    BY <1>1, <2>1, <2>2, OwnStep, OthersUntouched, OtherStep
  <2>3. QED
    BY <2>1, <2>2 DEF BreakerInv
<1>2. ASSUME BreakerInv, UNCHANGED vars
      PROVE  BreakerInv'
  <2>1. TypeOK'
    BY <1>2, TypeOKNext DEF BreakerInv
  <2>2. QED
    BY <1>2, <2>1 DEF BreakerInv, CallerOK, UpAt, vars, shared, local
<1>3. QED
  BY <1>1, <1>2

\* However the accesses of all threads interleave.
THEOREM BreakerInvariant == Spec => []BreakerInv
<1>1. QED
  BY BreakerInvInit, BreakerInvNext, PTL DEF Spec

\* A pick never returns a slot of a backend that was in cooldown throughout while
\* some other was up throughout.
THEOREM DownIsAvoided == Spec => []PickAvoidsDown
<1>1. BreakerInv => PickAvoidsDown
  BY DEF BreakerInv, CallerOK, PickAvoidsDown
<1>2. QED
  BY <1>1, BreakerInvariant, PTL

\* A pick comes back with a slot if a backend it may use was up throughout.
THEOREM UpIsFound == Spec => []PickFindsUp
<1>1. BreakerInv => PickFindsUp
  BY DEF BreakerInv, TypeOK, Threads, CallerOK, PickFindsUp
<1>2. QED
  BY <1>1, BreakerInvariant, PTL

\* A pick comes back with a slot if every backend was in cooldown throughout: it
\* fails open, whatever else it may have seen on the way.
THEOREM AllDownFailsOpen == Spec => []PickFailsOpen
<1>1. BreakerInv => PickFailsOpen
  BY DEF BreakerInv, TypeOK, Threads, CallerOK, PickFailsOpen
<1>2. QED
  BY <1>1, BreakerInvariant, PTL
================================================================================
