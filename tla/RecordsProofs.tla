------------------------------ MODULE RecordsProofs ------------------------------
(***************************************************************************)
(* Proofs about the records of finished requests and the files they are    *)
(* logged to, for every set of requests, every log and every bound.        *)
(***************************************************************************)
EXTENDS Records, FiniteSetTheorems, SequenceTheorems, WellFoundedInduction, TLAPS

--------------------------------------------------------------------------------
(* The inductive invariant: the requests.                                    *)

Pending(r) == at[r] \in {"body", "rotating", "logged", "stamped"}

\* The lines and the counts by number; the others are typed where they are used.
RequestsTyped ==
  /\ log \in Logs /\ sinks \in SinksOf[log]
  /\ at \in [Requests -> Places]
  /\ answered \in Nat
  /\ number \in [Requests -> 0..answered]

\* Exactly the pending records have numbers, and no two have the same.
NumbersOK ==
  /\ \A r \in Requests : number[r] # 0 <=> Pending(r)
  /\ \A r, q \in Requests : number[r] # 0 /\ number[r] = number[q] => r = q

\* A record that is still in its body has neither line nor excuse; every other
\* one has exactly one of them.
HasLine(n) == n \in ToSet(written)

WrittenOK ==
  /\ written \in Seq(Nat) /\ ToSet(written) \subseteq 1..answered
  /\ excused \subseteq 1..answered
  /\ IsInjective(written)
  /\ ToSet(written) \intersect excused = {}
  /\ \A r \in Requests : at[r] = "body" => ~ HasLine(number[r]) /\ number[r] \notin excused
  /\ "log" \in sinks =>
       \A n \in 1..answered :
         \/ HasLine(n) \/ n \in excused
         \/ \E r \in Requests : at[r] = "body" /\ number[r] = n

\* A pending record is not counted yet; every other one since the start is, once.
CountedOK ==
  /\ counted \in Seq([now : Nat, number : Nat])
  /\ started \in 0..answered
  /\ stamp \in [Requests -> Nat] /\ clock \in Nat
  /\ CountedNumbers \subseteq 1..answered
  /\ Cardinality(CountedNumbers) = Len(counted)
  /\ \A r \in Requests : number[r] \notin CountedNumbers
  /\ "dashboard" \in sinks =>
       \A n \in 1..answered :
         n > started => n \in CountedNumbers \/ \E r \in Requests : number[r] = n

\* The mutex is held by the request that rotates, and only where there is a log.
HolderOK ==
  /\ holder \in Requests \union {Nobody}
  /\ "log" \notin sinks => holder = Nobody
  /\ \A r \in Requests : holder = r <=> at[r] = "rotating"

RequestsInv == RequestsTyped /\ NumbersOK /\ WrittenOK /\ CountedOK /\ HolderOK

--------------------------------------------------------------------------------
(* Sequences.                                                                *)

\* An element that is appended joins the others, and keeps them distinct.
LEMMA AppendAdds ==
  ASSUME NEW S, NEW s \in Seq(S), NEW x \in S
  PROVE  /\ Append(s, x) \in Seq(S)
         /\ ToSet(Append(s, x)) = ToSet(s) \union {x}
         /\ IsInjective(s) /\ x \notin ToSet(s) => IsInjective(Append(s, x))
<1>1. /\ Append(s, x) \in Seq(S)
      /\ DOMAIN Append(s, x) = DOMAIN s \union {Len(s) + 1}
      /\ \A i \in DOMAIN s : Append(s, x)[i] = s[i]
      /\ Append(s, x)[Len(s) + 1] = x
      /\ Len(s) + 1 \notin DOMAIN s
  OBVIOUS
<1>2. ToSet(Append(s, x)) = ToSet(s) \union {x}
  BY <1>1, Zenon DEF ToSet
<1>3. IsInjective(s) /\ x \notin ToSet(s) => IsInjective(Append(s, x))
  BY <1>1, Zenon DEF ToSet, IsInjective
<1> QED BY <1>1, <1>2, <1>3

\* An event that is counted adds its number.
LEMMA CountedGrows ==
  ASSUME NEW s \in Seq([now : Nat, number : Nat]), NEW e \in [now : Nat, number : Nat]
  PROVE  {Append(s, e)[i].number : i \in DOMAIN Append(s, e)}
           = {s[i].number : i \in DOMAIN s} \union {e.number}
<1>1. /\ DOMAIN Append(s, e) = DOMAIN s \union {Len(s) + 1}
      /\ \A i \in DOMAIN s : Append(s, e)[i] = s[i]
      /\ Append(s, e)[Len(s) + 1] = e
  OBVIOUS
<1> QED BY <1>1, ZenonT(60)

--------------------------------------------------------------------------------
(* The requests: what each step preserves.                                   *)

\* At the start nothing is numbered, written or counted.
LEMMA RequestsInvInit == Init => RequestsInv
<1> SUFFICES ASSUME Init PROVE RequestsInv
  OBVIOUS
<1>1. CountedNumbers = {} /\ ToSet(written) = {} /\ IsInjective(written)
  BY DEF Init, CountedNumbers, ToSet, IsInjective
<1>2. Cardinality(CountedNumbers) = 0
  BY <1>1, FS_EmptySet
<1>3. RequestsTyped /\ NumbersOK
  BY DEF Init, LogInit, All, RequestsTyped, NumbersOK, Places, Pending
<1>4. WrittenOK
  BY <1>1 DEF Init, All, WrittenOK, HasLine
<1>5. CountedOK
  BY <1>1, <1>2 DEF Init, All, CountedOK
<1>6. HolderOK
  BY RecordsAssumption DEF Init, LogInit, All, HolderOK
<1> QED BY <1>3, <1>4, <1>5, <1>6 DEF RequestsInv

\* What the steps on the log do to the mutex.
LEMMA MutexSteps ==
  /\ \A r, line : AppendLine(r, line) =>
       log' = log /\ holder = Nobody /\ holder' \in {Nobody, r}
  /\ CannotOpen \/ CannotWriteHeader \/ CannotWriteLine =>
       log' = log /\ holder = Nobody /\ holder' = Nobody
  /\ Unlink \/ CannotUnlink \/ Shift \/ Finish \/ CannotRename =>
       log' = log /\ holder' \in {holder, Nobody}
  /\ Reopened => log' = log /\ holder' = Nobody
BY DEF AppendLine, CannotOpen, CannotWriteHeader, CannotWriteLine, Unlink, CannotUnlink,
       Shift, Finish, CannotRename, Goes, Returns, Reopened, logVars

\* A step of one request takes it from one place to another and leaves the rest:
\* the record gets its number, keeps it, or is done with.
OnlyMoves(r, from, to) ==
  /\ at[r] \in from
  /\ \E place \in to : at' = [at EXCEPT ![r] = place]

Keeps(r, from, to) == OnlyMoves(r, from, to) /\ number' = number /\ stamp' = stamp
Ends(r, from) ==
  /\ OnlyMoves(r, from, {"away"})
  /\ number' = [number EXCEPT ![r] = 0] /\ stamp' = [stamp EXCEPT ![r] = 0]

\* What follows the log: the dashboard, or nothing.
Continues(r, from) ==
  IF "dashboard" \in sinks THEN Keeps(r, from, {"logged"}) ELSE Ends(r, from)

\* Where each action takes its request.
LEMMA MovesOf ==
  ASSUME RequestsTyped, HolderOK, NEW r \in Requests
  PROVE  /\ \A route : Arrive(r, route) => Keeps(r, {"away"}, {"unrecorded", "handled"})
         /\ Leave(r) => Ends(r, {"unrecorded", "handled"})
         /\ NoLogger(r) => Continues(r, {"body"})
         /\ LogLine(r) =>
              IF holder' = r THEN Keeps(r, {"body"}, {"rotating"}) ELSE Continues(r, {"body"})
         /\ LogFails(r) => Continues(r, {"body"})
         /\ Rotate(r) =>
              IF holder' = r THEN UNCHANGED requestVars ELSE Continues(r, {"rotating"})
         /\ Count(r) => Ends(r, {"stamped"})
<1> USE DEF Keeps, Ends, Continues, OnlyMoves, Move, Leaves, AfterLog
<1>1. \A route : Arrive(r, route) => Keeps(r, {"away"}, {"unrecorded", "handled"})
  BY DEF Arrive
<1>2. Leave(r) => Ends(r, {"unrecorded", "handled"})
  BY DEF Leave
<1>3. NoLogger(r) => Continues(r, {"body"})
  BY DEF NoLogger
<1>4. LogLine(r) =>
        IF holder' = r THEN Keeps(r, {"body"}, {"rotating"}) ELSE Continues(r, {"body"})
  BY DEF LogLine
<1>5. LogFails(r) => Continues(r, {"body"})
  BY DEF LogFails
<1>6. Rotate(r) =>
        IF holder' = r THEN UNCHANGED requestVars ELSE Continues(r, {"rotating"})
  BY MutexSteps, RecordsAssumption DEF Rotate, HolderOK, requestVars
<1>7. Count(r) => Ends(r, {"stamped"})
  BY DEF Count
<1> QED BY <1>1, <1>2, <1>3, <1>4, <1>5, <1>6, <1>7

\* The number of a record is its own, and it has one as long as it is pending.
LEMMA NumbersStep ==
  ASSUME RequestsTyped, NumbersOK, HolderOK, [Next]_vars
  PROVE  RequestsTyped' /\ NumbersOK'
<1> DEFINE TypedNext == /\ at' \in [Requests -> Places] /\ answered' \in Nat
                        /\ number' \in [Requests -> 0..answered']
<1>1. log' = log /\ sinks' = sinks
  BY MutexSteps DEF Next, vars, logVars, Arrive, Leave, Respond, NoLogger, LogLine, LogFails,
       Rotate, ReadClock, Count, Tick, Kill
<1>2. ASSUME NEW r \in Requests, NEW from \in SUBSET Places, NEW to \in SUBSET Places,
             Keeps(r, from, to), answered' = answered,
             \A p \in from, q \in to :
               p \in {"body", "rotating", "logged", "stamped"} <=>
               q \in {"body", "rotating", "logged", "stamped"}
      PROVE  TypedNext /\ NumbersOK'
  BY <1>2 DEF RequestsTyped, NumbersOK, Pending, Keeps, OnlyMoves
<1>3. ASSUME NEW r \in Requests, NEW from, Ends(r, from), answered' = answered
      PROVE  TypedNext /\ NumbersOK'
  BY <1>3 DEF RequestsTyped, NumbersOK, Pending, Ends, OnlyMoves, Places
<1>4. ASSUME NEW r \in Requests, NEW from \in SUBSET {"body", "rotating"},
             Continues(r, from), answered' = answered
      PROVE  TypedNext /\ NumbersOK'
  <2>1. from \in SUBSET Places /\ {"logged"} \in SUBSET Places
    BY DEF Places
  <2>2. CASE Keeps(r, from, {"logged"})
    BY <1>2, <1>4, <2>1, <2>2, SMTT(60)
  <2>3. CASE Ends(r, from)
    BY <1>3, <1>4, <2>3
  <2> QED BY <1>4, <2>2, <2>3 DEF Continues
<1>5. ASSUME NEW r \in Requests, NEW route, Arrive(r, route)
      PROVE  TypedNext /\ NumbersOK'
  BY <1>2, <1>5, MovesOf DEF Arrive, Places
<1>6. ASSUME NEW r \in Requests, Leave(r)
      PROVE  TypedNext /\ NumbersOK'
  BY <1>3, <1>6, MovesOf DEF Leave
<1>7. ASSUME NEW r \in Requests, Respond(r)
      PROVE  TypedNext /\ NumbersOK'
  BY <1>7 DEF Respond, Move, RequestsTyped, NumbersOK, Pending, Places
<1>8. ASSUME NEW r \in Requests, NoLogger(r)
      PROVE  TypedNext /\ NumbersOK'
  BY <1>4, <1>8, MovesOf DEF NoLogger
<1>9. ASSUME NEW r \in Requests, LogLine(r)
      PROVE  TypedNext /\ NumbersOK'
  BY <1>2, <1>4, <1>9, MovesOf DEF LogLine, Places
<1>10. ASSUME NEW r \in Requests, LogFails(r)
       PROVE  TypedNext /\ NumbersOK'
  BY <1>4, <1>10, MovesOf DEF LogFails
<1>11. ASSUME NEW r \in Requests, Rotate(r)
       PROVE  TypedNext /\ NumbersOK'
  <2>1. CASE holder' = r
    BY <1>11, <2>1, MovesOf DEF requestVars, Rotate, RequestsTyped, NumbersOK, Pending
  <2>2. CASE holder' # r
    BY <1>4, <1>11, <2>2, MovesOf DEF Rotate
  <2> QED BY <2>1, <2>2
<1>12. ASSUME NEW r \in Requests, ReadClock(r)
       PROVE  TypedNext /\ NumbersOK'
  BY <1>12 DEF ReadClock, Move, RequestsTyped, NumbersOK, Pending, Places
<1>13. ASSUME NEW r \in Requests, Count(r)
       PROVE  TypedNext /\ NumbersOK'
  BY <1>3, <1>13, MovesOf DEF Count
<1>14. ASSUME Tick \/ UNCHANGED vars
       PROVE  TypedNext /\ NumbersOK'
  BY <1>14 DEF Tick, vars, requestVars, RequestsTyped, NumbersOK, Pending
<1>15. ASSUME Kill
       PROVE  TypedNext /\ NumbersOK'
  BY <1>15 DEF Kill, All, RequestsTyped, NumbersOK, Pending, Places
<1>16. TypedNext /\ NumbersOK'
  BY <1>5, <1>6, <1>7, <1>8, <1>9, <1>10, <1>11, <1>12, <1>13, <1>14, <1>15 DEF Next
<1> QED BY <1>1, <1>16 DEF RequestsTyped

\* The request that holds the mutex is the one that rotates.
LEMMA HolderStep ==
  ASSUME RequestsTyped, HolderOK, [Next]_vars
  PROVE  HolderOK'
<1>1. ASSUME NEW r \in Requests, NEW from \in SUBSET (Places \ {"rotating"}),
             NEW to \in SUBSET (Places \ {"rotating"}), OnlyMoves(r, from, to), holder' = holder, sinks' = sinks
      PROVE  HolderOK'
  BY <1>1 DEF RequestsTyped, HolderOK, OnlyMoves
<1>2. ASSUME NEW r \in Requests, NEW from \in SUBSET (Places \ {"rotating"}),
             Continues(r, from), holder' = holder, sinks' = sinks
      PROVE  HolderOK'
  <2>1. {"logged"} \in SUBSET (Places \ {"rotating"}) /\ {"away"} \in SUBSET (Places \ {"rotating"})
    BY DEF Places
  <2> QED BY <1>1, <1>2, <2>1 DEF Continues, Keeps, Ends
<1>3. /\ {"away"} \in SUBSET (Places \ {"rotating"})
      /\ {"unrecorded", "handled"} \in SUBSET (Places \ {"rotating"})
      /\ {"body"} \in SUBSET (Places \ {"rotating"})
      /\ {"stamped"} \in SUBSET (Places \ {"rotating"})
  BY DEF Places
<1>4. ASSUME NEW r \in Requests, NEW route, Arrive(r, route)
      PROVE  HolderOK'
  BY <1>1, <1>3, <1>4, MovesOf DEF Arrive, Keeps, logVars
<1>5. ASSUME NEW r \in Requests, Leave(r)
      PROVE  HolderOK'
  BY <1>1, <1>3, <1>5, MovesOf DEF Leave, Ends, logVars
<1>6. ASSUME NEW r \in Requests, Respond(r)
      PROVE  HolderOK'
  BY <1>6 DEF Respond, Move, logVars, RequestsTyped, HolderOK
<1>7. ASSUME NEW r \in Requests, NoLogger(r)
      PROVE  HolderOK'
  BY <1>2, <1>3, <1>7, MovesOf DEF NoLogger, logVars
<1>8. ASSUME NEW r \in Requests, LogLine(r)
      PROVE  HolderOK'
  <2>1. /\ holder = Nobody /\ holder' \in {Nobody, r}
        /\ "log" \in sinks /\ sinks' = sinks
    BY <1>8, MutexSteps DEF LogLine
  <2>2. CASE holder' = r
    <3>1. at[r] = "body" /\ at' = [at EXCEPT ![r] = "rotating"]
      BY <1>8, <2>2, MovesOf DEF Keeps, OnlyMoves
    <3> QED BY <2>1, <2>2, <3>1, RecordsAssumption DEF RequestsTyped, HolderOK
  <2>3. CASE holder' # r
    BY <1>2, <1>3, <1>8, <2>1, <2>3, MovesOf
  <2> QED BY <2>2, <2>3
<1>9. ASSUME NEW r \in Requests, LogFails(r)
      PROVE  HolderOK'
  <2>1. holder' = holder /\ sinks' = sinks
    BY <1>9, MutexSteps DEF LogFails
  <2> QED BY <1>2, <1>3, <1>9, <2>1, MovesOf
<1>10. ASSUME NEW r \in Requests, Rotate(r)
       PROVE  HolderOK'
  <2>1. /\ holder = r /\ at[r] = "rotating" /\ holder' \in {r, Nobody}
        /\ sinks' = sinks /\ "log" \in sinks
    BY <1>10, MutexSteps, RecordsAssumption DEF Rotate, HolderOK
  <2>2. CASE holder' = r
    BY <1>10, <2>1, <2>2, MovesOf DEF requestVars, HolderOK
  <2>3. CASE holder' # r
    <3>1. \E place \in Places \ {"rotating"} : at' = [at EXCEPT ![r] = place]
      BY <1>10, <2>3, MovesOf DEF Continues, Keeps, Ends, OnlyMoves, Places
    <3> QED BY <2>1, <2>3, <3>1, RecordsAssumption DEF RequestsTyped, HolderOK
  <2> QED BY <2>2, <2>3
<1>11. ASSUME NEW r \in Requests, ReadClock(r)
       PROVE  HolderOK'
  BY <1>11 DEF ReadClock, Move, logVars, RequestsTyped, HolderOK
<1>12. ASSUME NEW r \in Requests, Count(r)
       PROVE  HolderOK'
  BY <1>1, <1>3, <1>12, MovesOf DEF Count, Ends, logVars
<1>13. ASSUME Tick \/ UNCHANGED vars
       PROVE  HolderOK'
  BY <1>13 DEF Tick, vars, requestVars, logVars, HolderOK
<1>14. ASSUME Kill
       PROVE  HolderOK'
  <2>1. (\A r \in Requests : at'[r] = "away") /\ sinks' = sinks
    BY <1>14 DEF Kill, All
  <2>2. CASE "log" \in sinks
    BY <1>14, <2>1, <2>2, MutexSteps, RecordsAssumption DEF Kill, HolderOK
  <2>3. CASE "log" \notin sinks
    BY <1>14, <2>1, <2>3, RecordsAssumption DEF Kill, logVars, HolderOK
  <2> QED BY <2>2, <2>3
<1> QED BY <1>4, <1>5, <1>6, <1>7, <1>8, <1>9, <1>10, <1>11, <1>12, <1>13, <1>14 DEF Next

\* A record that leaves its body has its line, or is excused, and never both.
LEMMA WrittenStep ==
  ASSUME RequestsTyped, NumbersOK, HolderOK, WrittenOK, [Next]_vars
  PROVE  WrittenOK'
<1> DEFINE Lines0 == written' = written /\ excused' = excused
           SameBodies == \A q \in Requests :
                           /\ at'[q] = "body" <=> at[q] = "body"
                           /\ at[q] = "body" => number'[q] = number[q]
<1>1. ASSUME Lines0, SameBodies, answered' = answered, sinks' = sinks
      PROVE  WrittenOK'
  BY <1>1 DEF WrittenOK, HasLine
<1>2. ASSUME NEW r \in Requests, NEW from, OnlyMoves(r, from, Places \ {"body"}), "body" \notin from,
             \A q \in Requests \ {r} : number'[q] = number[q]
      PROVE  SameBodies
  BY <1>2 DEF OnlyMoves, RequestsTyped
<1>3. ASSUME NEW r \in Requests, NEW from, Keeps(r, from, Places \ {"body"}) \/ Ends(r, from)
      PROVE  /\ OnlyMoves(r, from, Places \ {"body"})
             /\ \A q \in Requests \ {r} : number'[q] = number[q]
  BY <1>3 DEF Keeps, Ends, OnlyMoves, RequestsTyped, Places
<1>4. ASSUME NEW r \in Requests, NEW from, Continues(r, from)
      PROVE  Keeps(r, from, Places \ {"body"}) \/ Ends(r, from)
  BY <1>4 DEF Continues, Keeps, OnlyMoves, Places
<1>5. ASSUME NEW r \in Requests, NEW route, Arrive(r, route)
      PROVE  WrittenOK'
  <2>1. Keeps(r, {"away"}, Places \ {"body"})
    BY <1>5, MovesOf DEF Keeps, OnlyMoves, Places
  <2> QED BY <1>1, <1>2, <1>3, <1>5, <2>1 DEF Arrive, historyVars
<1>6. ASSUME NEW r \in Requests, Leave(r)
      PROVE  WrittenOK'
  BY <1>1, <1>2, <1>3, <1>6, MovesOf DEF Leave, historyVars
<1>7. ASSUME NEW r \in Requests, Respond(r)
      PROVE  WrittenOK'
  <2>1. /\ written' = written /\ excused' = excused /\ sinks' = sinks
        /\ answered' = answered + 1
        /\ at[r] # "body" /\ at'[r] = "body" /\ number'[r] = answered + 1
        /\ \A q \in Requests \ {r} : at'[q] = at[q] /\ number'[q] = number[q]
    BY <1>7 DEF Respond, Move, historyVars, RequestsTyped
  <2>2. ASSUME NEW n \in 1..answered', "log" \in sinks
        PROVE  \/ HasLine(n) \/ n \in excused
               \/ \E q \in Requests : at'[q] = "body" /\ number'[q] = n
    BY <2>1, <2>2 DEF WrittenOK, RequestsTyped
  <2>3. ToSet(written) \subseteq 1..answered' /\ excused \subseteq 1..answered'
    BY <2>1 DEF WrittenOK, RequestsTyped
  <2>4. \A q \in Requests : at'[q] = "body" => ~ HasLine(number'[q]) /\ number'[q] \notin excused
    BY <2>1 DEF WrittenOK, RequestsTyped, HasLine
  <2> QED BY <2>1, <2>2, <2>3, <2>4 DEF WrittenOK, HasLine
<1>8. ASSUME NEW r \in Requests, NoLogger(r)
      PROVE  WrittenOK'
  <2>1. /\ Lines0 /\ sinks' = sinks /\ answered' = answered /\ "log" \notin sinks
        /\ \E place \in Places \ {"body"} : at' = [at EXCEPT ![r] = place]
        /\ \A q \in Requests \ {r} : number'[q] = number[q]
    BY <1>3, <1>4, <1>8, MovesOf DEF NoLogger, OnlyMoves, historyVars
  <2> QED BY <2>1 DEF WrittenOK, RequestsTyped, HasLine
<1>9. ASSUME NEW r \in Requests, LogLine(r)
      PROVE  WrittenOK'
  <2>1. Keeps(r, {"body"}, Places \ {"body"}) \/ Ends(r, {"body"})
    BY <1>4, <1>9, MovesOf DEF Keeps, OnlyMoves, Places
  <2>2. /\ at[r] = "body"
        /\ \E place \in Places \ {"body"} : at' = [at EXCEPT ![r] = place]
        /\ \A q \in Requests \ {r} : number'[q] = number[q]
    BY <1>3, <2>1 DEF OnlyMoves
  <2>3. /\ written' = Append(written, number[r]) /\ excused' = excused
        /\ sinks' = sinks /\ answered' = answered
    BY <1>9 DEF LogLine
  <2>4. number[r] \in 1..answered /\ number[r] \in Nat
    BY <2>2 DEF NumbersOK, Pending, RequestsTyped
  <2>5. /\ written' \in Seq(Nat) /\ ToSet(written)' = ToSet(written) \union {number[r]}
        /\ IsInjective(written)'
    BY <2>2, <2>3, <2>4, AppendAdds DEF WrittenOK, HasLine
  <2>6. \A q \in Requests : at'[q] = "body" =>
           q # r /\ at[q] = "body" /\ number'[q] = number[q] /\ number[q] # number[r]
    BY <2>2, <2>4 DEF RequestsTyped, NumbersOK
  <2>7. \A q \in Requests : at[q] = "body" => q = r \/ (at'[q] = "body" /\ number'[q] = number[q])
    BY <2>2 DEF RequestsTyped
  <2>8. "log" \in sinks' =>
           \A n \in 1..answered' :
             \/ n \in ToSet(written)' \/ n \in excused'
             \/ \E q \in Requests : at'[q] = "body" /\ number'[q] = n
    BY <2>3, <2>5, <2>7 DEF WrittenOK, HasLine
  <2>9. \A q \in Requests : at'[q] = "body" =>
           number'[q] \notin ToSet(written)' /\ number'[q] \notin excused'
    BY <2>3, <2>5, <2>6 DEF WrittenOK, HasLine
  <2>10. /\ ToSet(written)' \subseteq 1..answered' /\ excused' \subseteq 1..answered'
         /\ ToSet(written)' \intersect excused' = {}
    BY <2>2, <2>3, <2>4, <2>5 DEF WrittenOK
  <2> QED BY <2>5, <2>8, <2>9, <2>10 DEF WrittenOK, HasLine
<1>10. ASSUME NEW r \in Requests, LogFails(r)
      PROVE  WrittenOK'
  <2>1. /\ at[r] = "body"
        /\ \E place \in Places \ {"body"} : at' = [at EXCEPT ![r] = place]
        /\ \A q \in Requests \ {r} : number'[q] = number[q]
    BY <1>3, <1>4, <1>10, MovesOf DEF OnlyMoves
  <2>2. /\ written' = written /\ excused' = excused \union {number[r]}
        /\ sinks' = sinks /\ answered' = answered
    BY <1>10 DEF LogFails
  <2>3. number[r] \in 1..answered
    BY <2>1 DEF NumbersOK, Pending, RequestsTyped
  <2>4. \A q \in Requests : at'[q] = "body" =>
           q # r /\ at[q] = "body" /\ number'[q] = number[q] /\ number[q] # number[r]
    BY <2>1, <2>3 DEF RequestsTyped, NumbersOK
  <2>5. \A q \in Requests : at[q] = "body" => q = r \/ (at'[q] = "body" /\ number'[q] = number[q])
    BY <2>1 DEF RequestsTyped
  <2> QED BY <2>1, <2>2, <2>3, <2>4, <2>5 DEF WrittenOK, HasLine
<1>11. ASSUME NEW r \in Requests, Rotate(r)
      PROVE  WrittenOK'
  <2>1. Lines0 /\ sinks' = sinks /\ answered' = answered
    BY <1>11 DEF Rotate
  <2>2. SameBodies
    <3>1. CASE holder' = r
      BY <1>11, <3>1, MovesOf DEF requestVars
    <3>2. CASE holder' # r
      BY <1>2, <1>3, <1>4, <1>11, <3>2, MovesOf
    <3> QED BY <3>1, <3>2
  <2> QED BY <1>1, <2>1, <2>2
<1>12. ASSUME NEW r \in Requests, ReadClock(r)
      PROVE  WrittenOK'
  BY <1>1, <1>12 DEF ReadClock, Move, historyVars, RequestsTyped
<1>13. ASSUME NEW r \in Requests, Count(r)
      PROVE  WrittenOK'
  BY <1>1, <1>2, <1>3, <1>13, MovesOf DEF Count
<1>14. ASSUME Tick \/ UNCHANGED vars
      PROVE  WrittenOK'
  BY <1>1, <1>14 DEF Tick, vars, requestVars, historyVars
<1>15. ASSUME Kill
      PROVE  WrittenOK'
  <2>1. \A r \in Requests : at[r] = "body" => number[r] \in 1..answered
    BY DEF NumbersOK, Pending, RequestsTyped
  <2>2. /\ written' = written /\ sinks' = sinks /\ answered' = answered
        /\ excused' = excused \union {number[r] : r \in {q \in Requests : at[q] = "body"}}
        /\ \A r \in Requests : at'[r] = "away"
    BY <1>15 DEF Kill, All
  <2>3. excused' \subseteq 1..answered'
    BY <2>1, <2>2, ZenonT(60) DEF WrittenOK
  <2>4. ToSet(written)' \intersect excused' = {}
    <3>1. ToSet(written)' = ToSet(written)
      BY <2>2
    <3>2. \A n \in excused' : n \notin ToSet(written)
      BY <2>2 DEF WrittenOK, HasLine
    <3> QED BY <3>1, <3>2
  <2>5. "log" \in sinks' => \A n \in 1..answered' : n \in ToSet(written)' \/ n \in excused'
    BY <2>2 DEF WrittenOK, HasLine
  <2> QED BY <2>2, <2>3, <2>4, <2>5 DEF WrittenOK, HasLine
<1> QED BY <1>5, <1>6, <1>7, <1>8, <1>9, <1>10, <1>11, <1>12, <1>13, <1>14, <1>15 DEF Next

\* A record that is done with has been counted, if the dashboard is there.
LEMMA CountedStep ==
  ASSUME RequestsTyped, NumbersOK, HolderOK, CountedOK, [Next]_vars
  PROVE  CountedOK'
<1> DEFINE SameCounts == counted' = counted /\ started' = started
           Typed == stamp' \in [Requests -> Nat] /\ clock' \in Nat
           SameNumbers == number' = number /\ answered' = answered
<1>1. ASSUME SameCounts, Typed, SameNumbers, sinks' = sinks
      PROVE  CountedOK'
  BY <1>1 DEF CountedOK, CountedNumbers
<1>2. ASSUME NEW r \in Requests, NEW from, Ends(r, from), number[r] = 0 \/ "dashboard" \notin sinks,
             SameCounts, clock' = clock, answered' = answered, sinks' = sinks
      PROVE  CountedOK'
  <2>1. /\ number' = [number EXCEPT ![r] = 0] /\ Typed
        /\ CountedNumbers' = CountedNumbers /\ 0 \notin CountedNumbers
    BY <1>2 DEF Ends, CountedOK, CountedNumbers
  <2>2. \A q \in Requests : number'[q] \notin CountedNumbers
    BY <2>1 DEF RequestsTyped, CountedOK
  <2>3. "dashboard" \in sinks => \A q \in Requests : number'[q] = number[q]
    BY <1>2, <2>1 DEF RequestsTyped
  <2> QED BY <1>2, <2>1, <2>2, <2>3 DEF CountedOK
<1>3. ASSUME NEW r \in Requests, NEW from, Continues(r, from),
             SameCounts, clock' = clock, answered' = answered, sinks' = sinks
      PROVE  CountedOK'
  <2>1. CASE "dashboard" \in sinks
    BY <1>1, <1>3, <2>1 DEF Continues, Keeps, CountedOK
  <2>2. CASE "dashboard" \notin sinks
    BY <1>2, <1>3, <2>2 DEF Continues
  <2> QED BY <2>1, <2>2
<1>4. ASSUME NEW r \in Requests, NEW route, Arrive(r, route)
      PROVE  CountedOK'
  BY <1>1, <1>4 DEF Arrive, historyVars, CountedOK
<1>5. ASSUME NEW r \in Requests, Leave(r)
      PROVE  CountedOK'
  <2>1. number[r] = 0
    BY <1>5 DEF Leave, NumbersOK, Pending
  <2> QED BY <1>2, <1>5, <2>1, MovesOf DEF Leave, historyVars
<1>6. ASSUME NEW r \in Requests, Respond(r)
      PROVE  CountedOK'
  <2>1. /\ SameCounts /\ stamp' = stamp /\ clock' = clock /\ sinks' = sinks
        /\ answered' = answered + 1
        /\ number[r] = 0 /\ number' = [number EXCEPT ![r] = answered + 1]
        /\ CountedNumbers' = CountedNumbers
    BY <1>6 DEF Respond, historyVars, NumbersOK, Pending, CountedNumbers
  <2>2. CountedNumbers \subseteq 1..answered' /\ started \in 0..answered'
    BY <2>1 DEF CountedOK, RequestsTyped
  <2>3. answered + 1 \notin CountedNumbers
    BY DEF CountedOK, RequestsTyped
  <2>4. \A q \in Requests : number'[q] \notin CountedNumbers
    BY <2>1, <2>3 DEF CountedOK, RequestsTyped
  <2>5. \A q \in Requests : number[q] # 0 => number'[q] = number[q]
    BY <2>1 DEF RequestsTyped
  <2>6. ASSUME NEW n \in 1..answered', n > started, "dashboard" \in sinks
        PROVE  n \in CountedNumbers \/ \E q \in Requests : number'[q] = n
    <3>1. CASE n = answered + 1
      BY <2>1, <3>1 DEF RequestsTyped
    <3>2. CASE n # answered + 1
      <4>1. n \in 1..answered /\ n # 0
        BY <2>1, <3>2 DEF RequestsTyped
      <4> QED BY <2>5, <2>6, <4>1 DEF CountedOK
    <3> QED BY <3>1, <3>2
  <2> QED BY <2>1, <2>2, <2>4, <2>6 DEF CountedOK
<1>7. ASSUME NEW r \in Requests, NoLogger(r)
      PROVE  CountedOK'
  BY <1>3, <1>7, MovesOf DEF NoLogger, historyVars
<1>8. ASSUME NEW r \in Requests, LogLine(r)
      PROVE  CountedOK'
  <2>1. SameCounts /\ clock' = clock /\ answered' = answered /\ sinks' = sinks
    BY <1>8 DEF LogLine
  <2>2. CASE holder' = r
    BY <1>1, <1>8, <2>1, <2>2, MovesOf DEF Keeps, CountedOK
  <2>3. CASE holder' # r
    BY <1>3, <1>8, <2>1, <2>3, MovesOf
  <2> QED BY <2>2, <2>3
<1>9. ASSUME NEW r \in Requests, LogFails(r)
      PROVE  CountedOK'
  BY <1>3, <1>9, MovesOf DEF LogFails
<1>10. ASSUME NEW r \in Requests, Rotate(r)
       PROVE  CountedOK'
  <2>1. SameCounts /\ clock' = clock /\ answered' = answered /\ sinks' = sinks
    BY <1>10 DEF Rotate
  <2>2. CASE holder' = r
    BY <1>1, <1>10, <2>1, <2>2, MovesOf DEF requestVars, CountedOK
  <2>3. CASE holder' # r
    BY <1>3, <1>10, <2>1, <2>3, MovesOf
  <2> QED BY <2>2, <2>3
<1>11. ASSUME NEW r \in Requests, ReadClock(r)
       PROVE  CountedOK'
  <2>1. SameCounts /\ SameNumbers /\ sinks' = sinks
    BY <1>11 DEF ReadClock, historyVars
  <2>2. Typed
    BY <1>11 DEF ReadClock, CountedOK
  <2> QED BY <1>1, <2>1, <2>2
<1>12. ASSUME NEW r \in Requests, Count(r)
       PROVE  CountedOK'
  <2> DEFINE e == [now |-> stamp[r], number |-> number[r]]
             N == {counted[i].number : i \in DOMAIN counted}
  <2>1. /\ counted' = Append(counted, e) /\ started' = started /\ clock' = clock
        /\ answered' = answered /\ sinks' = sinks /\ Ends(r, {"stamped"})
    BY <1>12, MovesOf DEF Count
  <2>2. number[r] \in 1..answered
    BY <1>12 DEF Count, NumbersOK, Pending, RequestsTyped
  <2>3. e \in [now : Nat, number : Nat] /\ e.number = number[r]
    BY <2>2 DEF CountedOK
  <2>4. counted \in Seq([now : Nat, number : Nat])
    BY DEF CountedOK
  <2>5. /\ counted' \in Seq([now : Nat, number : Nat])
        /\ Len(counted') = Len(counted) + 1
    BY <2>1, <2>3, <2>4
  <2>6. CountedNumbers' = CountedNumbers \union {number[r]}
    <3>1. {Append(counted, e)[i].number : i \in DOMAIN Append(counted, e)} = N \union {e.number}
      BY <2>3, <2>4, CountedGrows
    <3> QED BY <2>1, <2>3, <3>1 DEF CountedNumbers
  <2>7. number[r] \notin CountedNumbers /\ CountedNumbers \subseteq 1..answered
    BY DEF CountedOK
  <2>8. Cardinality(CountedNumbers \union {number[r]}) = Cardinality(CountedNumbers) + 1
    <3>1. IsFiniteSet(1..answered)
      BY FS_Interval DEF RequestsTyped
    <3>2. IsFiniteSet(CountedNumbers)
      BY <2>7, <3>1, FS_Subset
    <3> QED BY <2>7, <3>2, FS_AddElement
  <2>9. /\ number' = [number EXCEPT ![r] = 0]
        /\ stamp' \in [Requests -> Nat]
    BY <2>1 DEF Ends, CountedOK
  <2>10. \A q \in Requests : number'[q] \notin CountedNumbers'
    <3>1. \A q \in Requests \ {r} : number'[q] = number[q] /\ number[q] # number[r]
      BY <2>2, <2>9 DEF RequestsTyped, NumbersOK
    <3>2. number'[r] = 0
      BY <2>9 DEF RequestsTyped
    <3> QED BY <2>2, <2>6, <2>7, <3>1, <3>2 DEF CountedOK
  <2>11. \A q \in Requests : number[q] = number[r] \/ number'[q] = number[q]
    BY <2>9 DEF RequestsTyped
  <2>12. "dashboard" \in sinks =>
           \A n \in 1..answered :
             n > started => n \in CountedNumbers' \/ \E q \in Requests : number'[q] = n
    BY <2>6, <2>11 DEF CountedOK
  <2> HIDE DEF e, N
  <2> QED BY <2>1, <2>2, <2>5, <2>6, <2>7, <2>8, <2>9, <2>10, <2>12 DEF CountedOK
<1>13. ASSUME Tick \/ UNCHANGED vars
       PROVE  CountedOK'
  <2>1. SameCounts /\ SameNumbers /\ sinks' = sinks
    BY <1>13 DEF Tick, vars, requestVars, historyVars
  <2>2. Typed
    BY <1>13 DEF Tick, vars, requestVars, CountedOK
  <2> QED BY <1>1, <2>1, <2>2
<1>14. ASSUME Kill
       PROVE  CountedOK'
  <2>1. /\ counted' = <<>> /\ started' = answered /\ answered' = answered /\ clock' = clock
        /\ number' = All(0) /\ stamp' = All(0)
    BY <1>14 DEF Kill
  <2>2. CountedNumbers' = {} /\ Cardinality(CountedNumbers') = 0
    BY <2>1, FS_EmptySet DEF CountedNumbers
  <2> QED BY <2>1, <2>2 DEF All, CountedOK, RequestsTyped
<1> QED BY <1>4, <1>5, <1>6, <1>7, <1>8, <1>9, <1>10, <1>11, <1>12, <1>13, <1>14 DEF Next

--------------------------------------------------------------------------------
(***************************************************************************)
(* RequestsInv holds throughout: however the requests, the failures of the *)
(* log and the kills overlap, numbers, lines and counts stay in step.      *)
(***************************************************************************)
LEMMA RequestsInvStep == RequestsInv /\ [Next]_vars => RequestsInv'
BY NumbersStep, HolderStep, WrittenStep, CountedStep DEF RequestsInv

\* The numbers, lines and counts of all requests stay in step.
THEOREM RequestsInvariant == Spec => []RequestsInv
BY RequestsInvInit, RequestsInvStep, PTL DEF Spec

(***************************************************************************)
(* Each response that has ended has its line, once, or the log is excused, *)
(* and each that ended since the start has been counted, once: the drop of *)
(* the pending record, for every interleaving.                             *)
(***************************************************************************)
THEOREM EachRecordedOnce == Spec => []RecordedOnce
<1>1. RequestsInv => RecordedOnce
  <2> SUFFICES ASSUME RequestsInv PROVE RecordedOnce
    OBVIOUS
  <2> USE DEF RequestsInv
  <2>1. ASSUME "log" \in sinks PROVE Ended \subseteq ToSet(written) \union excused
    BY <2>1 DEF WrittenOK, HasLine, Ended
  <2>2. ASSUME "dashboard" \in sinks
        PROVE  \A n \in Ended : n > started => n \in CountedNumbers
    BY <2>2 DEF CountedOK, Ended
  <2> QED BY <2>1, <2>2 DEF RecordedOnce, WrittenOK, CountedOK
<1> QED BY <1>1, RequestsInvariant, PTL

--------------------------------------------------------------------------------
(* The dashboard.                                                            *)

CountersType ==
  [total : Nat, ok : Nat, client_errors : Nat, server_errors : Nat,
   cache_hits : Nat, completion_tokens : Nat]
RecordType == [status : Nat, cache_hit : BOOLEAN, completion_tokens : Nat]
RecentType == [ts : Nat, record : RecordType]
BucketType == [t : Nat, c : CountersType]
BoardType == [counters : CountersType, buckets : Seq(BucketType), recent : Seq(RecentType)]

Recents == [i \in DOMAIN counted |-> Recent(counted[i])]

\* Every request counted since the start is in the total, under one status.
TotalsAddUp ==
  /\ board.counters.total = Len(counted)
  /\ board.counters.total =
       board.counters.ok + board.counters.client_errors + board.counters.server_errors

BoardOK ==
  /\ answered <= MaxRecords
  /\ board \in BoardType
  /\ Recents \in Seq(RecentType)
  /\ Len(board.buckets) <= MAX_BUCKETS
  /\ RecentIsNewest /\ TotalsAddUp

\* Newest keeps the last n, or all where there are no more.
LEMMA NewestKeeps ==
  ASSUME NEW S, NEW s \in Seq(S), NEW n \in Nat
  PROVE  /\ Newest(s, n) \in Seq(S)
         /\ Len(Newest(s, n)) = IF Len(s) > n THEN n ELSE Len(s)
         /\ \A i \in 1..Len(Newest(s, n)) : Newest(s, n)[i] = s[Len(s) - Len(Newest(s, n)) + i]
<1> DEFINE m == IF Len(s) > n THEN Len(s) - n + 1 ELSE 1
<1>1. /\ m \in 1..(Len(s) + 1) /\ Len(s) \in Nat
      /\ IF m <= Len(s) THEN Len(s) - m + 1 = (IF Len(s) > n THEN n ELSE Len(s))
                        ELSE (IF Len(s) > n THEN n ELSE Len(s)) = 0
  OBVIOUS
<1>2. Newest(s, n) = SubSeq(s, m, Len(s))
  BY DEF Newest
<1> HIDE DEF m
<1>3. /\ SubSeq(s, m, Len(s)) \in Seq(S)
      /\ Len(SubSeq(s, m, Len(s))) = IF m <= Len(s) THEN Len(s) - m + 1 ELSE 0
      /\ \A i \in 1..(Len(s) - m + 1) : SubSeq(s, m, Len(s))[i] = s[m + i - 1]
  BY <1>1, SubSeqProperties
<1>4. \A i \in 1..Len(Newest(s, n)) :
        /\ i \in 1..(Len(s) - m + 1)
        /\ m + i - 1 = Len(s) - Len(Newest(s, n)) + i
  <2>1. /\ Len(Newest(s, n)) = IF m <= Len(s) THEN Len(s) - m + 1 ELSE 0
        /\ m \in Nat /\ Len(s) \in Nat
    BY <1>1, <1>2, <1>3
  <2>2. CASE m <= Len(s)
    BY <2>1, <2>2
  <2>3. CASE ~ (m <= Len(s))
    BY <2>1, <2>3
  <2> QED BY <2>2, <2>3
<1> QED BY <1>1, <1>2, <1>3, <1>4

\* Dropping the oldest before or after an addition comes to the same.
LEMMA NewestOfNewest ==
  ASSUME NEW S, NEW s \in Seq(S), NEW e \in S, NEW n \in Nat
  PROVE  Newest(Append(Newest(s, n), e), n) = Newest(Append(s, e), n)
<1> DEFINE k == Newest(s, n)
           t == Append(k, e)
           u == Append(s, e)
           l == Newest(t, n)
           r == Newest(u, n)
<1>1. /\ k \in Seq(S) /\ Len(k) = IF Len(s) > n THEN n ELSE Len(s)
      /\ \A i \in 1..Len(k) : k[i] = s[Len(s) - Len(k) + i]
  BY NewestKeeps
<1> HIDE DEF k
<1>2. /\ t \in Seq(S) /\ Len(t) = Len(k) + 1 /\ t[Len(k) + 1] = e
      /\ \A i \in 1..Len(k) : t[i] = k[i]
      /\ u \in Seq(S) /\ Len(u) = Len(s) + 1 /\ u[Len(s) + 1] = e
      /\ \A i \in 1..Len(s) : u[i] = s[i]
      /\ Len(k) \in Nat /\ Len(s) \in Nat
  BY <1>1
<1> HIDE DEF t, u
<1>3. /\ l \in Seq(S) /\ Len(l) = IF Len(t) > n THEN n ELSE Len(t)
      /\ \A i \in 1..Len(l) : l[i] = t[Len(t) - Len(l) + i]
      /\ r \in Seq(S) /\ Len(r) = IF Len(u) > n THEN n ELSE Len(u)
      /\ \A i \in 1..Len(r) : r[i] = u[Len(u) - Len(r) + i]
  <2>1. t \in Seq(S) /\ u \in Seq(S)
    BY <1>2
  <2>2. /\ l \in Seq(S) /\ Len(l) = IF Len(t) > n THEN n ELSE Len(t)
        /\ \A i \in 1..Len(l) : l[i] = t[Len(t) - Len(l) + i]
    BY <2>1, NewestKeeps
  <2>3. /\ r \in Seq(S) /\ Len(r) = IF Len(u) > n THEN n ELSE Len(u)
        /\ \A i \in 1..Len(r) : r[i] = u[Len(u) - Len(r) + i]
    BY <2>1, NewestKeeps
  <2> QED BY <2>2, <2>3
<1> HIDE DEF l, r
<1>4. /\ Len(l) = Len(r) /\ Len(l) \in Nat /\ Len(l) <= Len(k) + 1 /\ Len(k) <= Len(s)
      /\ Len(k) < Len(s) => Len(l) <= Len(k)
  <2>1. /\ Len(k) = IF Len(s) > n THEN n ELSE Len(s)
        /\ Len(l) = IF Len(k) + 1 > n THEN n ELSE Len(k) + 1
        /\ Len(r) = IF Len(s) + 1 > n THEN n ELSE Len(s) + 1
        /\ Len(s) \in Nat /\ Len(k) \in Nat
    BY <1>1, <1>2, <1>3
  <2> QED BY <2>1
<1>5. ASSUME NEW i \in 1..Len(l)
      PROVE  l[i] = r[i]
  <2>1. l[i] = t[Len(t) - Len(l) + i] /\ r[i] = u[Len(u) - Len(l) + i]
    BY <1>3, <1>4
  <2>2. CASE i = Len(l)
    BY <1>2, <1>3, <2>1, <2>2
  <2>3. CASE i < Len(l)
    <3>1. PICK j : j = Len(t) - Len(l) + i
      OBVIOUS
    <3>2. j \in 1..Len(k) /\ Len(s) - Len(k) + j \in 1..Len(s)
          /\ Len(s) - Len(k) + j = Len(u) - Len(l) + i
      <4>1. /\ Len(t) = Len(k) + 1 /\ Len(u) = Len(s) + 1
            /\ Len(s) \in Nat /\ Len(k) \in Nat /\ i \in Nat /\ i >= 1
        BY <1>2
      <4> QED BY <1>4, <2>3, <3>1, <4>1
    <3>3. t[j] = s[Len(s) - Len(k) + j] /\ u[Len(s) - Len(k) + j] = s[Len(s) - Len(k) + j]
      BY <1>1, <1>2, <3>2
    <3> QED BY <2>1, <3>1, <3>2, <3>3
  <2> QED BY <1>3, <2>2, <2>3
<1>6. l = r
  BY <1>3, <1>4, <1>5
<1> QED BY <1>6 DEF l, r, t, u, k

\* The counters of one record: one request, under one status.
LEMMA OneRecordCounts ==
  ASSUME NEW record \in RecordType
  PROVE  /\ CountersOf(record) \in CountersType
         /\ CountersOf(record).total = 1
         /\ CountersOf(record).ok + CountersOf(record).client_errors
              + CountersOf(record).server_errors = 1
BY DEF RecordType, CountersOf, CountersType, OneIf

\* Counters are added one by one.
LEMMA PlusAdds ==
  ASSUME NEW c \in CountersType, NEW d \in CountersType
  PROVE  /\ Plus(c, d) \in CountersType
         /\ Plus(c, d).total = c.total + d.total
         /\ Plus(c, d).ok = c.ok + d.ok
         /\ Plus(c, d).client_errors = c.client_errors + d.client_errors
         /\ Plus(c, d).server_errors = c.server_errors + d.server_errors
<1>1. DOMAIN c = {"total", "ok", "client_errors", "server_errors", "cache_hits", "completion_tokens"}
  BY DEF CountersType
<1>2. \A f \in DOMAIN c : Plus(c, d)[f] = c[f] + d[f]
  BY DEF Plus
<1>3. Plus(c, d) \in CountersType
  BY DEF Plus, CountersType
<1> QED BY <1>1, <1>2, <1>3

\* A bucket that is added to, or is new, is a bucket.
LEMMA AddToType ==
  ASSUME NEW buckets \in Seq(BucketType), NEW t \in Nat, NEW c \in CountersType
  PROVE  AddTo(buckets, t, c) \in Seq(BucketType)
<1>1. CASE InLast(buckets, t)
  <2> DEFINE n == Len(buckets)
  <2>1. n \in 1..Len(buckets) /\ buckets[n] \in BucketType
    BY <1>1 DEF InLast
  <2>2. [buckets[n] EXCEPT !.c = Plus(@, c)] \in BucketType
    BY <2>1, PlusAdds DEF BucketType
  <2>3. AddTo(buckets, t, c) = [buckets EXCEPT ![n] = [buckets[n] EXCEPT !.c = Plus(@, c)]]
    BY <1>1 DEF AddTo
  <2> HIDE DEF n
  <2> QED BY <2>1, <2>2, <2>3
<1>2. CASE ~ InLast(buckets, t)
  <2>1. [t |-> t, c |-> c] \in BucketType
    BY DEF BucketType
  <2> QED BY <1>2, <2>1 DEF AddTo
<1> QED BY <1>1, <1>2

\* A bucket more, and at most MAX_BUCKETS of them.
LEMMA BucketsBounded ==
  ASSUME NEW buckets \in Seq(BucketType), NEW t \in Nat, NEW c \in CountersType, BoardAssumption
  PROVE  /\ Newest(AddTo(buckets, t, c), MAX_BUCKETS) \in Seq(BucketType)
         /\ Len(Newest(AddTo(buckets, t, c), MAX_BUCKETS)) <= MAX_BUCKETS
<1>1. AddTo(buckets, t, c) \in Seq(BucketType)
  BY AddToType
<1>2. MAX_BUCKETS \in Nat
  BY DEF BoardAssumption
<1> QED BY <1>1, <1>2, NewestKeeps

\* At the start the dashboard is empty.
LEMMA BoardInit == Init => BoardOK
<1> SUFFICES ASSUME Init PROVE BoardOK
  OBVIOUS
<1>1. /\ board = NewBoard /\ counted = <<>> /\ answered = 0
      /\ MaxRecords \in Nat /\ MAX_BUCKETS \in Nat /\ MaxRecent \in Nat
  BY RecordsAssumption, BoardAssumption DEF Init
<1>2. Recents = <<>> /\ <<>> \in Seq(RecentType) /\ <<>> \in Seq(BucketType) /\ Len(<<>>) = 0
  <2>1. DOMAIN counted = {}
    BY <1>1
  <2> QED BY <2>1 DEF Recents
<1>3. RecentIsNewest
  <2>1. Newest(<<>>, MaxRecent) = <<>>
    <3>1. /\ Newest(<<>>, MaxRecent) \in Seq(RecentType)
          /\ Len(Newest(<<>>, MaxRecent)) = IF Len(<<>>) > MaxRecent THEN MaxRecent ELSE Len(<<>>)
      BY <1>1, <1>2, NewestKeeps
    <3>2. Len(Newest(<<>>, MaxRecent)) = 0
      BY <1>1, <1>2, <3>1
    <3> QED BY <3>1, <3>2
  <2>2. Recents = [i \in DOMAIN counted |-> Recent(counted[i])]
    BY DEF Recents
  <2> QED BY <1>1, <1>2, <2>1, <2>2 DEF RecentIsNewest, NewBoard
<1>4. NewBoard \in BoardType
  BY <1>2 DEF NewBoard, BoardType, ZeroCounters, CountersType
<1>5. TotalsAddUp /\ Len(board.buckets) <= MAX_BUCKETS
  BY <1>1, <1>2 DEF NewBoard, ZeroCounters, TotalsAddUp
<1> QED BY <1>1, <1>2, <1>3, <1>4, <1>5 DEF BoardOK

\* Only a count and a kill change the dashboard, together with what was counted.
LEMMA BoardStep == RequestsInv /\ BoardOK /\ [Next]_vars => BoardOK'
<1> SUFFICES ASSUME RequestsInv, BoardOK, [Next]_vars PROVE BoardOK'
  OBVIOUS
<1>1. ASSUME board' = board, counted' = counted, answered' = answered
      PROVE  BoardOK'
  BY <1>1 DEF BoardOK, Recents, RecentIsNewest, Recent, TotalsAddUp
<1>2. ASSUME NEW r \in Requests, Respond(r)
      PROVE  BoardOK'
  <2>1. board' = board /\ counted' = counted /\ answered' = answered + 1 /\ answered < MaxRecords
    BY <1>2 DEF Respond, historyVars
  <2>2. answered' <= MaxRecords
    BY <2>1, RecordsAssumption DEF RequestsInv, RequestsTyped
  <2> QED BY <2>1, <2>2 DEF BoardOK, Recents, RecentIsNewest, Recent, TotalsAddUp
<1>3. ASSUME Kill
      PROVE  BoardOK'
  <2>1. board' = NewBoard /\ counted' = <<>> /\ answered' = answered
    BY <1>3 DEF Kill
  <2>2. DOMAIN counted' = {} /\ <<>> \in Seq(RecentType) /\ Recents' = <<>>
    BY <2>1 DEF Recents
  <2>3. /\ MAX_BUCKETS \in Nat /\ MaxRecent \in Nat /\ Len(<<>>) = 0
        /\ <<>> \in Seq(BucketType)
    BY BoardAssumption
  <2>4. Newest(<<>>, MaxRecent) = <<>>
    <3>1. /\ Newest(<<>>, MaxRecent) \in Seq(RecentType)
          /\ Len(Newest(<<>>, MaxRecent)) = IF Len(<<>>) > MaxRecent THEN MaxRecent ELSE Len(<<>>)
      BY <2>2, <2>3, NewestKeeps
    <3>2. Len(Newest(<<>>, MaxRecent)) = 0
      BY <2>3, <3>1
    <3> QED BY <3>1, <3>2
  <2>5. RecentIsNewest'
    <3>1. Recents' = [i \in DOMAIN counted' |-> Recent(counted'[i])]
      BY DEF Recents, Recent
    <3> QED BY <2>1, <2>2, <2>4, <3>1 DEF RecentIsNewest, NewBoard, Recent, Newest
  <2>6. NewBoard \in BoardType
    BY <2>2, <2>3 DEF NewBoard, BoardType, ZeroCounters, CountersType
  <2>7. TotalsAddUp' /\ Len(board'.buckets) <= MAX_BUCKETS
    BY <2>1, <2>3 DEF NewBoard, ZeroCounters, TotalsAddUp
  <2> QED BY <2>1, <2>2, <2>5, <2>6, <2>7 DEF BoardOK
<1>4. ASSUME NEW r \in Requests, Count(r)
      PROVE  BoardOK'
  <2> DEFINE e == [now |-> stamp[r], number |-> number[r]]
             record == Outcome[number[r]]
  <2>1. /\ board' = AddEvent(board, stamp[r], record) /\ counted' = Append(counted, e)
        /\ answered' = answered
    BY <1>4 DEF Count
  <2>2. /\ stamp[r] \in Nat /\ number[r] \in 1..MaxRecords
        /\ e \in [now : Nat, number : Nat] /\ counted \in Seq([now : Nat, number : Nat])
    BY <1>4, RecordsAssumption
       DEF Count, RequestsInv, RequestsTyped, NumbersOK, Pending, CountedOK, BoardOK
  <2>3. record \in RecordType
    BY <2>2, RecordsAssumption DEF RecordType
  <2>4. Recent(e) = [ts |-> stamp[r], record |-> record] /\ Recent(e) \in RecentType
    BY <2>2, <2>3 DEF Recent, RecentType
  <2> HIDE DEF e, record
  <2>5. Recents' = Append(Recents, Recent(e)) /\ Recents' \in Seq(RecentType)
    <3>1. /\ DOMAIN counted' = 1..(Len(counted) + 1) /\ DOMAIN counted = 1..Len(counted)
          /\ \A i \in 1..Len(counted) : counted'[i] = counted[i]
          /\ counted'[Len(counted) + 1] = e /\ Len(counted) \in Nat
      BY <2>1, <2>2
    <3>2. Recents' = [i \in 1..(Len(counted) + 1) |-> Recent(counted'[i])]
      BY <3>1 DEF Recents, Recent
    <3>3. /\ Recents \in Seq(RecentType) /\ Len(Recents) = Len(counted)
          /\ \A i \in 1..Len(counted) : Recents[i] = Recent(counted[i])
      BY <3>1 DEF BoardOK, Recents
    <3>4. /\ Append(Recents, Recent(e)) \in Seq(RecentType)
          /\ Len(Append(Recents, Recent(e))) = Len(counted) + 1
          /\ \A i \in 1..Len(counted) : Append(Recents, Recent(e))[i] = Recent(counted[i])
          /\ Append(Recents, Recent(e))[Len(counted) + 1] = Recent(e)
      BY <2>4, <3>1, <3>3
    <3>5. \A i \in 1..(Len(counted) + 1) :
            Append(Recents, Recent(e))[i] = Recent(counted'[i])
      BY <3>1, <3>4
    <3>6. PICK t \in Seq(RecentType) : t = Append(Recents, Recent(e))
      BY <3>4
    <3>7. t = [i \in 1..(Len(counted) + 1) |-> t[i]]
      <4>1. Len(t) = Len(counted) + 1
        BY <3>4, <3>6
      <4>2. t = [i \in 1..Len(t) |-> t[i]]
        OBVIOUS
      <4> QED BY <4>1, <4>2
    <3>8. t = [i \in 1..(Len(counted) + 1) |-> Recent(counted'[i])]
      BY <3>5, <3>6, <3>7
    <3> QED BY <3>2, <3>6, <3>8
  <2>6. /\ board'.counters = Plus(board.counters, CountersOf(record))
        /\ board'.buckets = Newest(AddTo(board.buckets, Aligned(stamp[r], BucketSecs),
                                         CountersOf(record)), MAX_BUCKETS)
        /\ board'.recent = Newest(Append(board.recent, Recent(e)), MaxRecent)
        /\ board' = [counters |-> board'.counters, buckets |-> board'.buckets,
                     recent |-> board'.recent]
    BY <2>1, <2>4 DEF AddEvent
  <2>7. /\ board.counters \in CountersType /\ board.buckets \in Seq(BucketType)
        /\ board.recent \in Seq(RecentType) /\ board.recent = Newest(Recents, MaxRecent)
        /\ Recents \in Seq(RecentType) /\ MaxRecent \in Nat
    BY BoardAssumption DEF BoardOK, BoardType, RecentIsNewest, Recents
  <2>8. Aligned(stamp[r], BucketSecs) \in Nat
    <3>1. \A t \in Nat, k \in Nat \ {0} : t \div k \in Nat
      OBVIOUS
    <3>2. \A a, b \in Nat : a * b \in Nat
      OBVIOUS
    <3> QED BY <2>2, <3>1, <3>2, BoardAssumption DEF Aligned
  <2>9. /\ board'.buckets \in Seq(BucketType) /\ Len(board'.buckets) <= MAX_BUCKETS
    BY <2>3, <2>6, <2>7, <2>8, OneRecordCounts, BucketsBounded, BoardAssumption
  <2>10. board'.recent = Newest(Recents', MaxRecent) /\ board'.recent \in Seq(RecentType)
    <3>1. board'.recent = Newest(Append(Recents, Recent(e)), MaxRecent)
      BY <2>4, <2>6, <2>7, NewestOfNewest
    <3> QED BY <2>5, <2>7, <3>1, NewestKeeps
  <2>11. RecentIsNewest'
    <3>1. Recents' = [i \in DOMAIN counted' |-> Recent(counted'[i])]
      BY DEF Recents, Recent
    <3> QED BY <2>10, <3>1 DEF RecentIsNewest, Recent, Newest
  <2>12. board'.counters \in CountersType /\ TotalsAddUp'
    <3>1. /\ board'.counters \in CountersType
          /\ board'.counters.total = board.counters.total + 1
          /\ board'.counters.ok + board'.counters.client_errors + board'.counters.server_errors
               = board.counters.ok + board.counters.client_errors + board.counters.server_errors + 1
      <4>1. /\ CountersOf(record) \in CountersType /\ CountersOf(record).total = 1
            /\ CountersOf(record).ok + CountersOf(record).client_errors
                 + CountersOf(record).server_errors = 1
        BY <2>3, OneRecordCounts
      <4>2. /\ Plus(board.counters, CountersOf(record)) \in CountersType
            /\ board'.counters.total = board.counters.total + CountersOf(record).total
            /\ board'.counters.ok = board.counters.ok + CountersOf(record).ok
            /\ board'.counters.client_errors =
                 board.counters.client_errors + CountersOf(record).client_errors
            /\ board'.counters.server_errors =
                 board.counters.server_errors + CountersOf(record).server_errors
        BY <2>6, <2>7, <4>1, PlusAdds
      <4>3. /\ board.counters.ok \in Nat /\ CountersOf(record).ok \in Nat
            /\ board.counters.client_errors \in Nat /\ CountersOf(record).client_errors \in Nat
            /\ board.counters.server_errors \in Nat /\ CountersOf(record).server_errors \in Nat
        BY <2>7, <4>1 DEF CountersType
      <4> QED BY <2>6, <4>1, <4>2, <4>3
    <3>2. Len(counted') = Len(counted) + 1
      BY <2>1, <2>2
    <3> QED BY <3>1, <3>2 DEF BoardOK, TotalsAddUp
  <2>13. board' \in BoardType
    BY <2>6, <2>9, <2>10, <2>12 DEF BoardType
  <2> QED BY <2>1, <2>5, <2>9, <2>11, <2>12, <2>13 DEF BoardOK
<1>5. ASSUME NEW r \in Requests
      PROVE  /\ (\E route : Arrive(r, route)) \/ Leave(r) \/ NoLogger(r) \/ LogLine(r)
                  => board' = board /\ counted' = counted /\ answered' = answered
             /\ LogFails(r) \/ Rotate(r) \/ ReadClock(r)
                  => board' = board /\ counted' = counted /\ answered' = answered
  BY DEF Arrive, Leave, NoLogger, LogLine, LogFails, Rotate, ReadClock, historyVars
<1>6. Tick \/ UNCHANGED vars => board' = board /\ counted' = counted /\ answered' = answered
  BY DEF Tick, vars, historyVars
<1> QED BY <1>1, <1>2, <1>3, <1>4, <1>5, <1>6, Zenon DEF Next

\* What the dashboard keeps is within its bounds: the ring is the newest of what
\* was counted, and every request counted is in the total, under one status.
THEOREM BoardInvariant == Spec => [](BoardOK /\ RecentIsNewest /\ TotalsAddUp)
<1>1. BoardOK => BoardOK /\ RecentIsNewest /\ TotalsAddUp
  BY DEF BoardOK
<1> QED BY <1>1, BoardInit, BoardStep, RequestsInvariant, PTL DEF Spec

--------------------------------------------------------------------------------
(* Folds over sequences.  What a fold returns is shown by the least number   *)
(* of places at which it would be otherwise.                                 *)

\* A set of numbers has a smallest one.
LEMMA LeastNumber ==
  ASSUME NEW S \in SUBSET Nat, S # {}
  PROVE  \E x \in S : \A y \in S : x <= y
<1> DEFINE R == {p \in Nat \X Nat : p[1] < p[2]}
<1>1. IsWellFoundedOn(R, Nat)
  BY NatLessThanWellFounded DEF OpToRel
<1>2. PICK x \in S : \A y \in S : <<y, x>> \notin R
  <2> HIDE DEF R
  <2> QED BY <1>1, WFMin
<1>3. ASSUME NEW y \in S
      PROVE  x <= y
  <2>1. x \in Nat /\ y \in Nat
    OBVIOUS
  <2>2. y < x => <<y, x>> \in R
    BY <2>1
  <2> QED BY <1>2, <2>1, <2>2
<1> QED BY <1>3

\* What holds of no places, and of one place more whenever it holds, holds of all:
\* S is the set of the numbers of places of which it holds.
LEMMA EveryNumber ==
  ASSUME NEW n \in Nat, NEW S, 0 \in S, \A m \in 0..(n - 1) : m \in S => m + 1 \in S
  PROVE  \A m \in 0..n : m \in S
<1> DEFINE missing == {m \in 0..n : m \notin S}
<1> SUFFICES ASSUME missing # {} PROVE FALSE
  OBVIOUS
<1>1. PICK m \in missing : \A k \in missing : m <= k
  <2>1. missing \in SUBSET Nat
    OBVIOUS
  <2> HIDE DEF missing
  <2> QED BY <2>1, LeastNumber
<1>2. m \in 1..n /\ m - 1 \in 0..(n - 1) /\ m - 1 \in 0..n /\ (m - 1) + 1 = m /\ m \notin S
  BY <1>1
<1>3. m - 1 \in S
  BY <1>1, <1>2
<1> QED BY <1>2, <1>3

\* The last of the first m places.
LEMMA LastPlace ==
  ASSUME NEW m \in Nat, NEW s \in SUBSET (1..m), m \in s
  PROVE  Max(s) = m
<1>1. \A y \in s : m >= y
  OBVIOUS
<1>2. \A x \in s : (\A y \in s : x >= y) => x = m
  OBVIOUS
<1> QED BY <1>1, <1>2 DEF Max

\* f has what a fold makes of each set of the first n places: step takes what was
\* made of the places before, and the last place.
Scans(f, n, base, step) ==
  f = [s \in SUBSET (1..n) |->
         IF s = {} THEN base ELSE step[<<f[s \ {Max(s)}], Max(s)>>]]

\* One place more.
LEMMA ScanOneMore ==
  ASSUME NEW base, NEW step, NEW m \in Nat, NEW f, Scans(f, m, base, step)
  PROVE  \E g : Scans(g, m + 1, base, step)
<1> DEFINE big == SUBSET (1..m + 1)
           g == [s \in big |-> IF m + 1 \in s THEN step[<<f[s \ {m + 1}], m + 1>>] ELSE f[s]]
<1>1. ASSUME NEW s \in big, m + 1 \in s
      PROVE  g[s] = step[<<g[s \ {Max(s)}], Max(s)>>] /\ s # {}
  <2>1. Max(s) = m + 1
    BY <1>1, LastPlace
  <2>2. s \ {m + 1} \in big /\ m + 1 \notin s \ {m + 1}
    OBVIOUS
  <2> QED BY <1>1, <2>1, <2>2
<1>2. ASSUME NEW s \in big, m + 1 \notin s, s # {}
      PROVE  g[s] = step[<<g[s \ {Max(s)}], Max(s)>>]
  <2>1. ASSUME NEW i \in s
        PROVE  i \in 1..m
    <3>1. i \in 1..m + 1 /\ i # m + 1
      BY <1>2
    <3> QED BY <3>1
  <2>2. s \in SUBSET (1..m) /\ s \ {Max(s)} \in big /\ s \ {Max(s)} \in SUBSET (1..m)
    BY <2>1
  <2>3. g[s] = f[s] /\ g[s \ {Max(s)}] = f[s \ {Max(s)}]
    BY <1>2, <2>2
  <2>4. f[s] = step[<<f[s \ {Max(s)}], Max(s)>>]
    BY <1>2, <2>2 DEF Scans
  <2> QED BY <2>3, <2>4
<1>3. {} \in SUBSET (1..m) /\ f[{}] = base
  BY DEF Scans
<1>4. ASSUME NEW s \in big
      PROVE  g[s] = IF s = {} THEN base ELSE step[<<g[s \ {Max(s)}], Max(s)>>]
  <2>1. CASE s = {}
    BY <1>3, <2>1
  <2>2. CASE s # {}
    BY <1>1, <1>2, <2>2
  <2> QED BY <2>1, <2>2
<1>5. Scans(g, m + 1, base, step)
  <2> DEFINE h == [s \in big |-> IF s = {} THEN base ELSE step[<<g[s \ {Max(s)}], Max(s)>>]]
  <2>1. DOMAIN g = big /\ DOMAIN h = big /\ g = [s \in big |-> g[s]]
    OBVIOUS
  <2>2. \A s \in big : g[s] = h[s]
    BY <1>4
  <2> HIDE DEF g
  <2>3. g = h
    BY <2>1, <2>2
  <2> QED BY <2>3 DEF Scans
<1> QED BY <1>5

\* Any number of places.
LEMMA ScanOfAll ==
  ASSUME NEW n \in Nat, NEW base, NEW step
  PROVE  \E f : Scans(f, n, base, step)
<1> DEFINE S == {m \in Nat : \E f : Scans(f, m, base, step)}
<1>1. 0 \in S
  <2> DEFINE f == [s \in SUBSET (1..0) |-> base]
  <2>1. SUBSET (1..0) = {{}}
    OBVIOUS
  <2>2. Scans(f, 0, base, step)
    BY <2>1 DEF Scans
  <2> QED BY <2>2
<1>2. ASSUME NEW m \in 0..(n - 1), m \in S
      PROVE  m + 1 \in S
  BY <1>2, ScanOneMore
<1>3. n \in 0..n
  OBVIOUS
<1> HIDE DEF S
<1>4. n \in S
  BY <1>1, <1>2, <1>3, EveryNumber
<1> QED BY <1>4 DEF S

\* What a fold makes of sets of places has the type of its steps, and the first i
\* places take one step more than the first i - 1.
LEMMA ScanSteps ==
  ASSUME NEW X, NEW n \in Nat, NEW base \in X, NEW step \in [X \X (1..n) -> X],
         NEW f, Scans(f, n, base, step)
  PROVE  /\ f \in [SUBSET (1..n) -> X]
         /\ f[1..0] = base
         /\ \A i \in 1..n : f[1..i] = step[<<f[1..(i - 1)], i>>]
<1> DEFINE S == {m \in 0..n : \A s \in SUBSET (1..m) : f[s] \in X}
<1>1. 0 \in S
  <2>1. \A s \in SUBSET (1..0) : s = {} /\ s \in SUBSET (1..n)
    OBVIOUS
  <2>2. \A s \in SUBSET (1..0) : f[s] = base
    BY <2>1 DEF Scans
  <2> QED BY <2>2
<1>2. ASSUME NEW m \in 0..(n - 1), m \in S
      PROVE  m + 1 \in S
  <2>1. ASSUME NEW s \in SUBSET (1..(m + 1)), m + 1 \in s
        PROVE  f[s] \in X
    <3>1. Max(s) = m + 1 /\ s # {} /\ s \in SUBSET (1..n) /\ m + 1 \in 1..n
      BY <2>1, LastPlace
    <3>2. s \ {m + 1} \in SUBSET (1..m)
      OBVIOUS
    <3>3. f[s \ {m + 1}] \in X
      BY <1>2, <3>2
    <3>4. f[s] = step[<<f[s \ {m + 1}], m + 1>>]
      BY <3>1 DEF Scans
    <3> QED BY <3>1, <3>3, <3>4
  <2>2. ASSUME NEW s \in SUBSET (1..(m + 1)), m + 1 \notin s
        PROVE  f[s] \in X
    <3>1. ASSUME NEW i \in s
          PROVE  i \in 1..m
      <4>1. i \in 1..(m + 1) /\ i # m + 1
        BY <2>2
      <4> QED BY <4>1
    <3> QED BY <1>2, <3>1
  <2> QED BY <2>1, <2>2
<1>3. n \in S
  <2>1. n \in 0..n
    OBVIOUS
  <2> HIDE DEF S
  <2> QED BY <1>1, <1>2, <2>1, EveryNumber
<1>4. f \in [SUBSET (1..n) -> X]
  <2>1. \A s \in SUBSET (1..n) : f[s] \in X
    BY <1>3
  <2>2. f = [s \in SUBSET (1..n) |-> f[s]]
    BY DEF Scans
  <2> QED BY <2>1, <2>2
<1>5. f[1..0] = base
  <2>1. 1..0 = {} /\ {} \in SUBSET (1..n)
    OBVIOUS
  <2>2. f[{}] = base
    BY <2>1 DEF Scans
  <2> QED BY <2>1, <2>2
<1>6. ASSUME NEW i \in 1..n
      PROVE  f[1..i] = step[<<f[1..(i - 1)], i>>]
  <2>1. 1..i \in SUBSET (1..n) /\ i \in 1..i /\ i \in Nat /\ 1..i # {}
    OBVIOUS
  <2>2. (1..i) \ {i} = 1..(i - 1)
    OBVIOUS
  <2>3. Max(1..i) = i
    BY <2>1, LastPlace
  <2>4. f[1..i] = step[<<f[(1..i) \ {i}], i>>]
    BY <2>1, <2>3 DEF Scans
  <2> QED BY <2>2, <2>4
<1> QED BY <1>4, <1>5, <1>6

\* The last of some of the first n places is one of them.
LEMMA LastPlaceOf ==
  ASSUME NEW n \in Nat, NEW s \in SUBSET (1..n), s # {}
  PROVE  Max(s) \in s /\ Max(s) \in 1..n
<1> DEFINE T == {n - x : x \in s}
<1>0. ASSUME NEW x \in s
      PROVE  n - x \in Nat
  <2>1. x \in 1..n
    OBVIOUS
  <2> QED BY <2>1
<1>1. T \in SUBSET Nat /\ T # {}
  BY <1>0
<1>2. PICK t \in T : \A u \in T : t <= u
  <2> HIDE DEF T
  <2> QED BY <1>1, LeastNumber
<1>3. PICK x \in s : t = n - x
  BY <1>2
<1>4. ASSUME NEW y \in s
      PROVE  x >= y
  <2>1. n - y \in T
    OBVIOUS
  <2>2. n - x <= n - y
    BY <1>2, <1>3, <2>1
  <2> QED BY <2>2
<1>5. Max(s) \in s
  BY <1>4 DEF Max
<1> QED BY <1>5

\* The function by which SumAt is defined.
Sums(g, times, buckets) ==
  g = [s \in SUBSET (1..Len(buckets)) |->
         IF s = {} THEN ZeroCounters
         ELSE IF buckets[Max(s)].t \in times
              THEN Plus(g[s \ {Max(s)}], buckets[Max(s)].c) ELSE g[s \ {Max(s)}]]

\* SumAt is what that function has for all places.
LEMMA SumByScan ==
  ASSUME NEW times, NEW buckets \in Seq(BucketType)
  PROVE  SumAt(times, buckets) = (CHOOSE g : Sums(g, times, buckets))[1..Len(buckets)]
<1>1. DOMAIN buckets = 1..Len(buckets)
  OBVIOUS
<1> QED BY <1>1, Zenon DEF SumAt, FoldLeft, MapThenFoldSet, Sums

\* Counters that are added.
LEMMA PlusType ==
  /\ ZeroCounters \in CountersType
  /\ \A c, d \in CountersType : Plus(c, d) \in CountersType
BY PlusAdds DEF ZeroCounters, CountersType

\* A sum is built up bucket by bucket.
LEMMA SumSteps ==
  ASSUME NEW times, NEW buckets \in Seq(BucketType)
  PROVE  \E sum \in [0..Len(buckets) -> CountersType] :
           /\ sum[0] = ZeroCounters
           /\ \A i \in 1..Len(buckets) :
                sum[i] = IF buckets[i].t \in times THEN Plus(sum[i - 1], buckets[i].c)
                                                   ELSE sum[i - 1]
           /\ sum[Len(buckets)] = SumAt(times, buckets)
<1> DEFINE n == Len(buckets)
           step == [p \in CountersType \X (1..n) |->
                      IF buckets[p[2]].t \in times THEN Plus(p[1], buckets[p[2]].c) ELSE p[1]]
           g == CHOOSE h : Sums(h, times, buckets)
           sum == [i \in 0..n |-> g[1..i]]
<1>1. n \in Nat /\ (\A i \in 1..n : buckets[i] \in BucketType /\ buckets[i].c \in CountersType)
      /\ ZeroCounters \in CountersType
  <2>1. n \in Nat /\ \A i \in 1..n : buckets[i] \in BucketType
    OBVIOUS
  <2>2. \A b \in BucketType : b.c \in CountersType
    BY DEF BucketType
  <2> QED BY <2>1, <2>2, PlusType
<1>2. step \in [CountersType \X (1..n) -> CountersType]
  BY <1>1, PlusType
<1>3. \E h : Sums(h, times, buckets)
  <2>1. PICK f : Scans(f, n, ZeroCounters, step)
    BY <1>1, ScanOfAll
  <2>2. f \in [SUBSET (1..n) -> CountersType]
    <3> HIDE DEF step, n
    <3> QED BY <1>1, <1>2, <2>1, ScanSteps
  <2>3. ASSUME NEW s \in SUBSET (1..n)
        PROVE  f[s] = IF s = {} THEN ZeroCounters
                      ELSE IF buckets[Max(s)].t \in times
                           THEN Plus(f[s \ {Max(s)}], buckets[Max(s)].c) ELSE f[s \ {Max(s)}]
    <3>1. CASE s = {}
      BY <2>1, <3>1 DEF Scans
    <3>2. CASE s # {}
      <4>1. Max(s) \in 1..n /\ s \ {Max(s)} \in SUBSET (1..n)
        BY <1>1, <3>2, LastPlaceOf
      <4>2. <<f[s \ {Max(s)}], Max(s)>> \in CountersType \X (1..n)
        BY <2>2, <4>1
      <4>3. f[s] = step[<<f[s \ {Max(s)}], Max(s)>>]
        BY <2>1, <3>2 DEF Scans
      <4> QED BY <3>2, <4>2, <4>3
    <3> QED BY <3>1, <3>2
  <2>4. f = [s \in SUBSET (1..n) |-> f[s]]
    BY <2>2
  <2>5. Sums(f, times, buckets)
    <3> DEFINE h == [s \in SUBSET (1..n) |->
                       IF s = {} THEN ZeroCounters
                       ELSE IF buckets[Max(s)].t \in times
                            THEN Plus(f[s \ {Max(s)}], buckets[Max(s)].c) ELSE f[s \ {Max(s)}]]
    <3>1. \A s \in SUBSET (1..n) : f[s] = h[s]
      BY <2>3
    <3>2. DOMAIN h = SUBSET (1..n) /\ h = [s \in SUBSET (1..n) |-> h[s]]
      OBVIOUS
    <3> HIDE DEF h
    <3>3. f = h
      BY <2>4, <3>1, <3>2
    <3> QED BY <3>3 DEF h, Sums
  <2> QED BY <2>5
<1>4. Sums(g, times, buckets)
  BY <1>3
<1> HIDE DEF g
<1>5. sum[0] = ZeroCounters
  <2>1. 1..0 = {} /\ {} \in SUBSET (1..n) /\ 0 \in 0..n
    BY <1>1
  <2>2. g[{}] = ZeroCounters
    BY <1>4, <2>1 DEF Sums
  <2> QED BY <2>1, <2>2
<1>6. ASSUME NEW i \in 1..n
      PROVE  sum[i] = IF buckets[i].t \in times THEN Plus(sum[i - 1], buckets[i].c) ELSE sum[i - 1]
  <2>1. /\ 1..i \in SUBSET (1..n) /\ i \in 1..i /\ i \in Nat /\ 1..i # {}
        /\ i \in 0..n /\ i - 1 \in 0..n
    <3>1. n \in Nat
      BY <1>1
    <3> HIDE DEF n
    <3>2. i \in Nat /\ i \in 1..i /\ i \in 0..n /\ i - 1 \in 0..n /\ 1..i \in SUBSET (1..n)
      BY <3>1
    <3> QED BY <3>2
  <2>2. (1..i) \ {i} = 1..(i - 1)
    OBVIOUS
  <2>3. Max(1..i) = i
    BY <2>1, LastPlace
  <2>4. g[1..i] = IF buckets[i].t \in times
                  THEN Plus(g[(1..i) \ {i}], buckets[i].c) ELSE g[(1..i) \ {i}]
    BY <1>4, <2>1, <2>3 DEF Sums
  <2>5. sum[i] = g[1..i] /\ sum[i - 1] = g[1..(i - 1)]
    BY <2>1
  <2> HIDE DEF sum
  <2> QED BY <2>2, <2>4, <2>5
<1>7. sum[n] = SumAt(times, buckets)
  <2>1. n \in 0..n
    BY <1>1
  <2> QED BY <2>1, SumByScan DEF g
<1> HIDE DEF sum
<1>8. \A i \in 0..n : sum[i] \in CountersType
  <2> DEFINE S == {i \in 0..n : sum[i] \in CountersType}
  <2>1. 0 \in S
    BY <1>1, <1>5
  <2>2. ASSUME NEW m \in 0..(n - 1), m \in S
        PROVE  m + 1 \in S
    <3>1. m + 1 \in 1..n /\ m + 1 \in 0..n /\ (m + 1) - 1 = m
      BY <1>1
    <3>2. sum[m] \in CountersType
      BY <2>2
    <3>3. sum[m + 1] = IF buckets[m + 1].t \in times THEN Plus(sum[m], buckets[m + 1].c) ELSE sum[m]
      BY <1>6, <3>1
    <3>4. sum[m + 1] \in CountersType
      BY <1>1, <3>1, <3>2, <3>3, PlusType
    <3> QED BY <3>1, <3>4
  <2> HIDE DEF S
  <2>3. \A m \in 0..n : m \in S
    BY <1>1, <2>1, <2>2, EveryNumber
  <2> QED BY <2>3 DEF S
<1>9. sum \in [0..n -> CountersType]
  BY <1>8 DEF sum
<1> QED BY <1>5, <1>6, <1>7, <1>9

\* Counters are equal if their fields are.
LEMMA SameCounters ==
  ASSUME NEW c \in CountersType, NEW d \in CountersType,
         c.total = d.total, c.ok = d.ok, c.client_errors = d.client_errors,
         c.server_errors = d.server_errors, c.cache_hits = d.cache_hits,
         c.completion_tokens = d.completion_tokens
  PROVE  c = d
BY DEF CountersType

\* Adding counters is adding numbers.
LEMMA PlusLaws ==
  ASSUME NEW c \in CountersType, NEW d \in CountersType, NEW e \in CountersType
  PROVE  /\ Plus(c, ZeroCounters) = c /\ Plus(ZeroCounters, c) = c
         /\ Plus(c, d) = Plus(d, c)
         /\ Plus(Plus(c, d), e) = Plus(c, Plus(d, e))
         /\ Plus(c, e) = Plus(d, e) => c = d
<1>1. ASSUME NEW x \in CountersType, NEW y \in CountersType
      PROVE  /\ Plus(x, y) \in CountersType
             /\ Plus(x, y).total = x.total + y.total
             /\ Plus(x, y).ok = x.ok + y.ok
             /\ Plus(x, y).client_errors = x.client_errors + y.client_errors
             /\ Plus(x, y).server_errors = x.server_errors + y.server_errors
             /\ Plus(x, y).cache_hits = x.cache_hits + y.cache_hits
             /\ Plus(x, y).completion_tokens = x.completion_tokens + y.completion_tokens
  <2>1. DOMAIN x = {"total", "ok", "client_errors", "server_errors", "cache_hits", "completion_tokens"}
    BY DEF CountersType
  <2>2. \A f \in DOMAIN x : Plus(x, y)[f] = x[f] + y[f]
    BY DEF Plus
  <2> QED BY <2>1, <2>2, PlusType
<1>2. ASSUME NEW x \in CountersType
      PROVE  /\ x.total \in Nat /\ x.ok \in Nat /\ x.client_errors \in Nat
             /\ x.server_errors \in Nat /\ x.cache_hits \in Nat /\ x.completion_tokens \in Nat
  BY DEF CountersType
<1>3. /\ ZeroCounters \in CountersType
      /\ ZeroCounters.total = 0 /\ ZeroCounters.ok = 0 /\ ZeroCounters.client_errors = 0
      /\ ZeroCounters.server_errors = 0 /\ ZeroCounters.cache_hits = 0
      /\ ZeroCounters.completion_tokens = 0
  BY PlusType DEF ZeroCounters
<1>4. Plus(c, ZeroCounters) = c /\ Plus(ZeroCounters, c) = c
  <2>1. Plus(c, ZeroCounters) \in CountersType /\ Plus(ZeroCounters, c) \in CountersType
    BY <1>1, <1>3
  <2>2. Plus(c, ZeroCounters) = c
    BY <1>1, <1>2, <1>3, <2>1, SameCounters
  <2>3. Plus(ZeroCounters, c) = c
    BY <1>1, <1>2, <1>3, <2>1, SameCounters
  <2> QED BY <2>2, <2>3
<1>5. Plus(c, d) = Plus(d, c)
  BY <1>1, <1>2, SameCounters
<1>6. Plus(Plus(c, d), e) = Plus(c, Plus(d, e))
  <2>1. Plus(c, d) \in CountersType /\ Plus(d, e) \in CountersType
    BY <1>1
  <2>2. Plus(Plus(c, d), e) \in CountersType /\ Plus(c, Plus(d, e)) \in CountersType
    BY <1>1, <2>1
  <2> DEFINE cd == Plus(c, d)  de == Plus(d, e)  l == Plus(cd, e)  r == Plus(c, de)
  <2>3. /\ cd.total = c.total + d.total /\ de.total = d.total + e.total
        /\ l.total = cd.total + e.total /\ r.total = c.total + de.total
        /\ cd.ok = c.ok + d.ok /\ de.ok = d.ok + e.ok
        /\ l.ok = cd.ok + e.ok /\ r.ok = c.ok + de.ok
        /\ cd.client_errors = c.client_errors + d.client_errors
        /\ de.client_errors = d.client_errors + e.client_errors
        /\ l.client_errors = cd.client_errors + e.client_errors
        /\ r.client_errors = c.client_errors + de.client_errors
        /\ cd.server_errors = c.server_errors + d.server_errors
        /\ de.server_errors = d.server_errors + e.server_errors
        /\ l.server_errors = cd.server_errors + e.server_errors
        /\ r.server_errors = c.server_errors + de.server_errors
        /\ cd.cache_hits = c.cache_hits + d.cache_hits
        /\ de.cache_hits = d.cache_hits + e.cache_hits
        /\ l.cache_hits = cd.cache_hits + e.cache_hits
        /\ r.cache_hits = c.cache_hits + de.cache_hits
        /\ cd.completion_tokens = c.completion_tokens + d.completion_tokens
        /\ de.completion_tokens = d.completion_tokens + e.completion_tokens
        /\ l.completion_tokens = cd.completion_tokens + e.completion_tokens
        /\ r.completion_tokens = c.completion_tokens + de.completion_tokens
    BY <1>1, <2>1
  <2>4. l \in CountersType /\ r \in CountersType
    BY <2>2
  <2> HIDE DEF cd, de, l, r
  <2>5. /\ l.total = r.total /\ l.ok = r.ok /\ l.client_errors = r.client_errors
        /\ l.server_errors = r.server_errors /\ l.cache_hits = r.cache_hits
        /\ l.completion_tokens = r.completion_tokens
    BY <1>2, <2>3
  <2>6. l = r
    BY <2>4, <2>5, SameCounters
  <2> QED BY <2>6 DEF l, r, cd, de
<1>7. ASSUME Plus(c, e) = Plus(d, e)
      PROVE  c = d
  <2>1. /\ c.total = d.total /\ c.ok = d.ok /\ c.client_errors = d.client_errors
        /\ c.server_errors = d.server_errors /\ c.cache_hits = d.cache_hits
        /\ c.completion_tokens = d.completion_tokens
    <3>1. /\ c.total + e.total = d.total + e.total /\ c.ok + e.ok = d.ok + e.ok
          /\ c.client_errors + e.client_errors = d.client_errors + e.client_errors
          /\ c.server_errors + e.server_errors = d.server_errors + e.server_errors
          /\ c.cache_hits + e.cache_hits = d.cache_hits + e.cache_hits
          /\ c.completion_tokens + e.completion_tokens = d.completion_tokens + e.completion_tokens
      BY <1>1, <1>7
    <3> QED BY <1>2, <3>1
  <2> QED BY <2>1, SameCounters
<1> QED BY <1>4, <1>5, <1>6, <1>7

\* The sum over no buckets, and over one more.
LEMMA SumAppend ==
  ASSUME NEW times
  PROVE  /\ SumAt(times, <<>>) = ZeroCounters
         /\ \A s \in Seq(BucketType) : SumAt(times, s) \in CountersType
         /\ \A s \in Seq(BucketType), b \in BucketType :
              SumAt(times, Append(s, b)) =
                IF b.t \in times THEN Plus(SumAt(times, s), b.c) ELSE SumAt(times, s)
<1>1. SumAt(times, <<>>) = ZeroCounters
  <2>1. ASSUME NEW none \in Seq(BucketType), none = <<>>
        PROVE  SumAt(times, none) = ZeroCounters
    <3>1. PICK sum \in [0..Len(none) -> CountersType] :
            /\ sum[0] = ZeroCounters
            /\ \A i \in 1..Len(none) :
                 sum[i] = IF none[i].t \in times THEN Plus(sum[i - 1], none[i].c) ELSE sum[i - 1]
            /\ sum[Len(none)] = SumAt(times, none)
      BY SumSteps
    <3>2. Len(none) = 0
      BY <2>1
    <3> QED BY <3>1, <3>2
  <2>2. <<>> \in Seq(BucketType)
    OBVIOUS
  <2> QED BY <2>1, <2>2
<1>2. ASSUME NEW s \in Seq(BucketType)
      PROVE  SumAt(times, s) \in CountersType
  <2>1. Len(s) \in 0..Len(s)
    OBVIOUS
  <2> QED BY <2>1, SumSteps
<1>3. ASSUME NEW s \in Seq(BucketType), NEW b \in BucketType
      PROVE  SumAt(times, Append(s, b)) =
               IF b.t \in times THEN Plus(SumAt(times, s), b.c) ELSE SumAt(times, s)
  <2> DEFINE n == Len(s)
             l == Append(s, b)
  <2>1. /\ n \in Nat /\ l \in Seq(BucketType) /\ Len(l) = n + 1 /\ l[n + 1] = b
        /\ \A i \in 1..n : l[i] = s[i]
    OBVIOUS
  <2>2. PICK p \in [0..n -> CountersType] :
          /\ p[0] = ZeroCounters
          /\ \A i \in 1..n : p[i] = IF s[i].t \in times THEN Plus(p[i - 1], s[i].c) ELSE p[i - 1]
          /\ p[n] = SumAt(times, s)
    BY SumSteps
  <2> HIDE DEF l, n
  <2>3. PICK q \in [0..(n + 1) -> CountersType] :
          /\ q[0] = ZeroCounters
          /\ \A i \in 1..(n + 1) :
               q[i] = IF l[i].t \in times THEN Plus(q[i - 1], l[i].c) ELSE q[i - 1]
          /\ q[n + 1] = SumAt(times, l)
    <3>1. \E sum \in [0..Len(l) -> CountersType] :
            /\ sum[0] = ZeroCounters
            /\ \A i \in 1..Len(l) :
                 sum[i] = IF l[i].t \in times THEN Plus(sum[i - 1], l[i].c) ELSE sum[i - 1]
            /\ sum[Len(l)] = SumAt(times, l)
      BY <2>1, SumSteps
    <3> QED BY <2>1, <3>1
  <2> DEFINE S == {i \in 0..n : p[i] = q[i]}
  <2>4. 0 \in S
    BY <2>1, <2>2, <2>3
  <2>5. ASSUME NEW m \in 0..(n - 1), m \in S
        PROVE  m + 1 \in S
    <3>1. /\ m + 1 \in 1..n /\ m + 1 \in 1..(n + 1) /\ m + 1 \in 0..n
          /\ (m + 1) - 1 = m
      BY <2>1
    <3>2. p[m + 1] = IF s[m + 1].t \in times THEN Plus(p[m], s[m + 1].c) ELSE p[m]
      BY <2>2, <3>1
    <3>3. q[m + 1] = IF l[m + 1].t \in times THEN Plus(q[m], l[m + 1].c) ELSE q[m]
      BY <2>3, <3>1
    <3>4. l[m + 1] = s[m + 1] /\ p[m] = q[m]
      BY <2>1, <2>5, <3>1
    <3> QED BY <3>1, <3>2, <3>3, <3>4
  <2> HIDE DEF S
  <2>6. n \in S
    <3>1. \A m \in 0..n : m \in S
      BY <2>1, <2>4, <2>5, EveryNumber
    <3> QED BY <2>1, <3>1
  <2>7. p[n] = q[n]
    BY <2>6 DEF S
  <2>8. q[n + 1] = IF b.t \in times THEN Plus(q[n], b.c) ELSE q[n]
    <3>1. n + 1 \in 1..(n + 1) /\ (n + 1) - 1 = n
      BY <2>1
    <3> QED BY <2>1, <2>3, <3>1
  <2> QED BY <2>2, <2>3, <2>7, <2>8 DEF l
<1> QED BY <1>1, <1>2, <1>3

\* A piece of a sequence with one more place.
LEMMA PieceGrows ==
  ASSUME NEW S, NEW s \in Seq(S), NEW i \in 1..(Len(s) + 1), NEW j \in (i - 1)..Len(s)
  PROVE  /\ SubSeq(s, i, j) \in Seq(S)
         /\ SubSeq(s, i, i - 1) = <<>>
         /\ j < Len(s) => SubSeq(s, i, j + 1) = Append(SubSeq(s, i, j), s[j + 1])
<1>1. /\ Len(s) \in Nat /\ i \in Int /\ i >= 1 /\ j \in Int /\ j >= i - 1 /\ j <= Len(s)
      /\ \A k \in 1..Len(s) : s[k] \in S
  OBVIOUS
<1>2. /\ SubSeq(s, i, j) \in Seq(S) /\ Len(SubSeq(s, i, j)) = j - i + 1
      /\ \A k \in 1..(j - i + 1) : SubSeq(s, i, j)[k] = s[i + k - 1]
  <2>1. \A k \in i..j : s[k] \in S
    BY <1>1
  <2>2. /\ SubSeq(s, i, j) \in Seq(S) /\ Len(SubSeq(s, i, j)) = IF i <= j THEN j - i + 1 ELSE 0
        /\ \A k \in 1..(j - i + 1) : SubSeq(s, i, j)[k] = s[i + k - 1]
    BY <1>1, <2>1, SubSeqProperties
  <2>3. (IF i <= j THEN j - i + 1 ELSE 0) = j - i + 1
    BY <1>1
  <2> QED BY <2>2, <2>3
<1>3. SubSeq(s, i, i - 1) = <<>>
  BY <1>1, SubSeqEmpty
<1>4. ASSUME j < Len(s)
      PROVE  SubSeq(s, i, j + 1) = Append(SubSeq(s, i, j), s[j + 1])
  <2> DEFINE l == SubSeq(s, i, j + 1)
             p == SubSeq(s, i, j)
             r == Append(p, s[j + 1])
  <2>1. /\ l \in Seq(S) /\ Len(l) = j - i + 2
        /\ \A k \in 1..(j - i + 2) : l[k] = s[i + k - 1]
    <3>1. \A k \in i..(j + 1) : s[k] \in S
      BY <1>1, <1>4
    <3>2. j + 1 \in Int /\ i <= j + 1 /\ (j + 1) - i + 1 = j - i + 2
      BY <1>1
    <3>3. /\ l \in Seq(S) /\ Len(l) = IF i <= j + 1 THEN (j + 1) - i + 1 ELSE 0
          /\ \A k \in 1..((j + 1) - i + 1) : l[k] = s[i + k - 1]
      BY <1>1, <3>1, <3>2, SubSeqProperties
    <3> HIDE DEF l
    <3> QED BY <3>2, <3>3
  <2> HIDE DEF l, p
  <2>2. s[j + 1] \in S /\ p \in Seq(S) /\ Len(p) = j - i + 1
        /\ \A k \in 1..(j - i + 1) : p[k] = s[i + k - 1]
    BY <1>1, <1>2, <1>4 DEF p
  <2>3. /\ r \in Seq(S) /\ Len(r) = Len(p) + 1 /\ r[Len(p) + 1] = s[j + 1]
        /\ \A k \in 1..Len(p) : r[k] = p[k]
    <3>1. \A q \in Seq(S), e \in S :
            /\ Append(q, e) \in Seq(S) /\ Len(Append(q, e)) = Len(q) + 1
            /\ Append(q, e)[Len(q) + 1] = e
            /\ \A k \in 1..Len(q) : Append(q, e)[k] = q[k]
      OBVIOUS
    <3> QED BY <2>2, <3>1
  <2> HIDE DEF r
  <2>4. ASSUME NEW k \in 1..Len(l)
        PROVE  l[k] = r[k]
    <3>1. CASE k = j - i + 2
      <4>1. i + k - 1 = j + 1 /\ k = Len(p) + 1
        BY <1>1, <2>2, <3>1
      <4> QED BY <2>1, <2>3, <4>1
    <3>2. CASE k # j - i + 2
      <4>1. k \in 1..(j - i + 1) /\ k \in 1..(j - i + 2)
        BY <1>1, <2>1, <3>2
      <4> QED BY <2>1, <2>2, <2>3, <4>1
    <3> QED BY <3>1, <3>2
  <2>5. Len(l) = Len(r)
    BY <1>1, <2>1, <2>2, <2>3
  <2>6. l = r
    BY <2>1, <2>3, <2>4, <2>5, SeqEqual
  <2> QED BY <2>6 DEF l, r, p
<1> QED BY <1>2, <1>3, <1>4

\* A sum over a piece of a sequence, and over one place more.
LEMMA SumOfPiece ==
  ASSUME NEW times, NEW s \in Seq(BucketType),
         NEW i \in 1..(Len(s) + 1), NEW j \in (i - 1)..Len(s)
  PROVE  /\ SumAt(times, SubSeq(s, i, j)) \in CountersType
         /\ SumAt(times, SubSeq(s, i, i - 1)) = ZeroCounters
         /\ j < Len(s) => SumAt(times, SubSeq(s, i, j + 1)) =
                            IF s[j + 1].t \in times
                            THEN Plus(SumAt(times, SubSeq(s, i, j)), s[j + 1].c)
                            ELSE SumAt(times, SubSeq(s, i, j))
<1> DEFINE p == SubSeq(s, i, j)
           l == SubSeq(s, i, j + 1)
<1>1. /\ p \in Seq(BucketType) /\ SubSeq(s, i, i - 1) = <<>>
      /\ j < Len(s) => l = Append(p, s[j + 1]) /\ s[j + 1] \in BucketType
  <2>1. j < Len(s) => j + 1 \in 1..Len(s)
    OBVIOUS
  <2>2. j < Len(s) => s[j + 1] \in BucketType
    BY <2>1
  <2> QED BY <2>2, PieceGrows
<1> HIDE DEF p, l
<1>2. SumAt(times, p) \in CountersType
  BY <1>1, SumAppend
<1>3. SumAt(times, SubSeq(s, i, i - 1)) = ZeroCounters
  BY <1>1, SumAppend
<1>4. ASSUME j < Len(s)
      PROVE  SumAt(times, l) =
               IF s[j + 1].t \in times THEN Plus(SumAt(times, p), s[j + 1].c) ELSE SumAt(times, p)
  <2>1. PICK b \in BucketType : b = s[j + 1]
    BY <1>1, <1>4
  <2>2. l = Append(p, b)
    BY <1>1, <1>4, <2>1
  <2>3. SumAt(times, l) = IF b.t \in times THEN Plus(SumAt(times, p), b.c) ELSE SumAt(times, p)
    BY <1>1, <2>2, SumAppend
  <2> QED BY <2>1, <2>3
<1> QED BY <1>2, <1>3, <1>4 DEF p, l

\* A sum over a sequence is the sum over its first p places and over the others.
LEMMA SumSplit ==
  ASSUME NEW times, NEW s \in Seq(BucketType), NEW p \in 0..Len(s)
  PROVE  SumAt(times, s) =
           Plus(SumAt(times, SubSeq(s, 1, p)), SumAt(times, SubSeq(s, p + 1, Len(s))))
<1> DEFINE n == Len(s)
           head(m) == SumAt(times, SubSeq(s, 1, m))
           rest(m) == SumAt(times, SubSeq(s, p + 1, m))
           grows(sum, m) == IF s[m + 1].t \in times THEN Plus(sum, s[m + 1].c) ELSE sum
           S == {k \in 0..(n - p) : head(p + k) = Plus(head(p), rest(p + k))}
<1>1. /\ n \in Nat /\ p \in Nat /\ p <= n /\ n - p \in Nat /\ p + (n - p) = n
      /\ n - p \in 0..(n - p)
  OBVIOUS
<1>2. ASSUME NEW m \in p..n
      PROVE  /\ head(m) \in CountersType /\ rest(m) \in CountersType
             /\ rest(p) = ZeroCounters
             /\ m < n => head(m + 1) = grows(head(m), m) /\ rest(m + 1) = grows(rest(m), m)
  <2>1. /\ 1 \in 1..(n + 1) /\ m \in (1 - 1)..n /\ p + 1 \in 1..(n + 1) /\ m \in ((p + 1) - 1)..n
        /\ (p + 1) - 1 = p
    BY <1>1
  <2>2. /\ head(m) \in CountersType
        /\ m < n => head(m + 1) = grows(head(m), m)
    BY <2>1, SumOfPiece
  <2>3. /\ rest(m) \in CountersType
        /\ SumAt(times, SubSeq(s, p + 1, (p + 1) - 1)) = ZeroCounters
        /\ m < n => rest(m + 1) = grows(rest(m), m)
    BY <2>1, SumOfPiece
  <2> QED BY <2>1, <2>2, <2>3
<1> HIDE DEF head, rest
<1>3. \A m \in p..n : head(m) \in CountersType /\ rest(m) \in CountersType
  BY <1>2
<1>4. 0 \in S
  <2>1. p \in p..n /\ p + 0 = p /\ 0 \in 0..(n - p)
    BY <1>1
  <2>2. rest(p) = ZeroCounters
    BY <1>2, <2>1
  <2>3. head(p) = Plus(head(p), rest(p))
    BY <1>3, <2>1, <2>2, PlusLaws
  <2> QED BY <2>1, <2>3
<1>5. ASSUME NEW k \in 0..((n - p) - 1), k \in S
      PROVE  k + 1 \in S
  <2> DEFINE m == p + k
  <2>1. /\ m \in p..n /\ m < n /\ m + 1 \in p..n /\ m + 1 = p + (k + 1) /\ m + 1 \in 1..n
        /\ k + 1 \in 0..(n - p) /\ p \in p..n
    BY <1>1
  <2>2. head(m) = Plus(head(p), rest(m))
    BY <1>5
  <2>3. s[m + 1].c \in CountersType
    <3>1. s[m + 1] \in BucketType
      BY <2>1
    <3> QED BY <3>1 DEF BucketType
  <2> HIDE DEF m, S
  <2>4. head(m + 1) = grows(head(m), m) /\ rest(m + 1) = grows(rest(m), m)
    BY <1>2, <2>1
  <2>5. /\ head(p) \in CountersType /\ rest(m) \in CountersType
    BY <1>3, <2>1
  <2>6. head(m + 1) = Plus(head(p), rest(m + 1))
    BY <2>2, <2>3, <2>4, <2>5, PlusLaws
  <2> QED BY <2>1, <2>6 DEF S
<1> HIDE DEF S
<1>6. \A k \in 0..(n - p) : k \in S
  BY <1>1, <1>4, <1>5, EveryNumber
<1>7. head(n) = Plus(head(p), rest(n))
  BY <1>1, <1>6 DEF S
<1>8. SubSeq(s, 1, n) = s
  BY SubSeqFull
<1> QED BY <1>7, <1>8 DEF head, rest

\* Sums at sets of times that the buckets do not tell apart are the same.
LEMMA SumAgrees ==
  ASSUME NEW times, NEW others, NEW s \in Seq(BucketType),
         \A i \in 1..Len(s) : s[i].t \in times <=> s[i].t \in others
  PROVE  SumAt(times, s) = SumAt(others, s)
<1> DEFINE n == Len(s)
           S == {m \in 0..n : SumAt(times, SubSeq(s, 1, m)) = SumAt(others, SubSeq(s, 1, m))}
<1>1. n \in Nat /\ 1 \in 1..(n + 1) /\ n \in 0..n
  OBVIOUS
<1>2. 0 \in S
  <2>1. 0 \in (1 - 1)..n /\ 0 \in 0..n /\ 1 - 1 = 0
    BY <1>1
  <2> QED BY <1>1, <2>1, SumOfPiece
<1>3. ASSUME NEW m \in 0..(n - 1), m \in S
      PROVE  m + 1 \in S
  <2>1. /\ m \in (1 - 1)..n /\ m < n /\ m + 1 \in 1..n /\ m + 1 \in 0..n
    BY <1>1
  <2>2. SumAt(times, SubSeq(s, 1, m + 1)) =
          IF s[m + 1].t \in times THEN Plus(SumAt(times, SubSeq(s, 1, m)), s[m + 1].c)
                                  ELSE SumAt(times, SubSeq(s, 1, m))
    BY <1>1, <2>1, SumOfPiece
  <2>3. SumAt(others, SubSeq(s, 1, m + 1)) =
          IF s[m + 1].t \in others THEN Plus(SumAt(others, SubSeq(s, 1, m)), s[m + 1].c)
                                   ELSE SumAt(others, SubSeq(s, 1, m))
    BY <1>1, <2>1, SumOfPiece
  <2>4. SumAt(times, SubSeq(s, 1, m + 1)) = SumAt(others, SubSeq(s, 1, m + 1))
    BY <1>3, <2>1, <2>2, <2>3
  <2> QED BY <2>1, <2>4
<1> HIDE DEF S
<1>4. n \in S
  <2>1. \A m \in 0..n : m \in S
    BY <1>1, <1>2, <1>3, EveryNumber
  <2> QED BY <1>1, <2>1
<1>5. SubSeq(s, 1, n) = s
  BY SubSeqFull
<1> QED BY <1>4, <1>5 DEF S

\* A sum at times that no bucket has is nothing.
LEMMA SumOfNone ==
  ASSUME NEW times, NEW s \in Seq(BucketType), \A i \in 1..Len(s) : s[i].t \notin times
  PROVE  SumAt(times, s) = ZeroCounters
<1> DEFINE n == Len(s)
           S == {m \in 0..n : SumAt(times, SubSeq(s, 1, m)) = ZeroCounters}
<1>1. n \in Nat /\ 1 \in 1..(n + 1) /\ n \in 0..n
  OBVIOUS
<1>2. 0 \in S
  <2>1. 0 \in (1 - 1)..n /\ 0 \in 0..n /\ 1 - 1 = 0
    BY <1>1
  <2> QED BY <1>1, <2>1, SumOfPiece
<1>3. ASSUME NEW m \in 0..(n - 1), m \in S
      PROVE  m + 1 \in S
  <2>1. /\ m \in (1 - 1)..n /\ m < n /\ m + 1 \in 1..n /\ m + 1 \in 0..n
    BY <1>1
  <2>2. SumAt(times, SubSeq(s, 1, m + 1)) =
          IF s[m + 1].t \in times THEN Plus(SumAt(times, SubSeq(s, 1, m)), s[m + 1].c)
                                  ELSE SumAt(times, SubSeq(s, 1, m))
    BY <1>1, <2>1, SumOfPiece
  <2>3. SumAt(times, SubSeq(s, 1, m + 1)) = ZeroCounters
    BY <1>3, <2>1, <2>2
  <2> QED BY <2>1, <2>3
<1> HIDE DEF S
<1>4. n \in S
  <2>1. \A m \in 0..n : m \in S
    BY <1>1, <1>2, <1>3, EveryNumber
  <2> QED BY <1>1, <2>1
<1>5. SubSeq(s, 1, n) = s
  BY SubSeqFull
<1> QED BY <1>4, <1>5 DEF S

\* Where the last bucket is the time's own, it grows.
LEMMA AddToLast ==
  ASSUME NEW s \in Seq(BucketType), NEW t \in Nat, NEW c \in CountersType, InLast(s, t)
  PROVE  /\ Len(s) \in 1..Len(s) /\ Len(AddTo(s, t, c)) = Len(s)
         /\ \A i \in 1..(Len(s) - 1) : AddTo(s, t, c)[i] = s[i]
         /\ s[Len(s)].t = t
         /\ AddTo(s, t, c)[Len(s)] = [t |-> t, c |-> Plus(s[Len(s)].c, c)]
<1> DEFINE n == Len(s)
           l == AddTo(s, t, c)
<1>1. s # <<>> /\ s[n].t = t
  BY DEF InLast, Last
<1>2. n \in 1..n /\ n \in Nat /\ s[n] \in BucketType
  BY <1>1
<1>3. s[n] = [t |-> t, c |-> s[n].c] /\ s[n].c \in CountersType
  BY <1>1, <1>2 DEF BucketType
<1>4. [s[n] EXCEPT !.c = Plus(@, c)] = [t |-> t, c |-> Plus(s[n].c, c)]
  <2> DEFINE b == s[n]
  <2>1. b = [t |-> t, c |-> b.c]
    BY <1>3
  <2> HIDE DEF b
  <2>2. [b EXCEPT !.c = Plus(@, c)] = [t |-> t, c |-> Plus(b.c, c)]
    BY <2>1
  <2> QED BY <2>2 DEF b
<1>5. l = [s EXCEPT ![n] = [t |-> t, c |-> Plus(s[n].c, c)]]
  BY <1>4 DEF AddTo
<1>6. [t |-> t, c |-> Plus(s[n].c, c)] \in BucketType
  BY <1>3, PlusType DEF BucketType
<1> HIDE DEF l, n
<1>7. /\ Len(l) = Len(s)
      /\ \A j \in 1..Len(s) : l[j] = IF j = n THEN [t |-> t, c |-> Plus(s[n].c, c)] ELSE s[j]
  <2>1. n \in 1..Len(s)
    BY <1>2 DEF n
  <2> QED BY <1>5, <1>6, <2>1, ExceptSeq
<1>8. \A i \in 1..(n - 1) : i \in 1..Len(s) /\ i # n
  BY <1>2 DEF n
<1> QED BY <1>1, <1>2, <1>7, <1>8 DEF l, n

\* A piece from a place on grows by what is appended.
LEMMA PieceOfAppend ==
  ASSUME NEW S, NEW s \in Seq(S), NEW e \in S, NEW i \in 1..(Len(s) + 1)
  PROVE  SubSeq(Append(s, e), i, Len(s) + 1) = Append(SubSeq(s, i, Len(s)), e)
<1> DEFINE n == Len(s)
<1>0. Append(s, e) \in Seq(S)
  OBVIOUS
<1>1. PICK l \in Seq(S) : l = Append(s, e)
  BY <1>0
<1>2. /\ Len(l) = n + 1 /\ l[n + 1] = e /\ n \in Nat
      /\ \A k \in 1..n : l[k] = s[k]
  BY <1>1
<1>3. SubSeq(l, i, n + 1) = Append(SubSeq(l, i, n), l[n + 1])
  <2>1. i \in 1..(Len(l) + 1) /\ n \in (i - 1)..Len(l) /\ n < Len(l)
    BY <1>2
  <2> QED BY <2>1, PieceGrows
<1>4. SubSeq(l, i, n) = SubSeq(s, i, n)
  <2>1. \A k \in i..n : k \in 1..n
    OBVIOUS
  <2>2. \A k \in i..n : l[k] = s[k] /\ s[k] \in S
    BY <1>2, <2>1
  <2>3. \A k \in i..n : l[k] \in S
    BY <2>2
  <2>4. /\ SubSeq(l, i, n) \in Seq(S) /\ Len(SubSeq(l, i, n)) = IF i <= n THEN n - i + 1 ELSE 0
        /\ \A k \in 1..(n - i + 1) : SubSeq(l, i, n)[k] = l[i + k - 1]
    BY <1>2, <2>3, SubSeqProperties
  <2>5. /\ SubSeq(s, i, n) \in Seq(S) /\ Len(SubSeq(s, i, n)) = IF i <= n THEN n - i + 1 ELSE 0
        /\ \A k \in 1..(n - i + 1) : SubSeq(s, i, n)[k] = s[i + k - 1]
    BY <1>2, <2>2, SubSeqProperties
  <2>6. ASSUME NEW k \in 1..Len(SubSeq(l, i, n))
        PROVE  SubSeq(l, i, n)[k] = SubSeq(s, i, n)[k]
    <3>1. k \in 1..(n - i + 1) /\ i + k - 1 \in i..n
      <4>1. Len(SubSeq(l, i, n)) = IF i <= n THEN n - i + 1 ELSE 0
        BY <2>4
      <4>2. i \in Nat /\ n \in Nat /\ k \in Nat
        BY <1>2
      <4> QED BY <4>1, <4>2
    <3> QED BY <2>2, <2>4, <2>5, <3>1
  <2> QED BY <2>4, <2>5, <2>6, SeqEqual
<1> QED BY <1>1, <1>2, <1>3, <1>4

\* Whatever was in a suffix of the buckets, the counters are added to it.
LEMMA AddToSuffix ==
  ASSUME NEW times, NEW s \in Seq(BucketType), NEW t \in Nat, NEW c \in CountersType,
         NEW j \in Nat, j < Len(AddTo(s, t, c))
  PROVE  /\ j <= Len(s)
         /\ SumAt(times, SubSeq(AddTo(s, t, c), j + 1, Len(AddTo(s, t, c)))) =
              IF t \in times THEN Plus(SumAt(times, SubSeq(s, j + 1, Len(s))), c)
                             ELSE SumAt(times, SubSeq(s, j + 1, Len(s)))
<1> DEFINE n == Len(s)
           l == AddTo(s, t, c)
<1>0. n \in Nat /\ l \in Seq(BucketType) /\ Len(l) \in Nat
  <2>1. l \in Seq(BucketType)
    BY AddToType
  <2> HIDE DEF l
  <2> QED BY <2>1
<1>1. CASE InLast(s, t)
  <2>1. /\ n \in 1..n /\ Len(l) = n
        /\ \A i \in 1..(n - 1) : l[i] = s[i]
        /\ s[n].t = t /\ l[n] = [t |-> t, c |-> Plus(s[n].c, c)]
    BY <1>1, AddToLast
  <2>2. s[n] \in BucketType /\ s[n].c \in CountersType
    <3>1. s[n] \in BucketType
      BY <2>1
    <3> QED BY <3>1 DEF BucketType
  <2>3. j < n
    BY <2>1
  <2> HIDE DEF l
  <2>4. SubSeq(l, j + 1, n - 1) = SubSeq(s, j + 1, n - 1)
    <3> DEFINE a == j + 1  m == n - 1
    <3>1. a \in Int /\ m \in Int /\ \A k \in a..m : k \in 1..(n - 1) /\ k \in 1..n
      BY <1>0
    <3>2. \A k \in a..m : l[k] = s[k] /\ s[k] \in BucketType
      BY <2>1, <3>1
    <3>3. \A k \in a..m : l[k] \in BucketType
      BY <3>2
    <3> HIDE DEF a, m
    <3>4. /\ SubSeq(l, a, m) \in Seq(BucketType)
          /\ Len(SubSeq(l, a, m)) = IF a <= m THEN m - a + 1 ELSE 0
          /\ \A k \in 1..(m - a + 1) : SubSeq(l, a, m)[k] = l[a + k - 1]
      BY <3>1, <3>3, SubSeqProperties
    <3>5. /\ SubSeq(s, a, m) \in Seq(BucketType)
          /\ Len(SubSeq(s, a, m)) = IF a <= m THEN m - a + 1 ELSE 0
          /\ \A k \in 1..(m - a + 1) : SubSeq(s, a, m)[k] = s[a + k - 1]
      BY <3>1, <3>2, SubSeqProperties
    <3>6. ASSUME NEW k \in 1..Len(SubSeq(l, a, m))
          PROVE  SubSeq(l, a, m)[k] = SubSeq(s, a, m)[k]
      <4>1. k \in 1..(m - a + 1) /\ a + k - 1 \in a..m
        <5>1. Len(SubSeq(l, a, m)) = IF a <= m THEN m - a + 1 ELSE 0
          BY <3>4
        <5> QED BY <3>1, <5>1
      <4> QED BY <3>2, <3>4, <3>5, <4>1
    <3>7. SubSeq(l, a, m) = SubSeq(s, a, m)
      BY <3>4, <3>5, <3>6, SeqEqual
    <3> QED BY <3>7 DEF a, m
  <2> DEFINE rest == SumAt(times, SubSeq(s, j + 1, n - 1))
  <2>5. /\ j + 1 \in 1..(n + 1) /\ n - 1 \in ((j + 1) - 1)..n /\ n - 1 < n /\ (n - 1) + 1 = n
    BY <1>0, <2>3
  <2>6. /\ rest \in CountersType
        /\ SumAt(times, SubSeq(s, j + 1, n)) = IF s[n].t \in times THEN Plus(rest, s[n].c) ELSE rest
    BY <2>5, SumOfPiece
  <2>7. SumAt(times, SubSeq(l, j + 1, n)) =
          IF l[n].t \in times THEN Plus(SumAt(times, SubSeq(l, j + 1, n - 1)), l[n].c)
                              ELSE SumAt(times, SubSeq(l, j + 1, n - 1))
    <3>1. /\ j + 1 \in 1..(Len(l) + 1) /\ n - 1 \in ((j + 1) - 1)..Len(l) /\ n - 1 < Len(l)
      BY <2>1, <2>5
    <3> QED BY <1>0, <2>5, <3>1, SumOfPiece
  <2>8. l[n].t = t /\ l[n].c = Plus(s[n].c, c)
    BY <2>1
  <2> HIDE DEF rest
  <2>9. SumAt(times, SubSeq(l, j + 1, n)) =
          IF t \in times THEN Plus(rest, Plus(s[n].c, c)) ELSE rest
    BY <2>4, <2>7, <2>8 DEF rest
  <2>10. Plus(rest, Plus(s[n].c, c)) = Plus(Plus(rest, s[n].c), c)
    BY <2>2, <2>6, PlusLaws
  <2> QED BY <1>0, <2>1, <2>3, <2>6, <2>9, <2>10 DEF l
<1>2. CASE ~ InLast(s, t)
  <2>1. [t |-> t, c |-> c] \in BucketType
    BY DEF BucketType
  <2>2. PICK b \in BucketType : b = [t |-> t, c |-> c]
    BY <2>1
  <2>3. l = Append(s, b)
    BY <1>2, <2>2 DEF AddTo
  <2>4. Len(l) = n + 1
    BY <2>3
  <2> HIDE DEF l
  <2>5. j <= n /\ j + 1 \in 1..(n + 1)
    BY <1>0, <2>4 DEF l
  <2>6. SubSeq(l, j + 1, n + 1) = Append(SubSeq(s, j + 1, n), b)
    BY <2>3, <2>5, PieceOfAppend
  <2>7. SubSeq(s, j + 1, n) \in Seq(BucketType)
    <3>1. n \in ((j + 1) - 1)..n
      BY <1>0, <2>5
    <3> QED BY <2>5, <3>1, PieceGrows
  <2>8. SumAt(times, SubSeq(l, j + 1, n + 1)) =
          IF b.t \in times THEN Plus(SumAt(times, SubSeq(s, j + 1, n)), b.c)
                           ELSE SumAt(times, SubSeq(s, j + 1, n))
    <3>1. PICK p \in Seq(BucketType) : p = SubSeq(s, j + 1, n)
      BY <2>7
    <3>2. SumAt(times, Append(p, b)) =
            IF b.t \in times THEN Plus(SumAt(times, p), b.c) ELSE SumAt(times, p)
      BY SumAppend
    <3>3. SubSeq(l, j + 1, n + 1) = Append(p, b)
      BY <2>6, <3>1
    <3> QED BY <3>1, <3>2, <3>3
  <2>9. b.t = t /\ b.c = c
    BY <2>2
  <2> QED BY <2>4, <2>5, <2>8, <2>9 DEF l
<1> QED BY <1>1, <1>2

\* So they are added to the sum over all buckets.
LEMMA AddToSum ==
  ASSUME NEW times, NEW s \in Seq(BucketType), NEW t \in Nat, NEW c \in CountersType
  PROVE  /\ AddTo(s, t, c) # <<>>
         /\ SumAt(times, AddTo(s, t, c)) =
              IF t \in times THEN Plus(SumAt(times, s), c) ELSE SumAt(times, s)
<1> DEFINE l == AddTo(s, t, c)
<1>1. l \in Seq(BucketType) /\ Len(l) > 0 /\ Len(s) \in Nat
  <2>1. l \in Seq(BucketType)
    BY AddToType
  <2>2. InLast(s, t) => Len(l) = Len(s) /\ Len(s) \in 1..Len(s)
    <3>1. SUFFICES ASSUME InLast(s, t) PROVE Len(l) = Len(s) /\ Len(s) \in 1..Len(s)
      OBVIOUS
    <3> QED BY <3>1, AddToLast
  <2>3. ~ InLast(s, t) => l = Append(s, [t |-> t, c |-> c])
    BY DEF AddTo
  <2>4. Len(s) \in Nat
    OBVIOUS
  <2> HIDE DEF l
  <2>5. ~ InLast(s, t) => Len(l) > 0
    BY <2>3, <2>4
  <2> QED BY <2>1, <2>2, <2>4, <2>5
<1>2. SubSeq(l, 1, Len(l)) = l /\ SubSeq(s, 1, Len(s)) = s
  BY <1>1, SubSeqFull
<1>3. SumAt(times, SubSeq(l, 1, Len(l))) =
        IF t \in times THEN Plus(SumAt(times, SubSeq(s, 1, Len(s))), c)
                       ELSE SumAt(times, SubSeq(s, 1, Len(s)))
  <2>1. 0 \in Nat /\ 0 < Len(l) /\ 0 + 1 = 1
    BY <1>1
  <2>2. ASSUME NEW j \in Nat, j < Len(l)
        PROVE  SumAt(times, SubSeq(l, j + 1, Len(l))) =
                 IF t \in times THEN Plus(SumAt(times, SubSeq(s, j + 1, Len(s))), c)
                                ELSE SumAt(times, SubSeq(s, j + 1, Len(s)))
    BY <2>2, AddToSuffix
  <2> HIDE DEF l
  <2> QED BY <2>1, <2>2
<1>4. l # <<>>
  BY <1>1
<1> QED BY <1>2, <1>3, <1>4 DEF l

--------------------------------------------------------------------------------
(* The dashboard's numbers and the events it was told of: each event is a    *)
(* bucket of its own in told.                                                *)

\* Every suffix of the buckets holds what a suffix of the events adds up to: the
\* buckets are the newest events, grouped.
SuffixesMatch(buckets, told) ==
  \A j \in 0..Len(buckets) : \E n \in 0..Len(told) :
    SumOf(SubSeq(buckets, j + 1, Len(buckets))) = SumOf(SubSeq(told, n + 1, Len(told)))

\* No bucket is empty, and each begins at a multiple of BucketSecs.
BucketsOK(buckets) ==
  \A j \in 1..Len(buckets) : buckets[j].c.total > 0 /\ buckets[j].t % BucketSecs = 0

\* As long as no bucket was dropped, each time's events are in its buckets.
TimesMatch(buckets, told) ==
  SumOf(buckets) = SumOf(told) =>
    \A times \in SUBSET Nat : SumAt(times, buckets) = SumAt(times, told)

SumsMatch(buckets, told) ==
  /\ SuffixesMatch(buckets, told)
  /\ BucketsOK(buckets)
  /\ TimesMatch(buckets, told)
  /\ SumOf(buckets).total <= SumOf(told).total
  /\ Len(buckets) < MAX_BUCKETS => SumOf(buckets) = SumOf(told)

\* A bucket that is added to, or is new, keeps the numbers in step.
LEMMA AddToMatches ==
  ASSUME NEW b \in Seq(BucketType), NEW told \in Seq(BucketType),
         NEW t \in Nat, NEW c \in CountersType, c.total > 0, t % BucketSecs = 0,
         SumsMatch(b, told)
  PROVE  /\ SuffixesMatch(AddTo(b, t, c), Append(told, [t |-> t, c |-> c]))
         /\ BucketsOK(AddTo(b, t, c))
         /\ TimesMatch(AddTo(b, t, c), Append(told, [t |-> t, c |-> c]))
         /\ SumOf(AddTo(b, t, c)) = Plus(SumOf(b), c)
         /\ SumOf(Append(told, [t |-> t, c |-> c])) = Plus(SumOf(told), c)
<1> DEFINE l == AddTo(b, t, c)
<1>1. PICK e \in BucketType : e = [t |-> t, c |-> c]
  <2>1. [t |-> t, c |-> c] \in BucketType
    BY DEF BucketType
  <2> QED BY <2>1
<1>2. PICK h \in Seq(BucketType) : h = Append(told, e)
  <2>1. Append(told, e) \in Seq(BucketType)
    OBVIOUS
  <2> QED BY <2>1
<1>3. /\ e.t = t /\ e.c = c /\ l \in Seq(BucketType) /\ Len(h) = Len(told) + 1
      /\ Len(told) \in Nat /\ Len(b) \in Nat
  <2>1. l \in Seq(BucketType)
    BY AddToType
  <2>2. Len(h) = Len(told) + 1 /\ Len(told) \in Nat /\ Len(b) \in Nat
    BY <1>2
  <2> QED BY <1>1, <2>1, <2>2
<1>4. \A times : /\ SumAt(times, l) = IF t \in times THEN Plus(SumAt(times, b), c) ELSE SumAt(times, b)
                 /\ SumAt(times, h) = IF t \in times THEN Plus(SumAt(times, told), c)
                                                     ELSE SumAt(times, told)
                 /\ SumAt(times, b) \in CountersType /\ SumAt(times, told) \in CountersType
  <2>1. ASSUME NEW times
        PROVE  /\ SumAt(times, l) = IF t \in times THEN Plus(SumAt(times, b), c) ELSE SumAt(times, b)
               /\ SumAt(times, b) \in CountersType /\ SumAt(times, told) \in CountersType
    <3>1. SumAt(times, l) = IF t \in times THEN Plus(SumAt(times, b), c) ELSE SumAt(times, b)
      BY AddToSum
    <3>2. SumAt(times, b) \in CountersType /\ SumAt(times, told) \in CountersType
      BY SumAppend
    <3> QED BY <3>1, <3>2
  <2>2. ASSUME NEW times
        PROVE  SumAt(times, h) = IF t \in times THEN Plus(SumAt(times, told), c)
                                                ELSE SumAt(times, told)
    <3>1. SumAt(times, Append(told, e)) = IF e.t \in times THEN Plus(SumAt(times, told), e.c)
                                                           ELSE SumAt(times, told)
      BY SumAppend
    <3> QED BY <1>2, <1>3, <3>1
  <2> QED BY <2>1, <2>2
<1>5. SumOf(l) = Plus(SumOf(b), c) /\ SumOf(h) = Plus(SumOf(told), c)
  BY <1>4 DEF SumOf
<1>6. TimesMatch(l, h)
  <2>1. SUFFICES ASSUME SumOf(l) = SumOf(h), NEW times \in SUBSET Nat
                 PROVE  SumAt(times, l) = SumAt(times, h)
    BY DEF TimesMatch
  <2>2. SumOf(b) = SumOf(told)
    <3>1. PICK x \in CountersType, y \in CountersType : x = SumOf(b) /\ y = SumOf(told)
      BY <1>4 DEF SumOf
    <3>2. Plus(x, c) = Plus(y, c) => x = y
      BY PlusLaws
    <3> QED BY <1>5, <2>1, <3>1, <3>2
  <2>3. SumAt(times, b) = SumAt(times, told)
    BY <2>2 DEF SumsMatch, TimesMatch
  <2> QED BY <1>4, <2>3
<1>7. SuffixesMatch(l, h)
  <2>1. SUFFICES ASSUME NEW j \in 0..Len(l)
                 PROVE  \E n \in 0..Len(h) : SumOf(SubSeq(l, j + 1, Len(l))) = SumOf(SubSeq(h, n + 1, Len(h)))
    BY DEF SuffixesMatch
  <2> HIDE DEF l
  <2>2. CASE j = Len(l)
    <3>1. SubSeq(l, j + 1, Len(l)) = <<>>
      <4>1. Len(l) \in Nat
        BY <1>3
      <4> QED BY <2>2, <4>1, SubSeqEmpty
    <3>2. SubSeq(h, Len(h) + 1, Len(h)) = <<>> /\ Len(h) \in 0..Len(h)
      <4>1. Len(h) \in Nat
        OBVIOUS
      <4> QED BY <4>1, SubSeqEmpty
    <3> QED BY <3>1, <3>2
  <2>3. CASE j < Len(l)
    <3>1. /\ j \in 0..Len(b)
          /\ SumAt(Nat, SubSeq(l, j + 1, Len(l))) = Plus(SumAt(Nat, SubSeq(b, j + 1, Len(b))), c)
      <4>1. ASSUME NEW k \in Nat, k < Len(AddTo(b, t, c))
            PROVE  k <= Len(b)
        BY <4>1, AddToSuffix
      <4>2. ASSUME NEW k \in Nat, k < Len(AddTo(b, t, c))
            PROVE  SumAt(Nat, SubSeq(AddTo(b, t, c), k + 1, Len(AddTo(b, t, c)))) =
                     IF t \in Nat THEN Plus(SumAt(Nat, SubSeq(b, k + 1, Len(b))), c)
                                  ELSE SumAt(Nat, SubSeq(b, k + 1, Len(b)))
        BY <4>2, AddToSuffix
      <4>3. j \in Nat /\ j < Len(AddTo(b, t, c))
        BY <2>3 DEF l
      <4> QED BY <1>3, <4>1, <4>2, <4>3 DEF l
    <3>2. PICK n \in 0..Len(told) :
            SumOf(SubSeq(b, j + 1, Len(b))) = SumOf(SubSeq(told, n + 1, Len(told)))
      BY <3>1 DEF SumsMatch, SuffixesMatch
    <3>3. SumOf(SubSeq(h, n + 1, Len(h))) = Plus(SumOf(SubSeq(told, n + 1, Len(told))), c)
      <4>1. n + 1 \in 1..(Len(told) + 1) /\ Len(told) \in ((n + 1) - 1)..Len(told)
        BY <1>3
      <4>2. SubSeq(h, n + 1, Len(h)) = Append(SubSeq(told, n + 1, Len(told)), e)
        <5>1. SubSeq(Append(told, e), n + 1, Len(told) + 1) = Append(SubSeq(told, n + 1, Len(told)), e)
          BY <4>1, PieceOfAppend
        <5> QED BY <1>2, <1>3, <5>1
      <4>3. PICK p \in Seq(BucketType) : p = SubSeq(told, n + 1, Len(told))
        <5>1. SubSeq(told, n + 1, Len(told)) \in Seq(BucketType)
          BY <4>1, PieceGrows
        <5> QED BY <5>1
      <4>4. SumAt(Nat, Append(p, e)) = IF e.t \in Nat THEN Plus(SumAt(Nat, p), e.c) ELSE SumAt(Nat, p)
        BY SumAppend
      <4> QED BY <1>3, <4>2, <4>3, <4>4 DEF SumOf
    <3>4. n \in 0..Len(h)
      BY <1>3
    <3> QED BY <3>1, <3>2, <3>3, <3>4 DEF SumOf
  <2> QED BY <1>3, <2>2, <2>3
<1>8. BucketsOK(l)
  <2>1. \A j \in 1..Len(b) : b[j].c.total > 0 /\ b[j].t % BucketSecs = 0
    BY DEF SumsMatch, BucketsOK
  <2>2. CASE InLast(b, t)
    <3> DEFINE n == Len(b)
    <3>1. /\ n \in 1..n /\ Len(l) = n /\ (\A i \in 1..(n - 1) : l[i] = b[i])
          /\ b[n].t = t /\ l[n] = [t |-> t, c |-> Plus(b[n].c, c)]
      BY <2>2, AddToLast
    <3>2. b[n].c \in CountersType /\ b[n].c.total \in Nat
      <4>1. b[n] \in BucketType
        BY <3>1
      <4>2. b[n].c \in CountersType
        BY <4>1 DEF BucketType
      <4> QED BY <4>2 DEF CountersType
    <3>3. Plus(b[n].c, c).total = b[n].c.total + c.total /\ c.total \in Nat
      BY <3>2, PlusAdds DEF CountersType
    <3>4. l[n].c.total > 0 /\ l[n].t % BucketSecs = 0
      BY <3>1, <3>2, <3>3
    <3> HIDE DEF l
    <3>5. ASSUME NEW j \in 1..Len(l)
          PROVE  l[j].c.total > 0 /\ l[j].t % BucketSecs = 0
      <4>1. CASE j = n
        BY <3>4, <4>1
      <4>2. CASE j # n
        <5>1. j \in 1..(n - 1) /\ j \in 1..n
          BY <1>3, <3>1, <4>2
        <5> QED BY <2>1, <3>1, <5>1
      <4> QED BY <4>1, <4>2
    <3> QED BY <3>5 DEF BucketsOK
  <2>3. CASE ~ InLast(b, t)
    <3>1. l = Append(b, e)
      BY <1>1, <2>3 DEF AddTo
    <3> HIDE DEF l
    <3>2. Len(l) = Len(b) + 1 /\ l[Len(b) + 1] = e /\ \A j \in 1..Len(b) : l[j] = b[j]
      BY <3>1
    <3>3. ASSUME NEW j \in 1..Len(l)
          PROVE  l[j].c.total > 0 /\ l[j].t % BucketSecs = 0
      <4>1. CASE j = Len(b) + 1
        BY <1>3, <3>2, <4>1
      <4>2. CASE j # Len(b) + 1
        <5>1. j \in 1..Len(b)
          BY <1>3, <3>2, <4>2
        <5> QED BY <2>1, <3>2, <5>1
      <4> QED BY <4>1, <4>2
    <3> QED BY <3>3 DEF BucketsOK
  <2> QED BY <2>2, <2>3
<1> QED BY <1>1, <1>2, <1>5, <1>6, <1>7, <1>8

\* Dropping the oldest bucket leaves the rest a suffix of the events, and less than
\* was counted.
LEMMA DropMatches ==
  ASSUME NEW l \in Seq(BucketType), NEW told \in Seq(BucketType), BoardAssumption,
         Len(l) <= MAX_BUCKETS + 1,
         SuffixesMatch(l, told), BucketsOK(l), TimesMatch(l, told),
         SumOf(l).total <= SumOf(told).total
  PROVE  /\ SuffixesMatch(Newest(l, MAX_BUCKETS), told)
         /\ BucketsOK(Newest(l, MAX_BUCKETS))
         /\ TimesMatch(Newest(l, MAX_BUCKETS), told)
         /\ SumOf(Newest(l, MAX_BUCKETS)).total <= SumOf(told).total
         /\ Len(Newest(l, MAX_BUCKETS)) < MAX_BUCKETS => Newest(l, MAX_BUCKETS) = l
<1> DEFINE r == Newest(l, MAX_BUCKETS)
           n == Len(l)
<1>1. n \in Nat /\ MAX_BUCKETS \in Nat
  BY DEF BoardAssumption
<1>2. CASE n <= MAX_BUCKETS
  <2>1. r = SubSeq(l, 1, n)
    <3>1. ~ (Len(l) > MAX_BUCKETS)
      BY <1>1, <1>2
    <3> QED BY <3>1 DEF Newest
  <2>2. r = l
    BY <2>1, SubSeqFull
  <2> QED BY <2>2
<1>3. CASE ~ (n <= MAX_BUCKETS)
  <2>1. n = MAX_BUCKETS + 1 /\ n - MAX_BUCKETS + 1 = 2 /\ n >= 1
    BY <1>1, <1>3
  <2>2. r = SubSeq(l, 2, n)
    BY <1>3, <2>1 DEF Newest
  <2>3. \A i \in 1..n : l[i] \in BucketType
    OBVIOUS
  <2> HIDE DEF r
  <2>4. /\ r \in Seq(BucketType) /\ Len(r) = MAX_BUCKETS
        /\ \A i \in 1..MAX_BUCKETS : r[i] = l[i + 1]
    <3> HIDE DEF n
    <3>1. \A i \in 2..n : l[i] \in BucketType
      BY <1>1, <2>3
    <3>2. /\ r \in Seq(BucketType) /\ Len(r) = IF 2 <= n THEN n - 2 + 1 ELSE 0
          /\ \A i \in 1..(n - 2 + 1) : r[i] = l[2 + i - 1]
      BY <1>1, <2>2, <3>1, SubSeqProperties
    <3>3. (IF 2 <= n THEN n - 2 + 1 ELSE 0) = MAX_BUCKETS /\ n - 2 + 1 = MAX_BUCKETS
      BY <1>1, <2>1
    <3>4. \A i \in 1..MAX_BUCKETS : 2 + i - 1 = i + 1
      OBVIOUS
    <3> QED BY <3>2, <3>3, <3>4
  <2>5. SumOf(l) = Plus(SumOf(SubSeq(l, 1, 1)), SumOf(r))
    <3>1. 1 \in 0..n /\ 1 + 1 = 2
      BY <1>1, <2>1
    <3>2. SumAt(Nat, l) = Plus(SumAt(Nat, SubSeq(l, 1, 1)), SumAt(Nat, SubSeq(l, 1 + 1, n)))
      BY <3>1, SumSplit
    <3> QED BY <2>2, <3>1, <3>2 DEF SumOf
  <2>6. SumOf(SubSeq(l, 1, 1)) = l[1].c /\ l[1].c \in CountersType
    <3>1. 1 \in 1..(n + 1) /\ 0 \in (1 - 1)..n /\ 0 < n /\ 1 \in 1..n /\ 0 + 1 = 1 /\ 1 - 1 = 0
      BY <1>1, <2>1
    <3>2. l[1] \in BucketType /\ l[1].t \in Nat /\ l[1].c \in CountersType
      <4>1. l[1] \in BucketType
        BY <3>1
      <4> QED BY <4>1 DEF BucketType
    <3>3. /\ SumAt(Nat, SubSeq(l, 1, 1 - 1)) = ZeroCounters
          /\ SumAt(Nat, SubSeq(l, 1, 0 + 1)) =
               IF l[0 + 1].t \in Nat THEN Plus(SumAt(Nat, SubSeq(l, 1, 0)), l[0 + 1].c)
                                     ELSE SumAt(Nat, SubSeq(l, 1, 0))
      BY <3>1, SumOfPiece
    <3>4. SumAt(Nat, SubSeq(l, 1, 1)) = Plus(ZeroCounters, l[1].c)
      BY <3>1, <3>2, <3>3
    <3> QED BY <3>2, <3>4, PlusLaws DEF SumOf
  <2>7. SumOf(l).total = l[1].c.total + SumOf(r).total /\ l[1].c.total > 0
    <3>1. SumOf(r) \in CountersType
      BY <2>4, SumAppend DEF SumOf
    <3>2. 1 \in 1..Len(l)
      BY <1>1, <2>1
    <3> QED BY <2>5, <2>6, <3>1, <3>2, PlusAdds DEF BucketsOK
  <2>8. /\ SumOf(r).total \in Nat /\ SumOf(l).total \in Nat /\ SumOf(told).total \in Nat
        /\ l[1].c.total \in Nat
    <3>1. SumOf(r) \in CountersType /\ SumOf(l) \in CountersType /\ SumOf(told) \in CountersType
      BY <2>4, SumAppend DEF SumOf
    <3> QED BY <2>6, <3>1 DEF CountersType
  <2>9. SumOf(r).total < SumOf(told).total
    BY <2>7, <2>8
  <2>10. TimesMatch(r, told)
    BY <2>8, <2>9 DEF TimesMatch
  <2>11. BucketsOK(r)
    <3>1. ASSUME NEW j \in 1..Len(r)
          PROVE  r[j].c.total > 0 /\ r[j].t % BucketSecs = 0
      <4>1. j + 1 \in 1..Len(l) /\ r[j] = l[j + 1]
        BY <1>1, <2>1, <2>4
      <4> QED BY <4>1 DEF BucketsOK
    <3> QED BY <3>1 DEF BucketsOK
  <2>12. SuffixesMatch(r, told)
    <3>1. SUFFICES ASSUME NEW j \in 0..Len(r)
                   PROVE  \E k \in 0..Len(told) :
                            SumOf(SubSeq(r, j + 1, Len(r))) = SumOf(SubSeq(told, k + 1, Len(told)))
      BY DEF SuffixesMatch
    <3>2. SubSeq(r, j + 1, Len(r)) = SubSeq(l, (j + 1) + 1, n)
      <4>1. CASE j = Len(r)
        <5>1. /\ j + 1 \in Int /\ Len(r) \in Int /\ Len(r) < j + 1
              /\ (j + 1) + 1 \in Int /\ n \in Int /\ n < (j + 1) + 1
          BY <1>1, <2>1, <2>4, <4>1
        <5>2. SubSeq(r, j + 1, Len(r)) = <<>> /\ SubSeq(l, (j + 1) + 1, n) = <<>>
          BY <5>1, SubSeqEmpty
        <5> QED BY <5>2
      <4>2. CASE j # Len(r)
        <5>1. /\ 2 \in 1..Len(l) /\ n \in 1..Len(l) /\ j + 1 \in 1..(n - 2 + 1)
              /\ Len(r) \in 1..(n - 2 + 1)
          BY <1>1, <2>1, <2>4, <4>2
        <5>2. SubSeq(SubSeq(l, 2, n), j + 1, Len(r)) = SubSeq(l, 2 + (j + 1) - 1, 2 + Len(r) - 1)
          BY <5>1, SubSeqOfSubSeq
        <5>3. 2 + (j + 1) - 1 = (j + 1) + 1 /\ 2 + Len(r) - 1 = n
          BY <1>1, <2>1, <2>4
        <5> QED BY <2>2, <5>2, <5>3
      <4> QED BY <4>1, <4>2
    <3>3. j + 1 \in 0..Len(l)
      BY <1>1, <2>1, <2>4
    <3> QED BY <3>2, <3>3 DEF SuffixesMatch
  <2>13. SumOf(r).total <= SumOf(told).total
    BY <2>8, <2>9
  <2> QED BY <1>1, <2>4, <2>10, <2>11, <2>12, <2>13 DEF r
<1> QED BY <1>2, <1>3

\* An event that is counted keeps the numbers in step.
LEMMA CountMatches ==
  ASSUME NEW b \in Seq(BucketType), NEW told \in Seq(BucketType), BoardAssumption,
         NEW t \in Nat, NEW c \in CountersType, c.total > 0, t % BucketSecs = 0,
         SumsMatch(b, told), Len(b) <= MAX_BUCKETS
  PROVE  SumsMatch(Newest(AddTo(b, t, c), MAX_BUCKETS), Append(told, [t |-> t, c |-> c]))
<1>1. PICK l \in Seq(BucketType) : l = AddTo(b, t, c)
  BY AddToType
<1>2. PICK h \in Seq(BucketType) : h = Append(told, [t |-> t, c |-> c])
  <2>1. [t |-> t, c |-> c] \in BucketType
    BY DEF BucketType
  <2>2. Append(told, [t |-> t, c |-> c]) \in Seq(BucketType)
    BY <2>1
  <2> QED BY <2>2
<1>3. Len(l) \in Nat /\ Len(b) \in Nat /\ Len(b) <= Len(l) /\ Len(l) <= Len(b) + 1
  <2>1. InLast(b, t) => Len(l) = Len(b)
    <3>1. SUFFICES ASSUME InLast(b, t) PROVE Len(l) = Len(b)
      OBVIOUS
    <3>2. Len(AddTo(b, t, c)) = Len(b)
      BY <3>1, AddToLast
    <3> QED BY <1>1, <3>2
  <2>2. ~ InLast(b, t) => AddTo(b, t, c) = Append(b, [t |-> t, c |-> c])
    BY DEF AddTo
  <2>3. Len(b) \in Nat
    OBVIOUS
  <2> QED BY <1>1, <2>1, <2>2, <2>3
<1>4. /\ SuffixesMatch(l, h) /\ BucketsOK(l) /\ TimesMatch(l, h)
      /\ SumOf(l) = Plus(SumOf(b), c) /\ SumOf(h) = Plus(SumOf(told), c)
  BY <1>1, <1>2, AddToMatches
<1>5. SumOf(l).total <= SumOf(h).total
  <2>1. SumOf(b) \in CountersType /\ SumOf(told) \in CountersType
    BY SumAppend DEF SumOf
  <2>2. SumOf(l).total = SumOf(b).total + c.total /\ SumOf(h).total = SumOf(told).total + c.total
    BY <1>4, <2>1, PlusAdds
  <2>3. SumOf(b).total <= SumOf(told).total
    BY DEF SumsMatch
  <2>4. SumOf(b).total \in Nat /\ SumOf(told).total \in Nat /\ c.total \in Nat
    BY <2>1 DEF CountersType
  <2> QED BY <2>2, <2>3, <2>4
<1>6. PICK r : r = Newest(l, MAX_BUCKETS)
  OBVIOUS
<1>7. Len(l) <= MAX_BUCKETS + 1 /\ MAX_BUCKETS \in Nat
  BY <1>3 DEF BoardAssumption
<1>8. /\ SuffixesMatch(r, h) /\ BucketsOK(r) /\ TimesMatch(r, h)
      /\ SumOf(r).total <= SumOf(h).total
      /\ Len(r) < MAX_BUCKETS => r = l
  BY <1>4, <1>5, <1>6, <1>7, DropMatches
<1>9. ASSUME Len(r) < MAX_BUCKETS
      PROVE  SumOf(r) = SumOf(h)
  <2>1. r = l /\ Len(b) < MAX_BUCKETS
    BY <1>3, <1>7, <1>8, <1>9
  <2>2. SumOf(b) = SumOf(told)
    BY <2>1 DEF SumsMatch
  <2> QED BY <1>4, <2>1, <2>2
<1> QED BY <1>1, <1>2, <1>6, <1>8, <1>9 DEF SumsMatch

\* Buckets that are sorted from one to the next are sorted.
LEMMA SortedThroughout ==
  ASSUME NEW b \in Seq(BucketType), Sorted(b), NEW i \in 1..Len(b), NEW j \in 1..Len(b), i < j
  PROVE  b[i].t < b[j].t
<1> DEFINE n == Len(b)
           S == {m \in 0..(n - i) : m = 0 \/ b[i].t < b[i + m].t}
<1>1. /\ n \in Nat /\ i \in Nat /\ j \in Nat /\ n - i \in Nat /\ j - i \in 0..(n - i) /\ j - i # 0
      /\ i + (j - i) = j
  OBVIOUS
<1>2. \A k \in 1..n : b[k].t \in Nat
  <2>1. \A k \in 1..n : b[k] \in BucketType
    OBVIOUS
  <2> QED BY <2>1 DEF BucketType
<1>3. 0 \in S
  BY <1>1
<1>4. ASSUME NEW m \in 0..((n - i) - 1), m \in S
      PROVE  m + 1 \in S
  <2>1. /\ i + m \in 1..(n - 1) /\ i + m \in 1..n /\ (i + m) + 1 \in 1..n /\ m + 1 \in 0..(n - i)
        /\ (i + m) + 1 = i + (m + 1)
    BY <1>1
  <2>2. b[i + m].t < b[(i + m) + 1].t
    BY <2>1 DEF Sorted
  <2>3. b[i].t <= b[i + m].t
    <3>1. CASE m = 0
      BY <1>1, <1>2, <3>1
    <3>2. CASE m # 0
      BY <1>2, <1>4, <2>1, <3>2
    <3> QED BY <3>1, <3>2
  <2>4. b[i].t < b[i + (m + 1)].t
    <3> DEFINE x == b[i].t  y == b[i + m].t  z == b[i + (m + 1)].t
    <3>1. x \in Nat /\ y \in Nat /\ z \in Nat
      BY <1>2, <2>1
    <3>2. x <= y /\ y < z
      BY <2>1, <2>2, <2>3
    <3> HIDE DEF x, y, z
    <3>3. x < z
      BY <3>1, <3>2
    <3> QED BY <3>3 DEF x, z
  <2> QED BY <2>1, <2>4
<1> HIDE DEF S
<1>5. j - i \in S
  <2>1. \A m \in 0..(n - i) : m \in S
    BY <1>1, <1>3, <1>4, EveryNumber
  <2> QED BY <1>1, <2>1
<1> QED BY <1>1, <1>5 DEF S

\* In sorted buckets, those before a time are the first ones.
LEMMA BeforeIsFirst ==
  ASSUME NEW b \in Seq(BucketType), Sorted(b), NEW s \in Nat
  PROVE  /\ Before(b, s) \in 0..Len(b)
         /\ \A i \in 1..Len(b) : b[i].t < s <=> i <= Before(b, s)
<1> DEFINE n == Len(b)
           A == {i \in DOMAIN b : b[i].t < s}
           others == {i \in 1..(n + 1) : i \notin A}
<1>1. n \in Nat /\ DOMAIN b = 1..n
  OBVIOUS
<1>2. \A k \in 1..n : b[k].t \in Nat
  <2>1. \A k \in 1..n : b[k] \in BucketType
    OBVIOUS
  <2> QED BY <2>1 DEF BucketType
<1>3. PICK q \in others : \A k \in others : q <= k
  <2>1. n + 1 \in others /\ others \in SUBSET Nat
    BY <1>1
  <2> HIDE DEF others
  <2> QED BY <2>1, LeastNumber
<1>4. q \in 1..(n + 1) /\ q - 1 \in 0..n
  BY <1>1
<1>5. ASSUME NEW i \in 1..n
      PROVE  b[i].t < s <=> i <= q - 1
  <2>1. i < q => b[i].t < s
    BY <1>1, <1>3, <1>4
  <2>2. i >= q => ~ (b[i].t < s)
    <3>1. ASSUME i >= q
          PROVE  ~ (b[i].t < s)
      <4>1. q \in 1..n /\ ~ (b[q].t < s)
        BY <1>1, <1>4, <3>1
      <4>2. i = q \/ b[q].t < b[i].t
        BY <1>4, <3>1, <4>1, SortedThroughout
      <4> QED BY <1>2, <4>1, <4>2
    <3> QED BY <3>1
  <2> QED BY <1>4, <2>1, <2>2
<1>6. A = 1..(q - 1)
  BY <1>1, <1>4, <1>5
<1>7. Before(b, s) = q - 1
  <2>1. Cardinality(1..(q - 1)) = q - 1
    <3>1. 1 \in Int /\ q - 1 \in Int /\ (IF 1 > q - 1 THEN 0 ELSE (q - 1) - 1 + 1) = q - 1
      BY <1>4
    <3> QED BY <3>1, FS_Interval
  <2> QED BY <1>6, <2>1 DEF Before
<1> QED BY <1>4, <1>5, <1>7

\* The buckets of a range are the buckets from its time on, and its counters are
\* the sum over them.
LEMMA RangeMatches ==
  ASSUME NEW bd \in BoardType, Sorted(bd.buckets), NEW s \in Nat,
         SumOf(bd.buckets) = bd.counters
  PROVE  RangeCounters(bd, s) = SumAt({t \in Nat : t >= s}, bd.buckets)
<1> DEFINE b == bd.buckets
           n == Len(b)
           p == Before(b, s)
           times == {t \in Nat : t >= s}
<1>1. b \in Seq(BucketType) /\ n \in Nat
  BY DEF BoardType
<1>2. p \in 0..n /\ \A i \in 1..n : b[i].t < s <=> i <= p
  BY <1>1, BeforeIsFirst
<1>3. \A i \in 1..n : b[i] \in BucketType /\ b[i].t \in Nat
  <2>1. \A i \in 1..n : b[i] \in BucketType
    BY <1>1
  <2> QED BY <2>1 DEF BucketType
<1>4. \A i \in 1..n : b[i].t \in times <=> ~ (i <= p)
  BY <1>2, <1>3
<1>5. CASE p = 0
  <2>1. \A i \in 1..n : b[i].t \in times <=> b[i].t \in Nat
    BY <1>3, <1>4, <1>5
  <2> HIDE DEF times, b
  <2>2. SumAt(times, b) = SumAt(Nat, b)
    BY <1>1, <2>1, SumAgrees
  <2> QED BY <1>5, <2>2 DEF RangeCounters, SumOf, times, b
<1>6. CASE p # 0
  <2> DEFINE first == SubSeq(b, 1, p)
             rest == SubSeq(b, p + 1, n)
  <2> HIDE DEF b, n, p, times
  <2>1. /\ first \in Seq(BucketType) /\ Len(first) = p
        /\ \A i \in 1..p : first[i] = b[i] /\ i \in 1..n
    <3>1. \A i \in 1..p : i \in 1..n
      BY <1>1, <1>2
    <3>2. \A i \in 1..p : b[i] \in BucketType
      BY <1>3, <3>1
    <3>3. /\ first \in Seq(BucketType) /\ Len(first) = IF 1 <= p THEN p - 1 + 1 ELSE 0
          /\ \A i \in 1..(p - 1 + 1) : first[i] = b[1 + i - 1]
      BY <1>2, <3>2, SubSeqProperties
    <3>4. p \in Nat /\ p >= 1 /\ p - 1 + 1 = p /\ \A i \in 1..p : 1 + i - 1 = i
      BY <1>2, <1>6
    <3> QED BY <3>1, <3>3, <3>4
  <2>2. /\ rest \in Seq(BucketType) /\ Len(rest) = n - p
        /\ \A i \in 1..(n - p) : rest[i] = b[p + i] /\ p + i \in 1..n
    <3>1. \A i \in (p + 1)..n : i \in 1..n
      BY <1>1, <1>2
    <3>2. \A i \in (p + 1)..n : b[i] \in BucketType
      BY <1>3, <3>1
    <3>3. /\ rest \in Seq(BucketType) /\ Len(rest) = IF p + 1 <= n THEN n - (p + 1) + 1 ELSE 0
          /\ \A i \in 1..(n - (p + 1) + 1) : rest[i] = b[(p + 1) + i - 1]
      <4>1. p + 1 \in Int /\ n \in Int
        BY <1>1, <1>2
      <4> QED BY <3>2, <4>1, SubSeqProperties
    <3>4. /\ n - (p + 1) + 1 = n - p /\ (IF p + 1 <= n THEN n - p ELSE 0) = n - p
          /\ \A i \in 1..(n - p) : (p + 1) + i - 1 = p + i /\ p + i \in 1..n
      BY <1>1, <1>2
    <3> QED BY <3>3, <3>4
  <2> HIDE DEF first, rest
  <2>3. SumAt(times, first) = ZeroCounters
    <3>1. \A i \in 1..Len(first) : first[i].t \notin times
      BY <1>2, <1>4, <2>1
    <3> QED BY <2>1, <3>1, SumOfNone
  <2>4. SumAt(times, rest) = SumAt(Nat, rest)
    <3>1. \A i \in 1..Len(rest) : rest[i].t \in times <=> rest[i].t \in Nat
      <4>1. ASSUME NEW i \in 1..Len(rest)
            PROVE  rest[i].t \in times /\ rest[i].t \in Nat
        <5>1. i \in 1..(n - p) /\ ~ (p + i <= p)
          BY <1>1, <1>2, <2>2
        <5>2. rest[i] = b[p + i] /\ p + i \in 1..n
          BY <2>2, <5>1
        <5> QED BY <1>3, <1>4, <5>1, <5>2
      <4> QED BY <4>1
    <3> QED BY <2>2, <3>1, SumAgrees
  <2>5. SumAt(times, b) = Plus(SumAt(times, first), SumAt(times, rest))
    BY <1>1, <1>2, SumSplit DEF first, rest, n
  <2>6. SumAt(times, rest) \in CountersType
    BY <2>2, SumAppend
  <2>7. SumAt(times, b) = SumAt(Nat, rest)
    BY <2>3, <2>4, <2>5, <2>6, PlusLaws
  <2> QED BY <1>6, <2>7 DEF RangeCounters, RangeBuckets, SumOf, times, b, rest, n, p
<1> QED BY <1>5, <1>6

\* Division with remainder.
LEMMA DivMod ==
  ASSUME NEW t \in Nat, NEW k \in Nat \ {0}
  PROVE  /\ t \div k \in Nat /\ t % k \in Nat
         /\ t = (t \div k) * k + (t % k)
         /\ 0 <= t % k /\ t % k < k
OBVIOUS

\* A product is monotonic, and of distinct factors distinct by at least the other.
LEMMA TimesMonotonic ==
  ASSUME NEW a \in Int, NEW b \in Int, NEW k \in Nat \ {0}
  PROVE  /\ a * k \in Int /\ b * k \in Int
         /\ a <= b <=> a * k <= b * k
         /\ a < b => a * k + k <= b * k
         /\ (a + 1) * k = a * k + k
<1>1. a * k \in Int /\ b * k \in Int
  OBVIOUS
<1>2. a <= b => a * k <= b * k
  OBVIOUS
<1>3. (a + 1) * k = a * k + k
  OBVIOUS
<1>4. a < b => a * k + k <= b * k
  <2>1. ASSUME a < b
        PROVE  (a + 1) * k <= b * k
    <3>1. a + 1 <= b /\ a + 1 \in Int
      BY <2>1
    <3> QED BY <3>1
  <2> QED BY <1>3, <2>1
<1>5. a * k <= b * k => a <= b
  <2>1. SUFFICES ASSUME a * k <= b * k, b < a PROVE FALSE
    OBVIOUS
  <2>2. (b + 1) * k <= a * k
    <3>1. b + 1 <= a /\ b + 1 \in Int
      BY <2>1
    <3> QED BY <3>1
  <2>3. (b + 1) * k = b * k + k
    OBVIOUS
  <2> QED BY <1>1, <2>1, <2>2, <2>3
<1> QED BY <1>1, <1>2, <1>3, <1>4, <1>5

\* The time a step begins at.
LEMMA AlignedFacts ==
  ASSUME NEW t \in Nat, NEW k \in Nat \ {0}
  PROVE  /\ Aligned(t, k) \in Nat
         /\ Aligned(t, k) <= t /\ t < Aligned(t, k) + k
         /\ Aligned(t, k) % k = 0
         /\ \A u \in Nat : t <= u => Aligned(t, k) <= Aligned(u, k)
<1>1. PICK q \in Nat, r \in Nat : q = t \div k /\ r = t % k
  BY DivMod
<1>2. t = q * k + r /\ r < k /\ q * k \in Nat
  BY <1>1, DivMod
<1>3. Aligned(t, k) = q * k
  BY <1>1 DEF Aligned
<1>4. (q * k) % k = 0
  <2> DEFINE a == q * k
  <2>1. a \in Nat
    BY <1>2
  <2>2. PICK p \in Nat, s \in Nat : p = a \div k /\ s = a % k
    BY <2>1, DivMod
  <2>3. a = p * k + s /\ s < k
    BY <2>1, <2>2, DivMod
  <2>4. ~ (p < q)
    <3>1. p < q => p * k + k <= q * k
      BY TimesMonotonic
    <3> QED BY <1>2, <2>3, <3>1, TimesMonotonic
  <2>5. ~ (q < p)
    <3>1. q < p => q * k + k <= p * k
      BY TimesMonotonic
    <3>2. p * k \in Int /\ q * k \in Int
      BY TimesMonotonic
    <3> QED BY <2>3, <3>1, <3>2
  <2>6. p = q
    BY <2>4, <2>5
  <2>7. s = 0
    <3>1. q * k = q * k + s /\ q * k \in Nat
      BY <1>2, <2>3, <2>6
    <3> QED BY <3>1
  <2> QED BY <2>2, <2>7
<1>5. ASSUME NEW u \in Nat, t <= u
      PROVE  Aligned(t, k) <= Aligned(u, k)
  <2>1. PICK p \in Nat, s \in Nat : p = u \div k /\ s = u % k
    BY DivMod
  <2>2. u = p * k + s /\ s < k /\ p * k \in Nat
    BY <2>1, DivMod
  <2>3. ~ (p < q)
    <3>1. p < q => p * k + k <= q * k
      BY TimesMonotonic
    <3> QED BY <1>2, <1>5, <2>2, <3>1
  <2>4. q <= p
    BY <2>3
  <2>5. q * k <= p * k
    BY <2>4, TimesMonotonic
  <2> QED BY <1>3, <2>1, <2>5 DEF Aligned
<1> QED BY <1>2, <1>3, <1>4, <1>5

\* Multiples of k that differ, differ by k at least.
LEMMA MultiplesApart ==
  ASSUME NEW t \in Nat, NEW u \in Nat, NEW k \in Nat \ {0}, t % k = 0, u % k = 0, t < u
  PROVE  t + k <= u
<1>1. PICK p \in Nat, q \in Nat : p = t \div k /\ q = u \div k
  BY DivMod
<1>2. t = p * k + 0 /\ u = q * k + 0 /\ p * k \in Nat /\ q * k \in Nat
  BY <1>1, DivMod
<1>3. p < q
  <2>1. q <= p => q * k <= p * k
    BY TimesMonotonic
  <2> QED BY <1>2, <2>1
<1>4. p * k + k <= q * k
  BY <1>3, TimesMonotonic
<1> QED BY <1>2, <1>4

\* A step of the chart is a multiple of the bucket width that is large enough.
LEMMA StepIsEnough ==
  ASSUME NEW n \in Nat, BoardAssumption, n > MAX_SERIES_POINTS
  PROVE  /\ DivCeil(n, MAX_SERIES_POINTS) \in Nat \ {0}
         /\ n <= DivCeil(n, MAX_SERIES_POINTS) * MAX_SERIES_POINTS
<1> DEFINE k == MAX_SERIES_POINTS
           a == n + k - 1
<1>1. k \in Nat \ {0} /\ a \in Nat
  BY DEF BoardAssumption
<1>2. PICK w \in Nat, r \in Nat : w = a \div k /\ r = a % k
  BY <1>1, DivMod
<1>3. a = w * k + r /\ r < k /\ w * k \in Nat
  BY <1>1, <1>2, DivMod
<1> HIDE DEF k
<1>4. n <= w * k
  BY <1>1, <1>3
<1>5. w # 0
  <2>1. w = 0 => w * k = 0
    BY <1>1
  <2>2. n > 0
    BY <1>1 DEF k
  <2> QED BY <1>3, <1>4, <2>1, <2>2
<1>6. DivCeil(n, k) = w
  BY <1>2 DEF DivCeil
<1> QED BY <1>4, <1>5, <1>6 DEF k

\* The function by which SeriesPoints is defined, for buckets of this step.
Merges(g, buckets, width) ==
  g = [s \in SUBSET (1..Len(buckets)) |->
         IF s = {} THEN <<>>
         ELSE AddTo(g[s \ {Max(s)}], Aligned(buckets[Max(s)].t, width), buckets[Max(s)].c)]

\* The points are what that function has for all places.
LEMMA PointsByScan ==
  ASSUME NEW buckets \in Seq(BucketType)
  PROVE  FoldLeft(LAMBDA merged, b : AddTo(merged, Aligned(b.t, Step(buckets)), b.c), <<>>, buckets)
           = (CHOOSE g : Merges(g, buckets, Step(buckets)))[1..Len(buckets)]
<1>1. DOMAIN buckets = 1..Len(buckets)
  OBVIOUS
<1> QED BY <1>1, Zenon DEF FoldLeft, MapThenFoldSet, Merges

\* The points of a chart are built up bucket by bucket.
LEMMA PointSteps ==
  ASSUME NEW buckets \in Seq(BucketType), NEW width \in Nat \ {0}
  PROVE  \E points \in [0..Len(buckets) -> Seq(BucketType)] :
           /\ points[0] = <<>>
           /\ \A i \in 1..Len(buckets) :
                points[i] = AddTo(points[i - 1], Aligned(buckets[i].t, width), buckets[i].c)
           /\ points[Len(buckets)] = (CHOOSE g : Merges(g, buckets, width))[1..Len(buckets)]
<1> DEFINE n == Len(buckets)
           X == Seq(BucketType)
           step == [p \in X \X (1..n) |-> AddTo(p[1], Aligned(buckets[p[2]].t, width), buckets[p[2]].c)]
           g == CHOOSE h : Merges(h, buckets, width)
           points == [i \in 0..n |-> g[1..i]]
<1>1. n \in Nat /\ <<>> \in X /\ \A i \in 1..n : buckets[i].t \in Nat /\ buckets[i].c \in CountersType
  <2>1. n \in Nat /\ <<>> \in X /\ \A i \in 1..n : buckets[i] \in BucketType
    OBVIOUS
  <2>2. \A b \in BucketType : b.t \in Nat /\ b.c \in CountersType
    BY DEF BucketType
  <2> QED BY <2>1, <2>2
<1>2. \A s \in X, i \in 1..n : AddTo(s, Aligned(buckets[i].t, width), buckets[i].c) \in X
  <2>1. \A i \in 1..n : Aligned(buckets[i].t, width) \in Nat
    BY <1>1, AlignedFacts
  <2> QED BY <1>1, <2>1, AddToType
<1>3. step \in [X \X (1..n) -> X]
  BY <1>2
<1> HIDE DEF X
<1>4. \E h : Merges(h, buckets, width)
  <2>1. PICK f : Scans(f, n, <<>>, step)
    BY <1>1, ScanOfAll
  <2>2. f \in [SUBSET (1..n) -> X]
    <3> HIDE DEF step, n
    <3> QED BY <1>1, <1>3, <2>1, ScanSteps
  <2>3. ASSUME NEW s \in SUBSET (1..n)
        PROVE  f[s] = IF s = {} THEN <<>>
                      ELSE AddTo(f[s \ {Max(s)}], Aligned(buckets[Max(s)].t, width), buckets[Max(s)].c)
    <3>1. CASE s = {}
      BY <2>1, <3>1 DEF Scans
    <3>2. CASE s # {}
      <4>1. Max(s) \in 1..n /\ s \ {Max(s)} \in SUBSET (1..n)
        BY <1>1, <3>2, LastPlaceOf
      <4>2. <<f[s \ {Max(s)}], Max(s)>> \in X \X (1..n)
        BY <2>2, <4>1
      <4>3. f[s] = step[<<f[s \ {Max(s)}], Max(s)>>]
        BY <2>1, <3>2 DEF Scans
      <4> QED BY <3>2, <4>2, <4>3
    <3> QED BY <3>1, <3>2
  <2>4. f = [s \in SUBSET (1..n) |-> f[s]]
    BY <2>2
  <2>5. Merges(f, buckets, width)
    <3> DEFINE h == [s \in SUBSET (1..n) |->
                       IF s = {} THEN <<>>
                       ELSE AddTo(f[s \ {Max(s)}], Aligned(buckets[Max(s)].t, width), buckets[Max(s)].c)]
    <3>1. \A s \in SUBSET (1..n) : f[s] = h[s]
      BY <2>3
    <3>2. DOMAIN h = SUBSET (1..n) /\ h = [s \in SUBSET (1..n) |-> h[s]]
      OBVIOUS
    <3> HIDE DEF h
    <3>3. f = h
      BY <2>4, <3>1, <3>2
    <3> QED BY <3>3 DEF h, Merges
  <2> QED BY <2>5
<1>5. Merges(g, buckets, width)
  BY <1>4
<1> HIDE DEF g
<1>6. points[0] = <<>>
  <2>1. 1..0 = {} /\ {} \in SUBSET (1..n) /\ 0 \in 0..n
    BY <1>1
  <2>2. g[{}] = <<>>
    BY <1>5, <2>1 DEF Merges
  <2> QED BY <2>1, <2>2
<1>7. ASSUME NEW i \in 1..n
      PROVE  points[i] = AddTo(points[i - 1], Aligned(buckets[i].t, width), buckets[i].c)
  <2>1. /\ 1..i \in SUBSET (1..n) /\ i \in 1..i /\ i \in Nat /\ 1..i # {}
        /\ i \in 0..n /\ i - 1 \in 0..n
    <3>1. n \in Nat
      BY <1>1
    <3> HIDE DEF n
    <3>2. i \in Nat /\ i \in 1..i /\ i \in 0..n /\ i - 1 \in 0..n /\ 1..i \in SUBSET (1..n)
      BY <3>1
    <3> QED BY <3>2
  <2>2. (1..i) \ {i} = 1..(i - 1)
    OBVIOUS
  <2>3. Max(1..i) = i
    BY <2>1, LastPlace
  <2>4. g[1..i] = AddTo(g[(1..i) \ {i}], Aligned(buckets[i].t, width), buckets[i].c)
    BY <1>5, <2>1, <2>3 DEF Merges
  <2>5. points[i] = g[1..i] /\ points[i - 1] = g[1..(i - 1)]
    BY <2>1
  <2> HIDE DEF points
  <2> QED BY <2>2, <2>4, <2>5
<1>8. points[n] = g[1..n]
  <2>1. n \in 0..n
    BY <1>1
  <2> QED BY <2>1
<1> HIDE DEF points
<1>9. \A i \in 0..n : points[i] \in X
  <2> DEFINE S == {i \in 0..n : points[i] \in X}
  <2>1. 0 \in S
    BY <1>1, <1>6
  <2>2. ASSUME NEW m \in 0..(n - 1), m \in S
        PROVE  m + 1 \in S
    <3>1. m + 1 \in 1..n /\ m + 1 \in 0..n /\ (m + 1) - 1 = m
      BY <1>1
    <3>2. points[m] \in X
      BY <2>2
    <3>3. points[m + 1] = AddTo(points[m], Aligned(buckets[m + 1].t, width), buckets[m + 1].c)
      BY <1>7, <3>1
    <3>4. points[m + 1] \in X
      BY <1>2, <3>1, <3>2, <3>3
    <3> QED BY <3>1, <3>4
  <2> HIDE DEF S
  <2>3. \A m \in 0..n : m \in S
    BY <1>1, <2>1, <2>2, EveryNumber
  <2> QED BY <2>3 DEF S
<1>10. points \in [0..n -> X]
  BY <1>9 DEF points
<1> QED BY <1>6, <1>7, <1>8, <1>10 DEF X, g

\* Added to in order of time, the buckets stay sorted, begin where they began, and
\* end at the time added; times that are multiples of k stay so.
LEMMA AddToKeepsOrder ==
  ASSUME NEW s \in Seq(BucketType), NEW t \in Nat, NEW c \in CountersType, NEW k \in Nat \ {0},
         Sorted(s), Len(s) > 0 => s[Len(s)].t <= t,
         t % k = 0, \A i \in 1..Len(s) : s[i].t % k = 0
  PROVE  /\ Sorted(AddTo(s, t, c))
         /\ Len(AddTo(s, t, c)) \in Nat \ {0}
         /\ AddTo(s, t, c)[Len(AddTo(s, t, c))].t = t
         /\ AddTo(s, t, c)[1].t = IF Len(s) > 0 THEN s[1].t ELSE t
         /\ \A i \in 1..Len(AddTo(s, t, c)) : AddTo(s, t, c)[i].t % k = 0
<1> DEFINE l == AddTo(s, t, c)
           n == Len(s)
<1>1. n \in Nat /\ \A i \in 1..n : s[i].t \in Nat
  <2>1. n \in Nat /\ \A i \in 1..n : s[i] \in BucketType
    OBVIOUS
  <2> QED BY <2>1 DEF BucketType
<1>2. CASE InLast(s, t)
  <2>1. /\ n \in 1..n /\ Len(l) = n /\ (\A i \in 1..(n - 1) : l[i] = s[i])
        /\ s[n].t = t /\ l[n] = [t |-> t, c |-> Plus(s[n].c, c)]
    BY <1>2, AddToLast
  <2> HIDE DEF l, n
  <2>2. \A i \in 1..n : l[i].t = s[i].t
    <3>1. ASSUME NEW i \in 1..n
          PROVE  l[i].t = s[i].t
      <4>1. CASE i = n
        BY <2>1, <4>1
      <4>2. CASE i # n
        <5>1. i \in 1..(n - 1)
          BY <1>1, <4>2
        <5> QED BY <2>1, <5>1
      <4> QED BY <4>1, <4>2
    <3> QED BY <3>1
  <2>3. 1 \in 1..n /\ n > 0 /\ n \in Nat \ {0} /\ \A i \in 1..(n - 1) : i \in 1..n /\ i + 1 \in 1..n
    BY <1>1, <2>1
  <2>4. Sorted(l)
    BY <2>1, <2>2, <2>3 DEF Sorted, n
  <2> QED BY <2>1, <2>2, <2>3, <2>4 DEF l, n
<1>3. CASE ~ InLast(s, t)
  <2>1. l = Append(s, [t |-> t, c |-> c])
    BY <1>3 DEF AddTo
  <2>2. n > 0 => s[n].t < t
    <3>1. SUFFICES ASSUME n > 0 PROVE s[n].t < t
      OBVIOUS
    <3>2. s # <<>> /\ n \in 1..n
      BY <1>1, <3>1
    <3>3. s[n].t # t
      BY <1>3, <3>2 DEF InLast, Last
    <3> QED BY <1>1, <3>1, <3>2, <3>3
  <2> HIDE DEF l
  <2>3. /\ Len(l) = n + 1 /\ l[n + 1] = [t |-> t, c |-> c] /\ \A i \in 1..n : l[i] = s[i]
    BY <2>1
  <2> HIDE DEF n
  <2>4. ASSUME NEW i \in 1..n
        PROVE  l[i].t < l[i + 1].t
    <3>1. CASE i = n
      BY <1>1, <2>2, <2>3, <3>1
    <3>2. CASE i # n
      <4>1. i \in 1..(n - 1) /\ i + 1 \in 1..n
        BY <1>1, <3>2
      <4>2. s[i].t < s[i + 1].t
        BY <4>1 DEF Sorted, n
      <4> QED BY <2>3, <4>1, <4>2
    <3> QED BY <3>1, <3>2
  <2>5. Sorted(l)
    <3>1. Len(l) - 1 = n
      BY <1>1, <2>3
    <3> QED BY <2>4, <3>1 DEF Sorted
  <2>6. \A i \in 1..(n + 1) : i \in 1..n \/ i = n + 1
    BY <1>1
  <2>7. \A i \in 1..Len(l) : l[i].t % k = 0
    BY <2>3, <2>6 DEF n
  <2>8. l[1].t = IF n > 0 THEN s[1].t ELSE t
    <3>1. n > 0 => 1 \in 1..n
      BY <1>1
    <3>2. ~ (n > 0) => n + 1 = 1
      BY <1>1
    <3> QED BY <2>3, <3>1, <3>2
  <2> QED BY <1>1, <2>3, <2>5, <2>7, <2>8 DEF l, n
<1> QED BY <1>2, <1>3

\* The points that the first i buckets make.
PointsOK(points, buckets, i, width) ==
  /\ SumOf(points) = SumOf(SubSeq(buckets, 1, i))
  /\ Sorted(points)
  /\ \A k \in 1..Len(points) : points[k].t % width = 0
  /\ i = 0 => Len(points) = 0
  /\ i > 0 => /\ Len(points) > 0
              /\ points[1].t = Aligned(buckets[1].t, width)
              /\ points[Len(points)].t = Aligned(buckets[i].t, width)

\* One bucket more: its counters are added, and the points stay in order.
LEMMA PointsOneMore ==
  ASSUME NEW buckets \in Seq(BucketType), Sorted(buckets), NEW width \in Nat \ {0},
         NEW m \in 0..(Len(buckets) - 1), NEW points \in Seq(BucketType),
         PointsOK(points, buckets, m, width)
  PROVE  PointsOK(AddTo(points, Aligned(buckets[m + 1].t, width), buckets[m + 1].c),
                  buckets, m + 1, width)
<1> DEFINE n == Len(buckets)
           t == Aligned(buckets[m + 1].t, width)
           c == buckets[m + 1].c
           l == AddTo(points, t, c)
<1>1. /\ n \in Nat /\ m \in Nat /\ m + 1 \in 1..n /\ m < n /\ m + 1 > 0 /\ m \in (1 - 1)..n /\ 1 \in 1..(n + 1)
      /\ ~ (m + 1 = 0)
  OBVIOUS
<1>2. \A i \in 1..n : buckets[i].t \in Nat /\ buckets[i].c \in CountersType
  <2>1. \A i \in 1..n : buckets[i] \in BucketType
    OBVIOUS
  <2> QED BY <2>1 DEF BucketType
<1>3. t \in Nat /\ c \in CountersType /\ t % width = 0
  BY <1>1, <1>2, AlignedFacts
<1>4. SumOf(l) = SumOf(SubSeq(buckets, 1, m + 1))
  <2>1. SumAt(Nat, l) = Plus(SumAt(Nat, points), c)
    <3>1. SumAt(Nat, l) = IF t \in Nat THEN Plus(SumAt(Nat, points), c) ELSE SumAt(Nat, points)
      <4> HIDE DEF t, c
      <4> QED BY <1>3, AddToSum
    <3> QED BY <1>3, <3>1
  <2>2. SumAt(Nat, SubSeq(buckets, 1, m + 1)) = Plus(SumAt(Nat, SubSeq(buckets, 1, m)), c)
    <3>1. SumAt(Nat, SubSeq(buckets, 1, m + 1)) =
            IF buckets[m + 1].t \in Nat
            THEN Plus(SumAt(Nat, SubSeq(buckets, 1, m)), buckets[m + 1].c)
            ELSE SumAt(Nat, SubSeq(buckets, 1, m))
      BY <1>1, SumOfPiece
    <3> QED BY <1>1, <1>2, <3>1
  <2>3. SumAt(Nat, points) = SumAt(Nat, SubSeq(buckets, 1, m))
    BY DEF PointsOK, SumOf
  <2> QED BY <2>1, <2>2, <2>3 DEF SumOf
<1>5. Len(points) > 0 => points[Len(points)].t <= t
  <2>1. SUFFICES ASSUME Len(points) > 0 PROVE points[Len(points)].t <= t
    OBVIOUS
  <2>2. m > 0
    BY <1>1, <2>1 DEF PointsOK
  <2>3. points[Len(points)].t = Aligned(buckets[m].t, width)
    BY <2>2 DEF PointsOK
  <2>4. m \in 1..n /\ m \in 1..(n - 1)
    BY <1>1, <2>2
  <2>5. buckets[m].t < buckets[m + 1].t
    BY <2>4 DEF Sorted
  <2>6. buckets[m].t \in Nat /\ buckets[m + 1].t \in Nat /\ buckets[m].t <= buckets[m + 1].t
    BY <1>1, <1>2, <2>4, <2>5
  <2>7. Aligned(buckets[m].t, width) <= Aligned(buckets[m + 1].t, width)
    BY <2>6, AlignedFacts
  <2> QED BY <2>3, <2>7
<1>6. \A i \in 1..Len(points) : points[i].t % width = 0
  BY DEF PointsOK
<1>7. /\ Sorted(l) /\ Len(l) \in Nat \ {0} /\ l[Len(l)].t = t
      /\ l[1].t = IF Len(points) > 0 THEN points[1].t ELSE t
      /\ \A i \in 1..Len(l) : l[i].t % width = 0
  <2>1. Sorted(points)
    BY DEF PointsOK
  <2> HIDE DEF t, c
  <2> QED BY <1>3, <1>5, <1>6, <2>1, AddToKeepsOrder
<1>8. l[1].t = Aligned(buckets[1].t, width)
  <2>1. CASE m = 0
    BY <1>7, <2>1 DEF PointsOK
  <2>2. CASE m # 0
    <3>1. m > 0
      BY <1>1, <2>2
    <3> QED BY <1>7, <3>1 DEF PointsOK
  <2> QED BY <2>1, <2>2
<1>9. Len(l) > 0
  BY <1>7
<1> HIDE DEF l
<1> QED BY <1>1, <1>4, <1>7, <1>8, <1>9 DEF PointsOK, l

\* So the points of a chart are right.
LEMMA PointsOfAll ==
  ASSUME NEW buckets \in Seq(BucketType), Sorted(buckets), NEW width \in Nat \ {0}
  PROVE  \E points \in Seq(BucketType) :
           /\ PointsOK(points, buckets, Len(buckets), width)
           /\ points = (CHOOSE g : Merges(g, buckets, width))[1..Len(buckets)]
<1> DEFINE n == Len(buckets)
<1>1. PICK points \in [0..n -> Seq(BucketType)] :
        /\ points[0] = <<>>
        /\ \A i \in 1..n : points[i] = AddTo(points[i - 1], Aligned(buckets[i].t, width), buckets[i].c)
        /\ points[n] = (CHOOSE g : Merges(g, buckets, width))[1..n]
  BY PointSteps
<1> DEFINE S == {i \in 0..n : PointsOK(points[i], buckets, i, width)}
<1>2. n \in Nat
  OBVIOUS
<1>3. 0 \in S
  <2>1. SubSeq(buckets, 1, 0) = <<>>
    BY SubSeqEmpty
  <2>2. Len(<<>>) = 0 /\ 0 \in 0..n /\ ~ (0 > 0) /\ 1..0 = {} /\ 1..(0 - 1) = {}
    BY <1>2
  <2> QED BY <1>1, <2>1, <2>2 DEF PointsOK, Sorted
<1>4. ASSUME NEW m \in 0..(n - 1), m \in S
      PROVE  m + 1 \in S
  <2>1. m + 1 \in 0..n /\ m + 1 \in 1..n /\ (m + 1) - 1 = m /\ m \in 0..n
    BY <1>2
  <2>2. points[m] \in Seq(BucketType) /\ PointsOK(points[m], buckets, m, width)
    BY <1>1, <1>4, <2>1
  <2>3. PointsOK(AddTo(points[m], Aligned(buckets[m + 1].t, width), buckets[m + 1].c),
                 buckets, m + 1, width)
    BY <2>2, PointsOneMore
  <2>4. points[m + 1] = AddTo(points[m], Aligned(buckets[m + 1].t, width), buckets[m + 1].c)
    BY <1>1, <2>1
  <2> QED BY <2>1, <2>3, <2>4
<1> HIDE DEF S
<1>5. n \in S
  <2>1. n \in 0..n
    BY <1>2
  <2> QED BY <1>2, <1>3, <1>4, <2>1, EveryNumber
<1>6. PointsOK(points[n], buckets, n, width) /\ points[n] \in Seq(BucketType)
  BY <1>1, <1>2, <1>5 DEF S
<1> QED BY <1>1, <1>6

\* Sorted times that are multiples of k spread out by k at each step.
LEMMA SortedSpread ==
  ASSUME NEW s \in Seq(BucketType), NEW k \in Nat \ {0}, Sorted(s), Len(s) > 0,
         \A i \in 1..Len(s) : s[i].t % k = 0
  PROVE  s[1].t + (Len(s) - 1) * k <= s[Len(s)].t
<1> DEFINE n == Len(s)
           S == {m \in 0..(n - 1) : s[1].t + m * k <= s[m + 1].t}
<1>1. n \in Nat /\ n - 1 \in Nat /\ 1 \in 1..n /\ (n - 1) + 1 = n /\ n - 1 \in 0..(n - 1)
  OBVIOUS
<1>2. \A i \in 1..n : s[i].t \in Nat
  <2>1. \A i \in 1..n : s[i] \in BucketType
    OBVIOUS
  <2> QED BY <2>1 DEF BucketType
<1>3. 0 \in S
  <2>1. 0 * k = 0 /\ 0 + 1 = 1 /\ 0 \in 0..(n - 1)
    BY <1>1
  <2>2. s[1].t + 0 * k <= s[0 + 1].t
    BY <1>1, <1>2, <2>1
  <2> QED BY <2>1, <2>2
<1>4. ASSUME NEW m \in 0..((n - 1) - 1), m \in S
      PROVE  m + 1 \in S
  <2>1. /\ m \in Int /\ m + 1 \in 1..(n - 1) /\ m + 1 \in 1..n /\ (m + 1) + 1 \in 1..n
        /\ m + 1 \in 0..(n - 1)
    BY <1>1
  <2>2. s[m + 1].t < s[(m + 1) + 1].t
    BY <2>1 DEF Sorted
  <2> DEFINE x == s[1].t  y == s[m + 1].t  z == s[(m + 1) + 1].t
  <2>3. x \in Nat /\ y \in Nat /\ z \in Nat /\ y % k = 0 /\ z % k = 0
    BY <1>1, <1>2, <2>1
  <2> HIDE DEF x, y, z
  <2>4. y + k <= z
    <3>1. y < z
      BY <2>2 DEF y, z
    <3> QED BY <2>3, <3>1, MultiplesApart
  <2>5. x + m * k <= y
    BY <1>4 DEF x, y
  <2>6. m * k \in Int /\ (m + 1) * k = m * k + k
    BY <2>1, TimesMonotonic
  <2>7. x + (m + 1) * k <= z
    BY <2>3, <2>4, <2>5, <2>6
  <2> QED BY <2>1, <2>7 DEF x, z
<1> HIDE DEF S
<1>5. n - 1 \in S
  BY <1>1, <1>3, <1>4, EveryNumber
<1> QED BY <1>1, <1>5 DEF S

\* Where no bucket is missing, they are as many as their times are apart.
LEMMA ContiguousSpread ==
  ASSUME NEW s \in Seq(BucketType), Contiguous(s), Len(s) > 0, BoardAssumption
  PROVE  s[Len(s)].t = s[1].t + (Len(s) - 1) * BucketSecs
<1> DEFINE n == Len(s)
           k == BucketSecs
           S == {m \in 0..(n - 1) : s[m + 1].t = s[1].t + m * k}
<1>1. /\ n \in Nat /\ n - 1 \in Nat /\ 1 \in 1..n /\ (n - 1) + 1 = n /\ n - 1 \in 0..(n - 1)
      /\ k \in Nat \ {0}
  BY DEF BoardAssumption
<1>2. \A i \in 1..n : s[i].t \in Nat
  <2>1. \A i \in 1..n : s[i] \in BucketType
    OBVIOUS
  <2> QED BY <2>1 DEF BucketType
<1>3. 0 \in S
  <2>1. 0 * k = 0 /\ 0 + 1 = 1 /\ 0 \in 0..(n - 1)
    BY <1>1
  <2>2. s[0 + 1].t = s[1].t + 0 * k
    BY <1>1, <1>2, <2>1
  <2> QED BY <2>1, <2>2
<1>4. ASSUME NEW m \in 0..((n - 1) - 1), m \in S
      PROVE  m + 1 \in S
  <2>1. m \in Int /\ m + 1 \in 1..(n - 1) /\ m + 1 \in 0..(n - 1)
    BY <1>1
  <2>2. s[(m + 1) + 1].t = s[m + 1].t + k
    BY <2>1 DEF Contiguous
  <2>3. s[m + 1].t = s[1].t + m * k /\ s[1].t \in Nat
    BY <1>1, <1>2, <1>4
  <2>4. m * k \in Int /\ (m + 1) * k = m * k + k
    BY <1>1, <2>1, TimesMonotonic
  <2>5. s[(m + 1) + 1].t = s[1].t + (m + 1) * k
    <3> HIDE DEF k
    <3> QED BY <1>1, <2>2, <2>3, <2>4
  <2> QED BY <2>1, <2>5
<1> HIDE DEF S
<1>5. n - 1 \in S
  BY <1>1, <1>3, <1>4, EveryNumber
<1> QED BY <1>1, <1>5 DEF S

\* The points of buckets none of which is missing are at most one over the maximum.
LEMMA FewPoints ==
  ASSUME NEW buckets \in Seq(BucketType), Contiguous(buckets), BoardAssumption,
         Len(buckets) > MAX_SERIES_POINTS, NEW points \in Seq(BucketType),
         PointsOK(points, buckets, Len(buckets), Step(buckets))
  PROVE  Len(points) <= MAX_SERIES_POINTS + 1
<1> DEFINE n == Len(buckets)
           width == Step(buckets)
           w == DivCeil(n, MAX_SERIES_POINTS)
           first == buckets[1].t
           last == buckets[n].t
           len == Len(points)
<1>1. /\ n \in Nat /\ n > 0 /\ n >= 1 /\ 1 \in 1..n /\ n \in 1..n
      /\ MAX_SERIES_POINTS \in Nat \ {0} /\ BucketSecs \in Nat \ {0}
  BY DEF BoardAssumption
<1>2. first \in Nat /\ last \in Nat
  <2>1. buckets[1] \in BucketType /\ buckets[n] \in BucketType
    BY <1>1
  <2> QED BY <2>1 DEF BucketType
<1>3. w \in Nat \ {0} /\ n <= w * MAX_SERIES_POINTS
  BY <1>1, StepIsEnough
<1>4. width = BucketSecs * w
  BY <1>1 DEF Step
<1> HIDE DEF width, w, first, last, n, len
<1>5. width \in Nat \ {0}
  <2>1. \A a, b \in Nat \ {0} : a * b \in Nat \ {0}
    OBVIOUS
  <2> QED BY <1>1, <1>3, <1>4, <2>1
<1>6. n * BucketSecs <= MAX_SERIES_POINTS * width
  <2>1. n * BucketSecs <= (w * MAX_SERIES_POINTS) * BucketSecs
    <3>1. n \in Int /\ w * MAX_SERIES_POINTS \in Int
      BY <1>1, <1>3
    <3> QED BY <1>1, <1>3, <3>1, TimesMonotonic
  <2>2. (w * MAX_SERIES_POINTS) * BucketSecs = MAX_SERIES_POINTS * (BucketSecs * w)
    <3>1. \A x, y, z \in Int : (x * y) * z = y * (z * x)
      OBVIOUS
    <3> QED BY <1>1, <1>3, <3>1
  <2> QED BY <1>4, <2>1, <2>2
<1>7. /\ len > 0 /\ len \in Nat
      /\ points[1].t = Aligned(first, width) /\ points[len].t = Aligned(last, width)
      /\ Sorted(points) /\ \A i \in 1..len : points[i].t % width = 0
  BY <1>1 DEF PointsOK, first, last, n, width, len
<1>8. Aligned(first, width) + (len - 1) * width <= Aligned(last, width)
  <2>1. points[1].t + (Len(points) - 1) * width <= points[Len(points)].t
    BY <1>5, <1>7, SortedSpread DEF len
  <2> QED BY <1>7, <2>1 DEF len
<1>9. last = first + (n - 1) * BucketSecs
  BY <1>1, ContiguousSpread DEF first, last, n
<1>10. /\ Aligned(last, width) \in Nat /\ Aligned(last, width) <= last
       /\ Aligned(first, width) \in Nat /\ first < Aligned(first, width) + width
  BY <1>2, <1>5, AlignedFacts
<1>11. /\ (n - 1) * BucketSecs \in Int /\ n * BucketSecs = (n - 1) * BucketSecs + BucketSecs
       /\ n * BucketSecs \in Int
  <2>1. n - 1 \in Int /\ (n - 1) + 1 = n /\ n \in Int
    BY <1>1
  <2>2. ((n - 1) + 1) * BucketSecs = (n - 1) * BucketSecs + BucketSecs
    BY <1>1, <2>1, TimesMonotonic
  <2> QED BY <1>1, <2>1, <2>2, TimesMonotonic
<1>12. /\ (len - 1) * width \in Int /\ MAX_SERIES_POINTS * width \in Int
       /\ (MAX_SERIES_POINTS + 1) * width = MAX_SERIES_POINTS * width + width
       /\ MAX_SERIES_POINTS + 1 \in Int /\ len - 1 \in Int
  <2>1. MAX_SERIES_POINTS \in Int /\ len - 1 \in Int /\ MAX_SERIES_POINTS + 1 \in Int
    BY <1>1, <1>7
  <2> QED BY <1>5, <2>1, TimesMonotonic
<1>13. (len - 1) * width < MAX_SERIES_POINTS * width + width
  <2>1. (len - 1) * width < (n - 1) * BucketSecs + width
    <3>1. PICK a \in Int, b \in Int, p \in Nat, q \in Nat, k \in Nat :
            /\ a = (len - 1) * width /\ b = (n - 1) * BucketSecs
            /\ p = Aligned(first, width) /\ q = Aligned(last, width) /\ k = width
      BY <1>5, <1>10, <1>11, <1>12
    <3>2. p + a <= q /\ last = first + b /\ q <= last /\ first < p + k
      BY <1>8, <1>9, <1>10, <3>1
    <3>3. a < b + k
      BY <1>2, <3>2
    <3> QED BY <3>1, <3>3
  <2>2. (n - 1) * BucketSecs < MAX_SERIES_POINTS * width
    BY <1>1, <1>6, <1>11, <1>12
  <2>3. PICK a \in Int, b \in Int, d \in Int, k \in Nat :
          /\ a = (len - 1) * width /\ b = (n - 1) * BucketSecs
          /\ d = MAX_SERIES_POINTS * width /\ k = width
    BY <1>5, <1>11, <1>12
  <2>4. a < b + k /\ b < d
    BY <2>1, <2>2, <2>3
  <2>5. a < d + k
    BY <2>4
  <2> QED BY <2>3, <2>5
<1>14. ~ (MAX_SERIES_POINTS + 1 <= len - 1)
  <2>1. MAX_SERIES_POINTS + 1 <= len - 1 =>
          (MAX_SERIES_POINTS + 1) * width <= (len - 1) * width
    BY <1>5, <1>12, TimesMonotonic
  <2> QED BY <1>5, <1>12, <1>13, <2>1
<1>15. len <= MAX_SERIES_POINTS + 1
  BY <1>1, <1>7, <1>14
<1> QED BY <1>15 DEF len

\* A chart is faithful to the buckets it is made of.
LEMMA ChartIsFaithful ==
  ASSUME NEW buckets \in Seq(BucketType), Sorted(buckets), BucketsOK(buckets), BoardAssumption
  PROVE  SeriesIsFaithful(buckets)
<1> DEFINE n == Len(buckets)
<1>1. n \in Nat /\ MAX_SERIES_POINTS \in Nat \ {0} /\ BucketSecs \in Nat \ {0}
  BY DEF BoardAssumption
<1>2. CASE n <= MAX_SERIES_POINTS
  <2>1. SeriesPoints(buckets) = buckets /\ Step(buckets) = BucketSecs
    BY <1>2 DEF SeriesPoints, Step
  <2>2. n <= MAX_SERIES_POINTS + 1 /\ DOMAIN buckets = 1..n
    BY <1>1, <1>2
  <2> QED BY <2>1, <2>2 DEF SeriesIsFaithful, BucketsOK
<1>3. CASE ~ (n <= MAX_SERIES_POINTS)
  <2>1. n > MAX_SERIES_POINTS
    BY <1>1, <1>3
  <2>2. Step(buckets) \in Nat \ {0}
    <3>1. DivCeil(n, MAX_SERIES_POINTS) \in Nat \ {0}
      BY <1>1, <2>1, StepIsEnough
    <3>2. \A a, b \in Nat \ {0} : a * b \in Nat \ {0}
      OBVIOUS
    <3>3. Step(buckets) = BucketSecs * DivCeil(n, MAX_SERIES_POINTS)
      BY <1>3 DEF Step
    <3> QED BY <1>1, <3>1, <3>2, <3>3
  <2>3. PICK points \in Seq(BucketType) :
          /\ PointsOK(points, buckets, n, Step(buckets))
          /\ points = (CHOOSE g : Merges(g, buckets, Step(buckets)))[1..n]
    BY <2>2, PointsOfAll
  <2>4. SeriesPoints(buckets) = points
    <3>1. FoldLeft(LAMBDA merged, b : AddTo(merged, Aligned(b.t, Step(buckets)), b.c), <<>>, buckets)
            = points
      BY <2>3, PointsByScan
    <3> QED BY <1>3, <3>1, Zenon DEF SeriesPoints
  <2>5. SubSeq(buckets, 1, n) = buckets
    BY SubSeqFull
  <2>6. Contiguous(buckets) => Len(points) <= MAX_SERIES_POINTS + 1
    BY <2>1, <2>3, FewPoints
  <2>7. /\ SumOf(points) = SumOf(buckets) /\ Sorted(points)
        /\ \A i \in DOMAIN points : points[i].t % Step(buckets) = 0
    <3>1. DOMAIN points = 1..Len(points)
      OBVIOUS
    <3> QED BY <2>3, <2>5, <3>1 DEF PointsOK
  <2> HIDE DEF n
  <2> QED BY <2>4, <2>6, <2>7, Zenon DEF SeriesIsFaithful
<1> QED BY <1>2, <1>3

--------------------------------------------------------------------------------
(* The dashboard's numbers in every state.                                   *)

SumsOK ==
  /\ Told \in Seq(BucketType)
  /\ board.counters = SumOf(Told)
  /\ SumsMatch(board.buckets, Told)

\* Nothing was counted, and nothing is kept.
LEMMA NothingMatches ==
  ASSUME BoardAssumption
  PROVE  SumOf(<<>>) = ZeroCounters /\ SumsMatch(<<>>, <<>>)
<1>1. SumOf(<<>>) = ZeroCounters
  BY SumAppend DEF SumOf
<1>2. /\ Len(<<>>) = 0 /\ 0..0 = {0} /\ 1..0 = {} /\ SubSeq(<<>>, 0 + 1, 0) = <<>>
      /\ ZeroCounters.total = 0
  BY SubSeqEmpty DEF ZeroCounters
<1>3. SuffixesMatch(<<>>, <<>>)
  BY <1>2 DEF SuffixesMatch
<1>4. BucketsOK(<<>>) /\ TimesMatch(<<>>, <<>>)
  BY <1>2 DEF BucketsOK, TimesMatch
<1> QED BY <1>1, <1>2, <1>3, <1>4 DEF SumsMatch

\* At the start nothing was counted.
LEMMA SumsInit == Init => SumsOK
<1> SUFFICES ASSUME Init PROVE SumsOK
  OBVIOUS
<1>1. board = NewBoard /\ counted = <<>>
  BY DEF Init
<1>2. Told = <<>> /\ <<>> \in Seq(BucketType)
  <2>1. DOMAIN counted = {}
    BY <1>1
  <2> QED BY <2>1 DEF Told
<1> QED BY <1>1, <1>2, NothingMatches, BoardAssumption DEF SumsOK, NewBoard

\* Only a count and a kill change what was counted.
LEMMA SumsStep == RequestsInv /\ BoardOK /\ SumsOK /\ [Next]_vars => SumsOK'
<1> SUFFICES ASSUME RequestsInv, BoardOK, SumsOK, [Next]_vars PROVE SumsOK'
  OBVIOUS
<1>1. ASSUME board' = board, counted' = counted
      PROVE  SumsOK'
  <2>1. Told' = Told
    BY <1>1 DEF Told
  <2> QED BY <1>1, <2>1 DEF SumsOK
<1>2. ASSUME Kill
      PROVE  SumsOK'
  <2>1. board' = NewBoard /\ counted' = <<>>
    BY <1>2 DEF Kill
  <2>2. Told' = <<>> /\ <<>> \in Seq(BucketType)
    <3>1. DOMAIN counted' = {}
      BY <2>1
    <3> QED BY <3>1 DEF Told
  <2>3. board'.buckets = <<>> /\ board'.counters = ZeroCounters
    BY <2>1 DEF NewBoard
  <2> QED BY <2>2, <2>3, NothingMatches, BoardAssumption DEF SumsOK
<1>3. ASSUME NEW r \in Requests, Count(r)
      PROVE  SumsOK'
  <2> DEFINE e == [now |-> stamp[r], number |-> number[r]]
             record == Outcome[number[r]]
             t == Aligned(stamp[r], BucketSecs)
             c == CountersOf(record)
  <2>1. board' = AddEvent(board, stamp[r], record) /\ counted' = Append(counted, e)
    BY <1>3 DEF Count
  <2>2. /\ stamp[r] \in Nat /\ number[r] \in 1..MaxRecords
        /\ e \in [now : Nat, number : Nat] /\ counted \in Seq([now : Nat, number : Nat])
    BY <1>3, RecordsAssumption
       DEF Count, RequestsInv, RequestsTyped, NumbersOK, Pending, CountedOK, BoardOK
  <2>3. record \in RecordType
    BY <2>2, RecordsAssumption DEF RecordType
  <2>4. c \in CountersType /\ c.total > 0
    <3> HIDE DEF record
    <3>1. c \in CountersType /\ c.total = 1
      BY <2>3, OneRecordCounts
    <3> QED BY <3>1
  <2>5. t \in Nat /\ t % BucketSecs = 0
    BY <2>2, AlignedFacts, BoardAssumption
  <2>6. e.now = stamp[r] /\ e.number = number[r]
    OBVIOUS
  <2>7. /\ board'.counters = Plus(board.counters, c)
        /\ board'.buckets = Newest(AddTo(board.buckets, t, c), MAX_BUCKETS)
    BY <2>1 DEF AddEvent
  <2> HIDE DEF e
  <2>8. Told' = Append(Told, [t |-> t, c |-> c]) /\ Told' \in Seq(BucketType)
    <3> DEFINE n == Len(counted)
               of(x) == [t |-> Aligned(x.now, BucketSecs), c |-> CountersOf(Outcome[x.number])]
    <3>1. /\ DOMAIN counted' = 1..(n + 1) /\ DOMAIN counted = 1..n
          /\ \A i \in 1..n : counted'[i] = counted[i]
          /\ counted'[n + 1] = e /\ n \in Nat
      BY <2>1, <2>2
    <3>2. Told' = [i \in 1..(n + 1) |-> of(counted'[i])]
      BY <3>1 DEF Told
    <3>3. /\ Told \in Seq(BucketType) /\ Told = [i \in 1..n |-> of(counted[i])]
      BY <3>1 DEF SumsOK, Told
    <3>4. of(e) = [t |-> t, c |-> c] /\ of(e) \in BucketType
      <4>1. of(e) = [t |-> t, c |-> c]
        BY <2>6
      <4> QED BY <2>4, <2>5, <4>1 DEF BucketType
    <3> HIDE DEF of, n
    <3>5. Len(Told) = n /\ \A i \in 1..n : Told[i] = of(counted[i])
      BY <3>1, <3>3
    <3>6. PICK s \in Seq(BucketType) : s = Append(Told, of(e))
      <4>1. \A x \in Seq(BucketType), y \in BucketType : Append(x, y) \in Seq(BucketType)
        OBVIOUS
      <4>2. Told \in Seq(BucketType) /\ of(e) \in BucketType
        BY <3>3, <3>4
      <4> QED BY <4>1, <4>2, Zenon
    <3>7. /\ Len(s) = n + 1 /\ s[n + 1] = of(e)
          /\ \A i \in 1..n : s[i] = of(counted[i])
      BY <3>1, <3>3, <3>4, <3>5, <3>6
    <3>8. \A i \in 1..(n + 1) : s[i] = of(counted'[i])
      BY <3>1, <3>7
    <3>9. s = [i \in 1..(n + 1) |-> s[i]]
      <4>1. s = [i \in 1..Len(s) |-> s[i]]
        OBVIOUS
      <4> QED BY <3>7, <4>1
    <3>10. s = [i \in 1..(n + 1) |-> of(counted'[i])]
      BY <3>8, <3>9
    <3> QED BY <3>2, <3>4, <3>6, <3>10
  <2> HIDE DEF record, t, c
  <2>9. PICK h \in Seq(BucketType) : h = Append(Told, [t |-> t, c |-> c])
    BY <2>8
  <2>10. board.buckets \in Seq(BucketType) /\ Len(board.buckets) <= MAX_BUCKETS
    BY DEF BoardOK, BoardType
  <2>11. SumsMatch(Newest(AddTo(board.buckets, t, c), MAX_BUCKETS), h)
    <3>1. Told \in Seq(BucketType) /\ SumsMatch(board.buckets, Told)
      BY DEF SumsOK
    <3>2. PICK b \in Seq(BucketType), told \in Seq(BucketType) : b = board.buckets /\ told = Told
      BY <2>10, <3>1
    <3>3. SumsMatch(Newest(AddTo(b, t, c), MAX_BUCKETS), Append(told, [t |-> t, c |-> c]))
      BY <2>4, <2>5, <2>10, <3>1, <3>2, CountMatches, BoardAssumption
    <3> QED BY <2>9, <3>2, <3>3
  <2>12. Plus(board.counters, c) = SumOf(h)
    <3>1. Told \in Seq(BucketType) /\ board.counters = SumOf(Told)
      BY DEF SumsOK
    <3>2. PICK b \in BucketType : b = [t |-> t, c |-> c]
      <4>1. [t |-> t, c |-> c] \in BucketType
        BY <2>4, <2>5 DEF BucketType
      <4> QED BY <4>1
    <3>3. SumAt(Nat, Append(Told, b)) =
            IF b.t \in Nat THEN Plus(SumAt(Nat, Told), b.c) ELSE SumAt(Nat, Told)
      BY <3>1, SumAppend
    <3>4. b.t \in Nat /\ b.c = c
      BY <2>5, <3>2
    <3> QED BY <2>9, <3>1, <3>2, <3>3, <3>4 DEF SumOf
  <2> QED BY <2>7, <2>8, <2>9, <2>11, <2>12 DEF SumsOK
<1>4. ASSUME NEW r \in Requests
      PROVE  /\ (\E route : Arrive(r, route)) \/ Leave(r) \/ Respond(r) \/ NoLogger(r) \/ LogLine(r)
                  => board' = board /\ counted' = counted
             /\ LogFails(r) \/ Rotate(r) \/ ReadClock(r)
                  => board' = board /\ counted' = counted
  BY DEF Arrive, Leave, Respond, NoLogger, LogLine, LogFails, Rotate, ReadClock, historyVars
<1>5. Tick \/ UNCHANGED vars => board' = board /\ counted' = counted
  BY DEF Tick, vars, historyVars
<1> QED BY <1>1, <1>2, <1>3, <1>4, <1>5, Zenon DEF Next

\* The buckets of a range are as those of the board.
LEMMA RangeOfSorted ==
  ASSUME NEW bd \in BoardType, NEW s \in Nat, Sorted(bd.buckets), BucketsOK(bd.buckets)
  PROVE  /\ RangeBuckets(bd, s) \in Seq(BucketType)
         /\ Sorted(RangeBuckets(bd, s)) /\ BucketsOK(RangeBuckets(bd, s))
<1> DEFINE b == bd.buckets
           n == Len(b)
           p == Before(b, s)
           l == SubSeq(b, p + 1, n)
<1>1. b \in Seq(BucketType) /\ n \in Nat
  BY DEF BoardType
<1>2. p \in 0..n
  BY <1>1, BeforeIsFirst
<1> HIDE DEF b, n, p
<1>3. /\ l \in Seq(BucketType) /\ Len(l) = n - p
      /\ \A i \in 1..(n - p) : l[i] = b[p + i] /\ p + i \in 1..n
  <2>1. \A i \in (p + 1)..n : i \in 1..n
    BY <1>1, <1>2
  <2>2. \A i \in (p + 1)..n : b[i] \in BucketType
    BY <1>1, <2>1 DEF n
  <2>3. /\ l \in Seq(BucketType) /\ Len(l) = IF p + 1 <= n THEN n - (p + 1) + 1 ELSE 0
        /\ \A i \in 1..(n - (p + 1) + 1) : l[i] = b[(p + 1) + i - 1]
    <3>1. p + 1 \in Int /\ n \in Int
      BY <1>1, <1>2
    <3> QED BY <2>2, <3>1, SubSeqProperties
  <2>4. /\ n - (p + 1) + 1 = n - p /\ (IF p + 1 <= n THEN n - p ELSE 0) = n - p
        /\ \A i \in 1..(n - p) : (p + 1) + i - 1 = p + i /\ p + i \in 1..n
    BY <1>1, <1>2
  <2> QED BY <2>3, <2>4
<1> HIDE DEF l
<1>4. Sorted(l)
  <2>1. ASSUME NEW i \in 1..((n - p) - 1)
        PROVE  l[i].t < l[i + 1].t
    <3>1. /\ i \in 1..(n - p) /\ i + 1 \in 1..(n - p) /\ p + i \in 1..(n - 1)
          /\ p + (i + 1) = (p + i) + 1
      BY <1>1, <1>2
    <3>2. b[p + i].t < b[(p + i) + 1].t
      BY <3>1 DEF Sorted, b, n
    <3> QED BY <1>3, <3>1, <3>2
  <2> QED BY <1>3, <2>1 DEF Sorted
<1>5. BucketsOK(l)
  <2>1. \A i \in 1..n : b[i].c.total > 0 /\ b[i].t % BucketSecs = 0
    BY DEF BucketsOK, b, n
  <2>2. \A i \in 1..Len(l) : l[i].c.total > 0 /\ l[i].t % BucketSecs = 0
    BY <1>3, <2>1
  <2> QED BY <2>2 DEF BucketsOK
<1> QED BY <1>3, <1>4, <1>5 DEF RangeBuckets, l, b, n, p

\* What the dashboard serves agrees with what it was told.
LEMMA SumsAgree == RequestsInv /\ BoardOK /\ SumsOK => StatsMatchEvents
<1> SUFFICES ASSUME RequestsInv, BoardOK, SumsOK PROVE StatsMatchEvents
  OBVIOUS
<1> DEFINE b == board.buckets
<1>1. /\ Told \in Seq(BucketType) /\ b \in Seq(BucketType) /\ board \in BoardType
      /\ board.counters = SumOf(Told) /\ Len(b) <= MAX_BUCKETS
      /\ MAX_BUCKETS \in Nat /\ Len(b) \in Nat /\ Len(Told) \in Nat
  <2>1. /\ Told \in Seq(BucketType) /\ b \in Seq(BucketType) /\ board \in BoardType
        /\ board.counters = SumOf(Told) /\ Len(b) <= MAX_BUCKETS
        /\ MAX_BUCKETS \in Nat
    BY BoardAssumption DEF BoardOK, BoardType, SumsOK
  <2> QED BY <2>1
<1>2. /\ SuffixesMatch(b, Told) /\ BucketsOK(b) /\ TimesMatch(b, Told)
      /\ Len(b) < MAX_BUCKETS => SumOf(b) = SumOf(Told)
  BY DEF SumsOK, SumsMatch
<1> HIDE DEF b
<1>3. \E n \in 0..Len(Told) :
        /\ SumOf(b) = SumOf(SubSeq(Told, n + 1, Len(Told)))
        /\ n > 0 => Len(b) = MAX_BUCKETS
  <2>1. CASE Len(b) < MAX_BUCKETS
    <3>1. SubSeq(Told, 0 + 1, Len(Told)) = Told
      BY <1>1, SubSeqFull
    <3>2. 0 \in 0..Len(Told) /\ ~ (0 > 0)
      BY <1>1
    <3> QED BY <1>2, <2>1, <3>1, <3>2
  <2>2. CASE ~ (Len(b) < MAX_BUCKETS)
    <3>1. Len(b) = MAX_BUCKETS /\ 0 \in 0..Len(b)
      BY <1>1, <2>2
    <3>2. SubSeq(b, 0 + 1, Len(b)) = b
      BY <1>1, SubSeqFull
    <3>3. PICK n \in 0..Len(Told) :
            SumOf(SubSeq(b, 0 + 1, Len(b))) = SumOf(SubSeq(Told, n + 1, Len(Told)))
      BY <1>2, <3>1 DEF SuffixesMatch
    <3> QED BY <3>1, <3>2, <3>3
  <2> QED BY <2>1, <2>2
<1>4. NothingDropped => \A times \in SUBSET Nat : SumAt(times, b) = SumAt(times, Told)
  BY <1>1, <1>2 DEF NothingDropped, TimesMatch, b
<1>5. NothingDropped =>
        WindowCounters(board, clock) = SumAt({t \in Nat : clock - t < WindowSecs}, Told)
  <2>1. InWindow(clock) = {t \in Nat : clock - t < WindowSecs}
    <3>1. clock \in Nat /\ WindowSecs \in Nat \ {0}
      BY BoardAssumption DEF RequestsInv, CountedOK
    <3> QED BY <3>1 DEF InWindow
  <2>2. InWindow(clock) \in SUBSET Nat
    BY DEF InWindow
  <2> QED BY <1>4, <2>1, <2>2 DEF WindowCounters, b
<1>6. ASSUME Sorted(b), NEW s \in 0..MaxClock
      PROVE  /\ SeriesIsFaithful(RangeBuckets(board, s))
             /\ NothingDropped => RangeCounters(board, s) = SumAt({t \in Nat : t >= s}, Told)
  <2>1. s \in Nat
    BY RecordsAssumption
  <2>2. SeriesIsFaithful(RangeBuckets(board, s))
    <3>1. /\ RangeBuckets(board, s) \in Seq(BucketType)
          /\ Sorted(RangeBuckets(board, s)) /\ BucketsOK(RangeBuckets(board, s))
      BY <1>1, <1>2, <1>6, <2>1, RangeOfSorted DEF b
    <3> QED BY <3>1, ChartIsFaithful, BoardAssumption
  <2>3. NothingDropped => RangeCounters(board, s) = SumAt({t \in Nat : t >= s}, Told)
    <3>1. NothingDropped => RangeCounters(board, s) = SumAt({t \in Nat : t >= s}, b)
      BY <1>1, <1>6, <2>1, RangeMatches DEF b, NothingDropped
    <3>2. {t \in Nat : t >= s} \in SUBSET Nat
      OBVIOUS
    <3> QED BY <1>4, <3>1, <3>2
  <2> QED BY <2>2, <2>3
<1>7. RecentIsNewest
  BY DEF BoardOK
<1> QED BY <1>1, <1>3, <1>5, <1>6, <1>7, Zenon DEF StatsMatchEvents, b

\* The dashboard's numbers are those of the requests it counted: the total, the ring,
\* the buckets that are left, the trailing window, and, where they are sorted, the
\* ranges and their charts.
THEOREM StatsAgree == Spec => []StatsMatchEvents
<1>1. RequestsInv /\ BoardOK /\ SumsOK => StatsMatchEvents
  BY SumsAgree
<1>2. Init => BoardOK /\ SumsOK
  BY BoardInit, SumsInit
<1>3. RequestsInv /\ BoardOK /\ SumsOK /\ [Next]_vars => BoardOK' /\ SumsOK'
  BY BoardStep, SumsStep
<1> QED BY <1>1, <1>2, <1>3, RequestsInvariant, PTL DEF Spec

--------------------------------------------------------------------------------
(* The log: the inductive invariant.                                         *)

Ops == {"unlink", "rename"}
TaskType == [op : Ops, gen : Nat]
HasTask(op, g) == \E i \in DOMAIN todo : todo[i] = Task(op, g)

FilesTyped ==
  /\ IsFiniteSet(DOMAIN files) /\ DOMAIN files \subseteq Nat
  /\ \A g \in DOMAIN files : files[g] \in Seq(Nat)
  /\ size \in Nat
  /\ file => 0 \in DOMAIN files /\ size = Len(files[0])
  /\ rotations \in Nat

\* A rotation removes, then moves, the highest first; it ends with the log
\* itself, which is closed.
TodoOK ==
  /\ todo \in Seq(TaskType)
  /\ holder = Nobody <=> todo = <<>>
  /\ todo # <<>> => ~ file /\ todo[Len(todo)] = Task("rename", 0)
  /\ \A i, j \in DOMAIN todo : i < j =>
       \/ todo[i].op = "unlink" /\ todo[j].op = "rename"
       \/ todo[i].op = todo[j].op /\ todo[i].gen > todo[j].gen

\* A generation is still to be moved, or is out of the way of those that are.
RoomAbove ==
  IF log.directory
  THEN todo # <<>> =>
         \A g \in DOMAIN files :
           HasTask("rename", g) \/ \A h \in Nat : HasTask("rename", h) => g > h + 1
  ELSE DOMAIN files \subseteq {0, 1} /\ \A i \in DOMAIN todo : todo[i] = Task("rename", 0)

\* What is removed is the oldest that is left.
RemovesOldest ==
  "unlink" \notin faults =>
    \A i \in DOMAIN todo : todo[i].op = "unlink" =>
      \A g \in DOMAIN files : g > todo[i].gen => \E j \in 1..i-1 : todo[j] = Task("unlink", g)

\* In an undisturbed rotation the generations up to c are still to be moved: there
\* is a hole above c, or c itself is the one that was removed.
Remaining == {g \in DOMAIN files : ~ HasTask("unlink", g)}

HoleMovesDown ==
  faults = {} /\ log.directory /\ holder # Nobody =>
    \E c \in Nat :
      /\ \A g \in Nat : HasTask("rename", g) <=> g <= c
      /\ \/ c < Kept /\ Remaining = (0..Kept) \ {c + 1}
         \/ c = Kept /\ Kept = log.keep /\ log.keep > 0 /\ Remaining = 0..(Kept - 1)

LogInv ==
  /\ FilesTyped /\ TodoOK
  /\ RoomAbove /\ RemovesOldest /\ HoleMovesDown
  /\ GenerationsAreNewest

--------------------------------------------------------------------------------
(* The tasks of a rotation.                                                  *)

\* The loops visit every generation, the highest first.
LEMMA HighestFirstVisitsAll ==
  ASSUME NEW gens \in SUBSET Nat, IsFiniteSet(gens), NEW order \in HighestFirst(gens)
  PROVE  /\ order \in Seq(gens)
         /\ ToSet(order) = gens
         /\ \A i, j \in 1..Len(order) : i < j => order[i] > order[j]
<1> DEFINE D == 1..Cardinality(gens)
<1>1. Cardinality(gens) \in Nat
  BY FS_CardinalityType
<1>2. /\ order \in [D -> gens]
      /\ \A i, j \in D : i # j => order[i] # order[j]
      /\ \A i, j \in DOMAIN order : i < j => order[i] > order[j]
  BY DEF HighestFirst, SetToSeqs
<1>3. order \in Seq(gens) /\ DOMAIN order = 1..Len(order)
  BY <1>1, <1>2
<1>4. order \in Injection(D, gens)
  BY <1>2, Zenon DEF Injection, IsInjective
<1>5. IsFiniteSet(D) /\ Cardinality(D) = Cardinality(gens)
  BY <1>1, FS_Interval
<1> HIDE DEF D
<1>6. order \in Surjection(D, gens)
  BY <1>4, <1>5, FS_Injection
<1>7. ToSet(order) = gens
  BY <1>2, <1>6, ZenonT(60) DEF Surjection, ToSet
<1> QED BY <1>2, <1>3, <1>7

\* A task is its operation and its generation.
LEMMA TaskFields ==
  ASSUME NEW op, NEW g
  PROVE  /\ Task(op, g).op = op /\ Task(op, g).gen = g
         /\ \A other, h : Task(op, g) = Task(other, h) => op = other /\ g = h
BY DEF Task

\* A rotation's tasks: removals and moves, each the highest first, then the log.
LEMMA RotationsAre ==
  ASSUME NEW gens \in SUBSET (Nat \ {0}), IsFiniteSet(gens), LogFileAssumption, log \in Logs,
         NEW tasks \in Rotations(gens)
  PROVE  /\ tasks \in Seq(TaskType)
         /\ tasks # <<>> /\ tasks[Len(tasks)] = Task("rename", 0)
         /\ \A i, j \in DOMAIN tasks : i < j =>
              \/ tasks[i].op = "unlink" /\ tasks[j].op = "rename"
              \/ tasks[i].op = tasks[j].op /\ tasks[i].gen > tasks[j].gen
         /\ \A g : (\E i \in DOMAIN tasks : tasks[i] = Task("unlink", g)) <=> g \in TooOld(gens)
         /\ \A g : (\E i \in DOMAIN tasks : tasks[i] = Task("rename", g)) <=> g \in gens \union {0}
<1>1. PICK removals \in HighestFirst(TooOld(gens)), shifts \in HighestFirst(gens) :
        tasks = Append(Tasks("unlink", removals) \o Tasks("rename", shifts), Task("rename", 0))
  BY DEF Rotations
<1>2. /\ TooOld(gens) \in SUBSET Nat /\ IsFiniteSet(TooOld(gens)) /\ gens \in SUBSET Nat
  BY FS_Subset DEF TooOld
<1>3. /\ removals \in Seq(Nat) /\ ToSet(removals) = TooOld(gens)
      /\ \A i, j \in 1..Len(removals) : i < j => removals[i] > removals[j]
  BY <1>2, HighestFirstVisitsAll
<1>4. /\ shifts \in Seq(gens) /\ ToSet(shifts) = gens
      /\ \A i, j \in 1..Len(shifts) : i < j => shifts[i] > shifts[j]
  BY <1>2, HighestFirstVisitsAll
<1> DEFINE a == Len(removals)
           b == Len(shifts)
           A == Tasks("unlink", removals)
           B == Tasks("rename", shifts)
<1>5. a \in Nat /\ b \in Nat
  BY <1>3, <1>4
<1>6. /\ A \in Seq(TaskType) /\ Len(A) = a /\ \A i \in 1..a : A[i] = Task("unlink", removals[i])
      /\ B \in Seq(TaskType) /\ Len(B) = b /\ \A i \in 1..b : B[i] = Task("rename", shifts[i])
      /\ Task("rename", 0) \in TaskType
  <2>1. /\ \A i \in 1..a : Task("unlink", removals[i]) \in TaskType
        /\ \A i \in 1..b : Task("rename", shifts[i]) \in TaskType
        /\ Task("rename", 0) \in TaskType
    <3>1. \A i \in 1..a : removals[i] \in Nat
      BY <1>3
    <3>2. \A i \in 1..b : shifts[i] \in gens
      BY <1>4
    <3> QED BY <1>2, <3>1, <3>2 DEF Task, TaskType, Ops
  <2>2. /\ A = [i \in 1..a |-> Task("unlink", removals[i])]
        /\ B = [i \in 1..b |-> Task("rename", shifts[i])]
    BY DEF Tasks
  <2> HIDE DEF A, B, a, b
  <2>3. A \in Seq(TaskType) /\ Len(A) = a /\ \A i \in 1..a : A[i] = Task("unlink", removals[i])
    BY <1>5, <2>1, <2>2
  <2>4. B \in Seq(TaskType) /\ Len(B) = b /\ \A i \in 1..b : B[i] = Task("rename", shifts[i])
    BY <1>5, <2>1, <2>2
  <2> QED BY <2>1, <2>3, <2>4
<1> HIDE DEF a, b, A, B
<1>7. /\ tasks \in Seq(TaskType) /\ Len(tasks) = a + b + 1
      /\ \A i \in 1..a : tasks[i] = A[i]
      /\ \A i \in 1..b : tasks[a + i] = B[i]
      /\ tasks[a + b + 1] = Task("rename", 0)
  <2>1. tasks = Append(A \o B, Task("rename", 0))
    BY <1>1 DEF A, B
  <2>2. /\ A \o B \in Seq(TaskType) /\ Len(A \o B) = a + b
        /\ \A i \in 1..a : (A \o B)[i] = A[i]
        /\ \A i \in 1..b : (A \o B)[a + i] = B[i]
    <3>1. /\ A \o B \in Seq(TaskType) /\ Len(A \o B) = a + b
          /\ \A i \in 1..(a + b) : (A \o B)[i] = IF i <= a THEN A[i] ELSE B[i - a]
      <4>1. A \in Seq(TaskType) /\ B \in Seq(TaskType) /\ Len(A) = a /\ Len(B) = b
        BY <1>6
      <4>2. /\ A \o B \in Seq(TaskType) /\ Len(A \o B) = Len(A) + Len(B)
            /\ \A i \in 1..(Len(A) + Len(B)) :
                 (A \o B)[i] = IF i <= Len(A) THEN A[i] ELSE B[i - Len(A)]
        BY <4>1, ConcatProperties
      <4> QED BY <4>1, <4>2
    <3> QED BY <1>5, <3>1
  <2> DEFINE AB == A \o B
  <2>3. AB \in Seq(TaskType) /\ Len(AB) = a + b
    BY <2>2
  <2> HIDE DEF AB
  <2>4. /\ Append(AB, Task("rename", 0)) \in Seq(TaskType)
        /\ Len(Append(AB, Task("rename", 0))) = a + b + 1
        /\ \A i \in 1..(a + b) : Append(AB, Task("rename", 0))[i] = AB[i]
        /\ Append(AB, Task("rename", 0))[a + b + 1] = Task("rename", 0)
    BY <1>5, <1>6, <2>3
  <2>5. \A i \in 1..a : i \in 1..(a + b)
    BY <1>5
  <2>6. \A i \in 1..b : a + i \in 1..(a + b)
    BY <1>5
  <2> QED BY <2>1, <2>2, <2>4, <2>5, <2>6, Zenon DEF AB
<1>8. /\ DOMAIN tasks = 1..(a + b + 1)
      /\ \A i \in 1..a : tasks[i] = Task("unlink", removals[i])
      /\ \A i \in 1..b : tasks[a + i] = Task("rename", shifts[i])
      /\ tasks[a + b + 1] = Task("rename", 0)
  <2>1. DOMAIN tasks = 1..(a + b + 1)
    BY <1>7
  <2> QED BY <1>6, <1>7, <2>1, Zenon
<1>9. \A i \in DOMAIN tasks :
        \/ (i \in 1..a /\ tasks[i] = Task("unlink", removals[i]))
        \/ (i \in a+1..a+b /\ i - a \in 1..b /\ tasks[i] = Task("rename", shifts[i - a]))
        \/ (i = a + b + 1 /\ tasks[i] = Task("rename", 0))
  <2>1. \A i \in a+1..a+b : i - a \in 1..b /\ a + (i - a) = i
    BY <1>5
  <2>2. \A i \in a+1..a+b : tasks[i] = Task("rename", shifts[i - a])
    BY <1>8, <2>1, Zenon
  <2>3. \A i \in DOMAIN tasks : i \in 1..a \/ i \in a+1..a+b \/ i = a + b + 1
    BY <1>5, <1>8
  <2> QED BY <1>8, <2>1, <2>2, <2>3, Zenon
<1>10. ASSUME NEW i \in DOMAIN tasks, NEW j \in DOMAIN tasks, i < j
       PROVE  \/ tasks[i].op = "unlink" /\ tasks[j].op = "rename"
              \/ tasks[i].op = tasks[j].op /\ tasks[i].gen > tasks[j].gen
  <2>1. CASE i \in 1..a /\ j \in 1..a
    <3>1. tasks[i].op = "unlink" /\ tasks[j].op = "unlink"
      BY <1>8, <2>1, TaskFields
    <3>2. tasks[i].gen = removals[i] /\ tasks[j].gen = removals[j]
      BY <1>8, <2>1, TaskFields
    <3> QED BY <1>3, <1>10, <2>1, <3>1, <3>2 DEF a
  <2>2. CASE i \in 1..a /\ j \notin 1..a
    <3>1. tasks[i].op = "unlink"
      BY <1>8, <2>2, TaskFields
    <3>2. tasks[j].op = "rename"
      BY <1>9, <2>2, TaskFields
    <3> QED BY <3>1, <3>2
  <2>3. CASE i \in a+1..a+b /\ j \in a+1..a+b
    <3>1. /\ i - a \in 1..b /\ j - a \in 1..b /\ i - a < j - a
          /\ tasks[i] = Task("rename", shifts[i - a]) /\ tasks[j] = Task("rename", shifts[j - a])
      BY <1>5, <1>9, <1>10, <2>3
    <3>2. shifts[i - a] > shifts[j - a]
      BY <1>4, <3>1 DEF b
    <3> QED BY <3>1, <3>2 DEF Task
  <2>4. CASE i \in a+1..a+b /\ j = a + b + 1
    <3>1. /\ i - a \in 1..b
          /\ tasks[i] = Task("rename", shifts[i - a]) /\ tasks[j] = Task("rename", 0)
      BY <1>5, <1>8, <1>9, <2>4
    <3>2. shifts[i - a] \in gens
      BY <1>4, <3>1 DEF b
    <3>3. shifts[i - a] > 0
      <4> HIDE DEF a, b
      <4>1. shifts[i - a] \in Nat \ {0}
        BY <3>2
      <4> QED BY <4>1
    <3> QED BY <3>1, <3>3, TaskFields
  <2> QED BY <1>5, <1>8, <1>10, <2>1, <2>2, <2>3, <2>4, SMTT(60)
<1>11. ASSUME NEW g
       PROVE  (\E i \in DOMAIN tasks : tasks[i] = Task("unlink", g)) <=> g \in TooOld(gens)
  <2>1. (\E i \in DOMAIN tasks : tasks[i] = Task("unlink", g)) <=> \E i \in 1..a : removals[i] = g
    BY <1>5, <1>8, <1>9 DEF Task
  <2> QED BY <1>3, <2>1 DEF ToSet, a
<1>12. ASSUME NEW g
       PROVE  (\E i \in DOMAIN tasks : tasks[i] = Task("rename", g)) <=> g \in gens \union {0}
  <2>1. ASSUME NEW i \in DOMAIN tasks, tasks[i] = Task("rename", g)
        PROVE  g = 0 \/ \E j \in 1..b : shifts[j] = g
    BY <1>9, <2>1 DEF Task
  <2>2. ASSUME NEW j \in 1..b, shifts[j] = g
        PROVE  \E i \in DOMAIN tasks : tasks[i] = Task("rename", g)
    <3>1. a + j \in DOMAIN tasks
      BY <1>5, <1>8
    <3> QED BY <1>8, <2>2, <3>1
  <2>3. a + b + 1 \in DOMAIN tasks
    BY <1>5, <1>8
  <2>4. g \in gens <=> \E j \in 1..b : shifts[j] = g
    BY <1>4 DEF ToSet, b
  <2> QED BY <1>8, <2>1, <2>2, <2>3, <2>4
<1>13. tasks # <<>> /\ tasks[Len(tasks)] = Task("rename", 0)
  BY <1>5, <1>7, <1>8
<1> QED BY <1>7, <1>10, <1>11, <1>12, <1>13

\* A task that is done is gone, and only that one.
LEMMA NextTask ==
  ASSUME TodoOK, todo # <<>>, todo' = Tail(todo)
  PROVE  /\ Current \in TaskType /\ Current = todo[1]
         /\ todo' \in Seq(TaskType)
         /\ \A i \in DOMAIN todo' : i + 1 \in DOMAIN todo /\ todo'[i] = todo[i + 1]
         /\ \A i \in DOMAIN todo : i = 1 \/ (i - 1 \in DOMAIN todo' /\ todo'[i - 1] = todo[i])
         /\ \A op, g : HasTask(op, g)' <=> HasTask(op, g) /\ Task(op, g) # Current
         /\ Current # Task("rename", 0) =>
              todo' # <<>> /\ todo'[Len(todo')] = Task("rename", 0)
<1>1. todo \in Seq(TaskType)
  BY DEF TodoOK
<1>2. /\ Current \in TaskType /\ Current = todo[1]
      /\ todo' \in Seq(TaskType) /\ Len(todo') = Len(todo) - 1 /\ Len(todo) \in Nat \ {0}
      /\ DOMAIN todo' = 1..(Len(todo) - 1) /\ DOMAIN todo = 1..Len(todo)
      /\ \A i \in 1..(Len(todo) - 1) : todo'[i] = todo[i + 1]
  BY <1>1 DEF Current
<1>3. \A i \in DOMAIN todo' : i + 1 \in DOMAIN todo /\ todo'[i] = todo[i + 1]
  BY <1>2
<1>4. \A i \in DOMAIN todo : i = 1 \/ (i - 1 \in DOMAIN todo' /\ todo'[i - 1] = todo[i])
  <2>1. \A i \in DOMAIN todo : i = 1 \/ (i - 1 \in DOMAIN todo' /\ (i - 1) + 1 = i)
    BY <1>2
  <2> QED BY <1>2, <2>1, Zenon
<1>5. \A i \in DOMAIN todo : i # 1 => todo[i] # Current
  <2>1. \A i \in DOMAIN todo : i # 1 => 1 \in DOMAIN todo /\ 1 < i
    BY <1>2
  <2>2. \A i \in DOMAIN todo : todo[i] \in TaskType
    BY <1>1
  <2>3. \A i \in DOMAIN todo : todo[i].gen \in Nat
    BY <2>2 DEF TaskType
  <2> QED BY <1>2, <2>1, <2>3 DEF TodoOK
<1>6. ASSUME NEW op, NEW g
      PROVE  HasTask(op, g)' <=> HasTask(op, g) /\ Task(op, g) # Current
  <2>1. ASSUME NEW i \in DOMAIN todo', todo'[i] = Task(op, g)
        PROVE  HasTask(op, g) /\ Task(op, g) # Current
    <3>1. i + 1 \in DOMAIN todo /\ todo[i + 1] = Task(op, g) /\ i + 1 # 1
      BY <1>2, <1>3, <2>1
    <3> QED BY <1>5, <3>1 DEF HasTask
  <2>2. ASSUME NEW i \in DOMAIN todo, todo[i] = Task(op, g), Task(op, g) # Current
        PROVE  \E j \in DOMAIN todo' : todo'[j] = Task(op, g)
    BY <1>2, <1>4, <2>2
  <2>3. HasTask(op, g)' <=> \E i \in DOMAIN todo' : todo'[i] = Task(op, g)
    BY DEF HasTask, Task
  <2> QED BY <2>1, <2>2, <2>3 DEF HasTask
<1>7. ASSUME Current # Task("rename", 0)
      PROVE  todo' # <<>> /\ todo'[Len(todo')] = Task("rename", 0)
  <2>1. todo[Len(todo)] = Task("rename", 0)
    BY DEF TodoOK
  <2>2. Len(todo) # 1
    BY <1>2, <1>7, <2>1
  <2>3. Len(todo) - 1 \in 1..(Len(todo) - 1) /\ (Len(todo) - 1) + 1 = Len(todo) /\ Len(todo') # 0
    BY <1>2, <2>2
  <2>4. todo'[Len(todo')] = todo[(Len(todo) - 1) + 1]
    BY <1>2, <2>3, Zenon
  <2> QED BY <2>1, <2>3, <2>4
<1> QED BY <1>2, <1>3, <1>4, <1>6, <1>7

\* What a log holds once it is open: what it held, or its header.
LEMMA WhenOpen ==
  ASSUME FilesTyped
  PROVE  /\ OnDisk \in Seq(Nat) /\ SizeWhenOpen = Len(OnDisk)
         /\ Opened = IF OnDisk = <<>> THEN <<Header>> ELSE OnDisk
         /\ Opened \in Seq(Nat) /\ OpenedSize = Len(Opened)
<1>1. OnDisk \in Seq(Nat) /\ SizeWhenOpen = Len(OnDisk)
  BY DEF FilesTyped, OnDisk, SizeWhenOpen
<1>2. Len(OnDisk) = 0 <=> OnDisk = <<>>
  BY <1>1
<1>3. Append(<<>>, Header) = <<Header>> /\ <<Header>> \in Seq(Nat) /\ Len(<<Header>>) = 1
  BY DEF Header
<1> QED BY <1>1, <1>2, <1>3 DEF Opened, OpenedSize

\* The log is written: the other generations stay.
LEMMA WithTyped ==
  ASSUME FilesTyped, NEW X \in Seq(Nat), files' = With(files, 0, X)
  PROVE  /\ DOMAIN files' = DOMAIN files \union {0}
         /\ files'[0] = X
         /\ \A g \in DOMAIN files \ {0} : files'[g] = files[g]
         /\ IsFiniteSet(DOMAIN files') /\ DOMAIN files' \subseteq Nat
         /\ \A g \in DOMAIN files' : files'[g] \in Seq(Nat)
<1>1. /\ DOMAIN files' = DOMAIN files \union {0}
      /\ files'[0] = X
      /\ \A g \in DOMAIN files \ {0} : files'[g] = files[g]
  BY DEF With
<1>2. IsFiniteSet(DOMAIN files')
  BY <1>1, FS_AddElement DEF FilesTyped
<1> QED BY <1>1, <1>2 DEF FilesTyped

\* A generation is removed: the others stay.
LEMMA WithoutTyped ==
  ASSUME FilesTyped, NEW c \in Nat, files' = Without(c)
  PROVE  /\ DOMAIN files' = DOMAIN files \ {c}
         /\ \A g \in DOMAIN files \ {c} : files'[g] = files[g]
         /\ IsFiniteSet(DOMAIN files') /\ DOMAIN files' \subseteq Nat
         /\ \A g \in DOMAIN files' : files'[g] \in Seq(Nat)
<1>1. /\ DOMAIN files' = DOMAIN files \ {c}
      /\ \A g \in DOMAIN files \ {c} : files'[g] = files[g]
  BY DEF Without, Restrict
<1>2. IsFiniteSet(DOMAIN files')
  BY <1>1, FS_RemoveElement DEF FilesTyped
<1> QED BY <1>1, <1>2 DEF FilesTyped

\* A move up by one, over whatever was there.
LEMMA RenamedTyped ==
  ASSUME FilesTyped, Current \in TaskType, Current.gen \in DOMAIN files, files' = Renamed
  PROVE  /\ DOMAIN files' = (DOMAIN files \ {Current.gen}) \union {Current.gen + 1}
         /\ files'[Current.gen + 1] = files[Current.gen]
         /\ \A g \in DOMAIN files \ {Current.gen, Current.gen + 1} : files'[g] = files[g]
         /\ IsFiniteSet(DOMAIN files') /\ DOMAIN files' \subseteq Nat
         /\ \A g \in DOMAIN files' : files'[g] \in Seq(Nat)
<1> DEFINE c == Current.gen
<1>1. c \in Nat /\ c + 1 \in Nat /\ c # c + 1
  BY DEF TaskType
<1> HIDE DEF c
<1>2. files' = With(Without(c), c + 1, files[c])
  BY DEF Renamed, c
<1>3. /\ DOMAIN files' = (DOMAIN files \ {c}) \union {c + 1}
      /\ files'[c + 1] = files[c]
      /\ \A g \in DOMAIN files \ {c, c + 1} : files'[g] = files[g]
  BY <1>1, <1>2 DEF With, Without, Restrict
<1>4. IsFiniteSet(DOMAIN files')
  <2>1. IsFiniteSet(DOMAIN files \ {c})
    BY FS_RemoveElement DEF FilesTyped
  <2> QED BY <1>3, <2>1, FS_AddElement
<1> QED BY <1>1, <1>3, <1>4 DEF FilesTyped, c

--------------------------------------------------------------------------------
(* The steps, as the log sees them.                                          *)

SameHistory == written' = written /\ rotations' = rotations /\ faults \subseteq faults'

Quiet == UNCHANGED logVars /\ SameHistory /\ faults' = faults

\* The file is opened, by a failing write or by the next process.
Opens ==
  /\ \E X \in {OnDisk, Opened} : files' = With(files, 0, X) /\ size' = Len(X)
  /\ file' = TRUE /\ holder' = Nobody /\ todo' = <<>> /\ log' = log
  /\ SameHistory
  /\ (holder = Nobody /\ faults' = faults) \/ faults' # {}

Writes(line) ==
  /\ \E r \in Requests :
       AppendLine(r, line) /\ rotations' = rotations + OneIf(holder' = r)
  /\ line \in Nat \ {0} /\ line \notin ToSet(written)
  /\ written' = Append(written, line)
  /\ faults' = faults

Rotates ==
  /\ written' = written /\ rotations' = rotations
  /\ \/ (Unlink \/ Shift \/ Finish) /\ faults' = faults
     \/ CannotUnlink /\ faults' = faults \union {"unlink"}
     \/ CannotRename /\ faults' = faults \union {"rename"}

\* Every step of the requests, and a kill, is one of four to the log.
LEMMA LogSteps ==
  ASSUME RequestsInv, FilesTyped, TodoOK, [Next]_vars
  PROVE  Quiet \/ Opens \/ Rotates \/ \E line \in Nat : Writes(line)
<1> USE DEF RequestsInv
<1>1. ASSUME NEW r \in Requests, LogLine(r)
      PROVE  \E line \in Nat : Writes(line)
  <2>1. number[r] \in Nat \ {0} /\ number[r] \notin ToSet(written)
    BY <1>1 DEF LogLine, NumbersOK, Pending, RequestsTyped, WrittenOK, HasLine
  <2> QED BY <1>1, <2>1 DEF LogLine, Writes
<1>2. ASSUME NEW r \in Requests, LogFails(r)
      PROVE  Quiet \/ Opens
  <2>1. SameHistory /\ faults' = faults
    BY <1>2 DEF LogFails, SameHistory
  <2>2. CASE CannotOpen
    BY <2>1, <2>2 DEF CannotOpen, Quiet
  <2>3. CASE CannotWriteHeader
    <3>1. files' = With(files, 0, OnDisk) /\ size' = Len(OnDisk)
      BY <2>3, WhenOpen DEF CannotWriteHeader
    <3> QED BY <2>1, <2>3, <3>1 DEF CannotWriteHeader, Opens, TodoOK
  <2>4. CASE CannotWriteLine
    <3>1. files' = With(files, 0, Opened) /\ size' = Len(Opened)
      BY <2>4, WhenOpen DEF CannotWriteLine
    <3> QED BY <2>1, <2>4, <3>1 DEF CannotWriteLine, Opens, TodoOK
  <2> QED BY <1>2, <2>2, <2>3, <2>4 DEF LogFails
<1>3. ASSUME NEW r \in Requests, Rotate(r)
      PROVE  Rotates
  BY <1>3 DEF Rotate, Rotates
<1>4. ASSUME Kill
      PROVE  Quiet \/ Opens
  <2>1. CASE "log" \in sinks
    <3>1. files' = With(files, 0, Opened) /\ size' = Len(Opened)
      <4>1. files' = With(files, 0, IF OnDisk = <<>> THEN <<Header>> ELSE OnDisk)
            /\ size' = IF OnDisk = <<>> THEN 1 ELSE Len(OnDisk)
        BY <1>4, <2>1 DEF Kill, Reopened
      <4>2. Len(<<Header>>) = 1
        OBVIOUS
      <4> QED BY <4>1, <4>2, WhenOpen
    <3> QED BY <1>4, <2>1, <3>1 DEF Kill, Reopened, Opens, SameHistory
  <2>2. CASE "log" \notin sinks
    BY <1>4, <2>2 DEF Kill, HolderOK, Quiet, SameHistory
  <2> QED BY <2>1, <2>2
<1>5. ASSUME NEW r \in Requests
      PROVE  /\ (\E route : Arrive(r, route)) \/ Leave(r) \/ Respond(r) => Quiet
             /\ NoLogger(r) \/ ReadClock(r) \/ Count(r) => Quiet
  BY DEF Arrive, Leave, Respond, NoLogger, ReadClock, Count, Quiet, SameHistory, historyVars
<1>6. Tick \/ UNCHANGED vars => Quiet
  BY DEF Tick, vars, Quiet, SameHistory, historyVars
<1> QED BY <1>1, <1>2, <1>3, <1>4, <1>5, <1>6, Zenon DEF Next

\* A task of the rotation, by what it does to the files.
LEMMA RotationSteps ==
  ASSUME FilesTyped, TodoOK, Rotates
  PROVE  /\ todo # <<>> /\ holder # Nobody /\ ~ file /\ ~ file' /\ log' = log
         /\ size' \in {size, 0} /\ SameHistory
         /\ Current \in TaskType /\ Current = todo[1]
         /\ \/ todo' = Tail(todo) /\ holder' = holder /\ Current # Task("rename", 0)
            \/ todo' = <<>> /\ holder' = Nobody /\ Current.op = "rename"
<1>1. todo # <<>> /\ SameHistory /\ log' = log /\ file' = file /\ size' \in {size, 0}
  BY DEF Rotates, Unlink, CannotUnlink, Shift, Finish, CannotRename, Doing, Goes, Returns, SameHistory
<1>2. holder # Nobody /\ ~ file /\ ~ file'
  BY <1>1 DEF TodoOK
<1>3. Current \in TaskType /\ Current = todo[1]
  BY <1>1 DEF TodoOK, Current
<1>4. \/ todo' = Tail(todo) /\ holder' = holder /\ Current # Task("rename", 0)
      \/ todo' = <<>> /\ holder' = Nobody /\ Current.op = "rename"
  BY TaskFields DEF Rotates, Unlink, CannotUnlink, Shift, Finish, CannotRename, Doing, Goes, Returns
<1> QED BY <1>1, <1>2, <1>3, <1>4

--------------------------------------------------------------------------------
(* The log's variables and the tasks: what each step preserves.              *)

\* A listing sees generations, never the log itself.
LEMMA GenerationsListed ==
  ASSUME FilesTyped
  PROVE  Generations \in SUBSET (Nat \ {0}) /\ IsFiniteSet(Generations)
<1>1. IsFiniteSet(DOMAIN files \ {0}) /\ IsFiniteSet({})
  BY FS_RemoveElement, FS_EmptySet DEF FilesTyped
<1> QED BY <1>1 DEF FilesTyped, Generations

\* A line that is written is appended, and either the file stays open or it has
\* outgrown its limit and a rotation begins.
LEMMA WritesAre ==
  ASSUME FilesTyped, RequestsTyped, NEW line \in Nat, Writes(line)
  PROVE  /\ holder = Nobody /\ log' = log /\ rotations' \in {rotations, rotations + 1}
         /\ files' = With(files, 0, Append(Opened, line)) /\ size' = OpenedSize + 1
         /\ Append(Opened, line) \in Seq(Nat) /\ Len(Append(Opened, line)) = OpenedSize + 1
         /\ \/ /\ file' = TRUE /\ holder' = Nobody /\ todo' = todo /\ rotations' = rotations
            \/ /\ file' = FALSE /\ holder' # Nobody /\ rotations' = rotations + 1
               /\ todo' \in Rotations(Generations) /\ todo' \in Seq(TaskType) /\ todo' # <<>>
<1>1. PICK r \in Requests :
        AppendLine(r, line) /\ rotations' = rotations + OneIf(holder' = r)
  BY DEF Writes
<1>2. /\ holder = Nobody /\ log' = log
      /\ files' = With(files, 0, Append(Opened, line)) /\ size' = OpenedSize + 1
      /\ \/ holder' = r /\ file' = FALSE /\ todo' \in Rotations(Generations)
         \/ holder' = Nobody /\ file' = TRUE /\ todo' = todo
  BY <1>1 DEF AppendLine
<1>3. Append(Opened, line) \in Seq(Nat) /\ Len(Append(Opened, line)) = OpenedSize + 1
  BY WhenOpen
<1>4. r # Nobody /\ rotations \in Nat
  BY RecordsAssumption DEF FilesTyped
<1>5. rotations' \in {rotations, rotations + 1}
      /\ (holder' = r => rotations' = rotations + 1)
      /\ (holder' # r => rotations' = rotations)
  BY <1>1, <1>4 DEF OneIf
<1>6. todo' \in Rotations(Generations) => todo' \in Seq(TaskType) /\ todo' # <<>>
  BY RotationsAre, GenerationsListed, LogFileAssumption DEF RequestsTyped
<1> QED BY <1>2, <1>3, <1>4, <1>5, <1>6

\* Files stay sequences of lines, and the tracked size right while the log is open.
LEMMA FilesStep ==
  ASSUME RequestsInv, FilesTyped, TodoOK, [Next]_vars
  PROVE  FilesTyped'
<1>1. ASSUME Quiet PROVE FilesTyped'
  BY <1>1 DEF Quiet, logVars, SameHistory, FilesTyped
<1>2. ASSUME Opens PROVE FilesTyped'
  <2>1. PICK X \in {OnDisk, Opened} : files' = With(files, 0, X) /\ size' = Len(X)
    BY <1>2 DEF Opens
  <2>2. X \in Seq(Nat)
    BY WhenOpen
  <2>3. /\ IsFiniteSet(DOMAIN files') /\ DOMAIN files' \subseteq Nat
        /\ \A g \in DOMAIN files' : files'[g] \in Seq(Nat)
        /\ 0 \in DOMAIN files' /\ files'[0] = X
    BY <2>1, <2>2, WithTyped
  <2> QED BY <1>2, <2>1, <2>2, <2>3 DEF Opens, SameHistory, FilesTyped
<1>3. ASSUME NEW line \in Nat, Writes(line) PROVE FilesTyped'
  <2>1. /\ Append(Opened, line) \in Seq(Nat)
        /\ files' = With(files, 0, Append(Opened, line))
        /\ size' = Len(Append(Opened, line))
        /\ rotations' \in {rotations, rotations + 1}
    BY <1>3, WritesAre DEF RequestsInv
  <2>2. /\ IsFiniteSet(DOMAIN files') /\ DOMAIN files' \subseteq Nat
        /\ \A g \in DOMAIN files' : files'[g] \in Seq(Nat)
        /\ 0 \in DOMAIN files' /\ files'[0] = Append(Opened, line)
    BY <2>1, WithTyped
  <2>3. size' \in Nat /\ rotations' \in Nat
    BY <2>1 DEF FilesTyped
  <2> QED BY <2>1, <2>2, <2>3 DEF FilesTyped
<1>4. ASSUME Rotates PROVE FilesTyped'
  <2>1. ~ file' /\ size' \in Nat /\ rotations' \in Nat /\ Current \in TaskType
    BY <1>4, RotationSteps DEF SameHistory, FilesTyped
  <2>2. \/ files' = files \/ files' = Without(Current.gen) \/ files' = Renamed
    BY <1>4 DEF Rotates, Unlink, CannotUnlink, Shift, Finish, CannotRename
  <2>3. /\ IsFiniteSet(DOMAIN files') /\ DOMAIN files' \subseteq Nat
        /\ \A g \in DOMAIN files' : files'[g] \in Seq(Nat)
    <3>1. CASE files' = files
      BY <3>1 DEF FilesTyped
    <3>2. CASE files' = Without(Current.gen)
      BY <2>1, <3>2, WithoutTyped DEF TaskType
    <3>3. CASE files' = Renamed
      <4>1. CASE Current.gen \in DOMAIN files
        BY <2>1, <3>3, <4>1, RenamedTyped
      <4>2. CASE Current.gen \notin DOMAIN files
        BY <3>3, <4>2 DEF Renamed, FilesTyped
      <4> QED BY <4>1, <4>2
    <3> QED BY <2>2, <3>1, <3>2, <3>3
  <2> QED BY <2>1, <2>3 DEF FilesTyped
<1> QED BY <1>1, <1>2, <1>3, <1>4, LogSteps

\* A rotation keeps its order, and its last task is the log's own.
LEMMA TodoStep ==
  ASSUME RequestsInv, FilesTyped, TodoOK, [Next]_vars
  PROVE  TodoOK'
<1>1. ASSUME Quiet PROVE TodoOK'
  BY <1>1 DEF Quiet, logVars, TodoOK, Task
<1>2. ASSUME Opens PROVE TodoOK'
  BY <1>2 DEF Opens, TodoOK
<1>3. ASSUME NEW line \in Nat, Writes(line) PROVE TodoOK'
  <2>1. CASE todo' = todo /\ holder' = Nobody
    BY <1>3, <2>1, WritesAre DEF RequestsInv, TodoOK, Task
  <2>2. CASE todo' \in Rotations(Generations) /\ file' = FALSE /\ holder' # Nobody
    <3>1. /\ todo' \in Seq(TaskType)
          /\ todo' # <<>> /\ todo'[Len(todo')] = Task("rename", 0)
          /\ \A i, j \in DOMAIN todo' : i < j =>
               \/ todo'[i].op = "unlink" /\ todo'[j].op = "rename"
               \/ todo'[i].op = todo'[j].op /\ todo'[i].gen > todo'[j].gen
      BY <2>2, RotationsAre, GenerationsListed, LogFileAssumption DEF RequestsInv, RequestsTyped
    <3> QED BY <2>2, <3>1 DEF TodoOK, Task
  <2> QED BY <1>3, <2>1, <2>2, WritesAre DEF RequestsInv
<1>4. ASSUME Rotates PROVE TodoOK'
  <2>1. /\ todo # <<>> /\ holder # Nobody /\ ~ file'
        /\ \/ todo' = Tail(todo) /\ holder' = holder /\ Current # Task("rename", 0)
           \/ todo' = <<>> /\ holder' = Nobody
    BY <1>4, RotationSteps
  <2>2. CASE todo' = <<>> /\ holder' = Nobody
    BY <2>2 DEF TodoOK
  <2>3. CASE todo' = Tail(todo) /\ holder' = holder /\ Current # Task("rename", 0)
    <3>1. /\ todo' \in Seq(TaskType)
          /\ todo' # <<>> /\ todo'[Len(todo')] = Task("rename", 0)
          /\ \A i \in DOMAIN todo' : i + 1 \in DOMAIN todo /\ todo'[i] = todo[i + 1]
      BY <2>1, <2>3, NextTask
    <3>2. ASSUME NEW i \in DOMAIN todo', NEW j \in DOMAIN todo', i < j
          PROVE  \/ todo'[i].op = "unlink" /\ todo'[j].op = "rename"
                 \/ todo'[i].op = todo'[j].op /\ todo'[i].gen > todo'[j].gen
      <4>1. i + 1 \in DOMAIN todo /\ j + 1 \in DOMAIN todo /\ i + 1 < j + 1
        BY <3>1, <3>2
      <4>2. \/ todo[i + 1].op = "unlink" /\ todo[j + 1].op = "rename"
            \/ todo[i + 1].op = todo[j + 1].op /\ todo[i + 1].gen > todo[j + 1].gen
        BY <4>1, Zenon DEF TodoOK
      <4> QED BY <3>1, <4>2
    <3> QED BY <2>1, <2>3, <3>1, <3>2 DEF TodoOK, Task
  <2> QED BY <2>1, <2>2, <2>3
<1> QED BY <1>1, <1>2, <1>3, <1>4, LogSteps

--------------------------------------------------------------------------------
(* A rotation moves each file into a free place.                             *)

\* The task at hand is the highest of its kind, and the removals are first.
LEMMA TaskAtHand ==
  ASSUME TodoOK, todo # <<>>
  PROVE  /\ Current \in TaskType /\ Current = Task(Current.op, Current.gen)
         /\ HasTask(Current.op, Current.gen)
         /\ \A h : HasTask(Current.op, h) => h = Current.gen \/ Current.gen > h
         /\ Current.op = "rename" => \A h : ~ HasTask("unlink", h)
<1>1. /\ todo \in Seq(TaskType) /\ 1 \in DOMAIN todo /\ Current = todo[1] /\ Current \in TaskType
      /\ \A i \in DOMAIN todo : i # 1 => 1 < i
  BY DEF TodoOK, Current
<1>2. Current = Task(Current.op, Current.gen)
  BY <1>1 DEF TaskType, Task
<1>3. ASSUME NEW h, HasTask(Current.op, h)
      PROVE  h = Current.gen \/ Current.gen > h
  <2>1. PICK i \in DOMAIN todo : todo[i] = Task(Current.op, h)
    BY <1>3 DEF HasTask
  <2>2. todo[i].op = Current.op /\ todo[i].gen = h
    BY <2>1, TaskFields
  <2>3. CASE i = 1
    BY <1>1, <2>2, <2>3
  <2>4. CASE i # 1
    <3>1. \/ todo[1].op = "unlink" /\ todo[i].op = "rename"
          \/ todo[1].op = todo[i].op /\ todo[1].gen > todo[i].gen
      BY <1>1, <2>4 DEF TodoOK
    <3> QED BY <1>1, <2>2, <3>1
  <2> QED BY <2>3, <2>4
<1>4. ASSUME Current.op = "rename", NEW h, HasTask("unlink", h)
      PROVE  FALSE
  <2>1. PICK i \in DOMAIN todo : todo[i] = Task("unlink", h)
    BY <1>4 DEF HasTask
  <2>2. todo[i].op = "unlink" /\ i # 1
    BY <1>1, <1>4, <2>1, TaskFields
  <2> QED BY <1>1, <1>4, <2>2 DEF TodoOK
<1> QED BY <1>1, <1>2, <1>3, <1>4 DEF HasTask

\* The generation to be moved has nothing above it.
LEMMA PlaceIsFree ==
  ASSUME TodoOK, RoomAbove, todo # <<>>, Current.op = "rename", log.directory
  PROVE  Current.gen + 1 \notin DOMAIN files
<1>1. Current.gen \in Nat /\ HasTask("rename", Current.gen)
  BY TaskAtHand DEF TaskType
<1>2. ~ HasTask("rename", Current.gen + 1)
  BY <1>1, TaskAtHand
<1> QED BY <1>1, <1>2 DEF RoomAbove

\* A bare path's rotation is the move of the log alone.
LEMMA BareRotation ==
  ASSUME TodoOK, RoomAbove, todo # <<>>, ~ log.directory
  PROVE  Current = Task("rename", 0) /\ Current.op = "rename" /\ Current.gen = 0
BY TaskFields DEF TodoOK, RoomAbove, Current

\* What a rotation has moved stays above what it has yet to move.
LEMMA RoomStep ==
  ASSUME RequestsInv, FilesTyped, TodoOK, RoomAbove, [Next]_vars
  PROVE  RoomAbove'
<1>1. ASSUME Quiet PROVE RoomAbove'
  BY <1>1 DEF Quiet, logVars, RoomAbove, HasTask, Task
<1>2. ASSUME Opens PROVE RoomAbove'
  <2>1. PICK X \in {OnDisk, Opened} : files' = With(files, 0, X)
    BY <1>2 DEF Opens
  <2>2. DOMAIN files' = DOMAIN files \union {0} /\ log' = log /\ todo' = <<>>
    BY <1>2, <2>1 DEF Opens, With
  <2> QED BY <2>2 DEF RoomAbove
<1>3. ASSUME NEW line \in Nat, Writes(line) PROVE RoomAbove'
  <2>1. DOMAIN files' = DOMAIN files \union {0} /\ log' = log /\ todo = <<>>
    BY <1>3, WritesAre DEF RequestsInv, With, TodoOK
  <2>2. CASE todo' = todo
    BY <2>1, <2>2 DEF RoomAbove
  <2>3. CASE todo' \in Rotations(Generations)
    <3>1. /\ \A g : (\E i \in DOMAIN todo' : todo'[i] = Task("unlink", g)) <=> g \in TooOld(Generations)
          /\ \A g : (\E i \in DOMAIN todo' : todo'[i] = Task("rename", g)) <=> g \in Generations \union {0}
          /\ todo' \in Seq(TaskType)
      BY <2>3, RotationsAre, GenerationsListed, LogFileAssumption DEF RequestsInv, RequestsTyped
    <3>2. CASE log.directory
      <4>1. \A g \in DOMAIN files' : \E i \in DOMAIN todo' : todo'[i] = Task("rename", g)
        BY <2>1, <3>1, <3>2 DEF Generations
      <4> QED BY <2>1, <3>2, <4>1 DEF RoomAbove, HasTask, Task
    <3>3. CASE ~ log.directory
      <4>1. Generations = {} /\ TooOld(Generations) = {}
        BY <3>3 DEF Generations, TooOld
      <4>2. ASSUME NEW i \in DOMAIN todo'
            PROVE  todo'[i] = Task("rename", 0)
        <5>1. todo'[i] \in TaskType
          BY <3>1
        <5>2. PICK op \in Ops, g \in Nat : todo'[i] = Task(op, g)
          BY <5>1 DEF TaskType, Task
        <5>3. op = "rename" /\ g = 0
          BY <3>1, <4>1, <5>2 DEF Ops
        <5> QED BY <5>2, <5>3
      <4> QED BY <2>1, <3>3, <4>2 DEF RoomAbove, Task
    <3> QED BY <3>2, <3>3
  <2> QED BY <1>3, <2>2, <2>3, WritesAre DEF RequestsInv
<1>4. ASSUME Rotates PROVE RoomAbove'
  <2>1. /\ todo # <<>> /\ log' = log /\ Current \in TaskType
        /\ \/ todo' = Tail(todo) /\ Current # Task("rename", 0)
           \/ todo' = <<>>
    BY <1>4, RotationSteps
  <2>2. CASE ~ log.directory
    <3>1. Current = Task("rename", 0) /\ Current.op = "rename" /\ Current.gen = 0
      BY <2>1, <2>2, BareRotation
    <3>2. todo' = <<>> /\ (files' = files \/ files' = Renamed)
      BY <1>4, <2>1, <3>1 DEF Rotates, Unlink, CannotUnlink, Shift, Finish, CannotRename, Doing
    <3>3. DOMAIN files' \subseteq {0, 1}
      BY <2>2, <3>1, <3>2 DEF Renamed, With, Without, Restrict, RoomAbove
    <3> QED BY <2>1, <2>2, <3>2, <3>3 DEF RoomAbove
  <2>3. CASE log.directory /\ todo' = <<>>
    BY <2>1, <2>3 DEF RoomAbove
  <2>4. CASE log.directory /\ todo' = Tail(todo) /\ Current # Task("rename", 0)
    <3>1. \A op, g : HasTask(op, g)' <=> HasTask(op, g) /\ Task(op, g) # Current
      BY <2>1, <2>4, NextTask
    <3>2. CASE Current.op = "unlink"
      <4>1. files' = files \/ files' = Without(Current.gen)
        BY <1>4, <3>2 DEF Rotates, Unlink, CannotUnlink, Shift, Finish, CannotRename, Doing
      <4>2. DOMAIN files' \subseteq DOMAIN files
        BY <4>1 DEF Without, Restrict
      <4>3. \A g : Task("rename", g) # Current
        BY <3>2, TaskFields
      <4> QED BY <2>1, <2>4, <3>1, <4>2, <4>3 DEF RoomAbove
    <3>3. CASE Current.op = "rename"
      <4>1. \/ files' = Renamed
            \/ files' = files /\ todo' = <<>>
        BY <1>4, <3>3 DEF Rotates, Unlink, CannotUnlink, Shift, Finish, CannotRename, Doing, Returns
      <4>2. files' = Renamed
        <5>1. todo' # <<>>
          BY <2>1, <2>4, NextTask
        <5> QED BY <4>1, <5>1
      <4>3. ASSUME NEW g \in DOMAIN files', NEW h \in Nat, ~ HasTask("rename", g)', HasTask("rename", h)'
            PROVE  g > h + 1
        <5>1. HasTask("rename", h) /\ Current.gen > h /\ Current.gen \in Nat
          <6>1. HasTask("rename", h) /\ Task("rename", h) # Current
            BY <3>1, <4>3
          <6> QED BY <2>1, <3>3, <6>1, TaskAtHand DEF TaskType
        <5>2. CASE g = Current.gen + 1
          BY <5>1, <5>2
        <5>3. CASE g # Current.gen + 1
          <6>1. g \in DOMAIN files /\ g # Current.gen
            BY <4>2, <4>3, <5>3 DEF Renamed, With, Without, Restrict
          <6>2. ~ HasTask("rename", g)
            BY <3>1, <4>3, <6>1, TaskFields
          <6> QED BY <2>1, <2>4, <5>1, <6>1, <6>2 DEF RoomAbove
        <5> QED BY <5>2, <5>3
      <4> QED BY <2>1, <2>4, <4>3 DEF RoomAbove
    <3> QED BY <2>1, <3>2, <3>3 DEF TaskType, Ops
  <2> QED BY <2>1, <2>2, <2>3, <2>4
<1> QED BY <1>1, <1>2, <1>3, <1>4, LogSteps

\* The removals left stay those of the highest generations left.
LEMMA RemovesStep ==
  ASSUME RequestsInv, FilesTyped, TodoOK, RemovesOldest, [Next]_vars
  PROVE  RemovesOldest'
<1>1. ASSUME Quiet PROVE RemovesOldest'
  <2>1. todo' = todo /\ files' = files /\ faults' = faults
    BY <1>1 DEF Quiet, logVars
  <2> QED BY <2>1 DEF RemovesOldest
<1>2. ASSUME Opens PROVE RemovesOldest'
  BY <1>2 DEF Opens, RemovesOldest
<1>3. ASSUME NEW line \in Nat, Writes(line) PROVE RemovesOldest'
  <2>1. DOMAIN files' = DOMAIN files \union {0} /\ log' = log /\ todo = <<>>
    BY <1>3, WritesAre DEF RequestsInv, With, TodoOK
  <2>2. CASE todo' = todo
    BY <2>1, <2>2 DEF RemovesOldest
  <2>3. CASE todo' \in Rotations(Generations)
    <3>1. /\ \A g : (\E i \in DOMAIN todo' : todo'[i] = Task("unlink", g)) <=> g \in TooOld(Generations)
          /\ \A i, j \in DOMAIN todo' : i < j =>
               \/ todo'[i].op = "unlink" /\ todo'[j].op = "rename"
               \/ todo'[i].op = todo'[j].op /\ todo'[i].gen > todo'[j].gen
          /\ todo' \in Seq(TaskType)
      BY <2>3, RotationsAre, GenerationsListed, LogFileAssumption DEF RequestsInv, RequestsTyped
    <3>2. ASSUME NEW i \in DOMAIN todo', todo'[i].op = "unlink",
                 NEW g \in DOMAIN files', g > todo'[i].gen
          PROVE  \E j \in 1..i-1 : todo'[j] = Task("unlink", g)
      <4>1. todo'[i] \in TaskType
        BY <3>1
      <4>2. todo'[i] = Task("unlink", todo'[i].gen) /\ todo'[i].gen \in Nat
        BY <3>2, <4>1 DEF TaskType, Task
      <4>3. todo'[i].gen \in TooOld(Generations)
        BY <3>1, <4>2
      <4>4. g \in Nat
        BY <2>1 DEF FilesTyped
      <4>5. log.keep \in Nat
        BY LogFileAssumption DEF RequestsInv, RequestsTyped
      <4>6. log.directory /\ g \in TooOld(Generations)
        BY <2>1, <3>2, <4>2, <4>3, <4>4, <4>5 DEF TooOld, Generations
      <4>7. PICK j \in DOMAIN todo' : todo'[j] = Task("unlink", g)
        BY <3>1, <4>6
      <4>8. todo'[j].op = "unlink" /\ todo'[j].gen = g
        BY <4>7, TaskFields
      <4>9. ~ (i < j) /\ i # j
        BY <3>1, <3>2, <4>2, <4>4, <4>8
      <4> QED BY <3>1, <4>7, <4>9
    <3> QED BY <3>2 DEF RemovesOldest, Task
  <2> QED BY <1>3, <2>2, <2>3, WritesAre DEF RequestsInv
<1>4. ASSUME Rotates PROVE RemovesOldest'
  <2>1. todo # <<>> /\ Current \in TaskType /\ faults \subseteq faults'
    BY <1>4, RotationSteps DEF SameHistory
  <2>2. CASE todo' = <<>>
    BY <2>2 DEF RemovesOldest
  <2>3. CASE todo' = Tail(todo)
    <3>1. /\ \A i \in DOMAIN todo' : i + 1 \in DOMAIN todo /\ todo'[i] = todo[i + 1]
          /\ \A i \in DOMAIN todo : i = 1 \/ (i - 1 \in DOMAIN todo' /\ todo'[i - 1] = todo[i])
          /\ todo' \in Seq(TaskType) /\ todo \in Seq(TaskType) /\ Current = todo[1]
      BY <2>1, <2>3, NextTask DEF TodoOK
    <3>2. CASE Current.op = "rename"
      <4>1. ASSUME NEW i \in DOMAIN todo', todo'[i].op = "unlink" PROVE FALSE
        <5>1. i + 1 \in DOMAIN todo /\ todo[i + 1].op = "unlink" /\ todo[i + 1] \in TaskType
          BY <3>1, <4>1
        <5>2. todo[i + 1] = Task("unlink", todo[i + 1].gen)
          BY <5>1 DEF TaskType, Task
        <5> QED BY <2>1, <3>2, <5>1, <5>2, TaskAtHand DEF HasTask
      <4> QED BY <4>1 DEF RemovesOldest
    <3>3. CASE Current.op = "unlink" /\ "unlink" \notin faults'
      <4>1. files' = Without(Current.gen)
        BY <1>4, <3>3 DEF Rotates, Unlink, CannotUnlink, Shift, Finish, CannotRename, Doing
      <4>2. DOMAIN files' = DOMAIN files \ {Current.gen}
        BY <4>1 DEF Without, Restrict
      <4>3. ASSUME NEW i \in DOMAIN todo', todo'[i].op = "unlink",
                   NEW g \in DOMAIN files', g > todo'[i].gen
            PROVE  \E j \in 1..i-1 : todo'[j] = Task("unlink", g)
        <5>1. i + 1 \in DOMAIN todo /\ todo'[i] = todo[i + 1] /\ i \in Nat /\ (i + 1) - 1 = i
          BY <3>1
        <5>2. PICK j \in 1..(i + 1) - 1 : todo[j] = Task("unlink", g)
          BY <2>1, <3>3, <4>2, <4>3, <5>1 DEF RemovesOldest
        <5>3. j # 1
          BY <3>1, <4>2, <5>2, TaskFields
        <5>4. j \in DOMAIN todo /\ j - 1 \in 1..i-1
          BY <3>1, <5>1, <5>2, <5>3, SMTT(60)
        <5> QED BY <3>1, <5>2, <5>3, <5>4
      <4> QED BY <4>3 DEF RemovesOldest, Task
    <3> QED BY <2>1, <3>2, <3>3 DEF RemovesOldest, TaskType, Ops
  <2> QED BY <1>4, <2>2, <2>3, RotationSteps
<1> QED BY <1>1, <1>2, <1>3, <1>4, LogSteps

--------------------------------------------------------------------------------
(* An undisturbed rotation keeps as many generations as it should.           *)

\* The smaller of two, without the choice in its definition.
LEMMA MinOfTwo ==
  ASSUME NEW a \in Nat, NEW b \in Nat
  PROVE  Min({a, b}) = IF b < a THEN b ELSE a
BY DEF Min

\* Kept, by cases.
LEMMA KeptIs ==
  ASSUME FilesTyped, RequestsTyped
  PROVE  /\ Kept \in Nat /\ log.keep \in Nat
         /\ Kept = IF log.keep = 0 \/ rotations < log.keep THEN rotations ELSE log.keep
<1>1. log.keep \in Nat /\ rotations \in Nat
  BY LogFileAssumption DEF FilesTyped, RequestsTyped
<1>2. Min({log.keep, rotations}) = IF rotations < log.keep THEN rotations ELSE log.keep
  BY <1>1, MinOfTwo
<1> QED BY <1>1, <1>2 DEF Kept

\* An undisturbed rotation moves its one hole down to the log's place.
LEMMA HoleStep ==
  ASSUME RequestsInv, FilesTyped, TodoOK, HoleMovesDown, AsManyAsKept, [Next]_vars
  PROVE  HoleMovesDown' /\ AsManyAsKept'
<1>1. ASSUME Quiet PROVE HoleMovesDown' /\ AsManyAsKept'
  <2>1. /\ UNCHANGED logVars /\ faults' = faults /\ rotations' = rotations
        /\ Kept' = Kept /\ Remaining' = Remaining
        /\ \A op, g : HasTask(op, g)' <=> HasTask(op, g)
    BY <1>1 DEF Quiet, SameHistory, logVars, Kept, Remaining, HasTask, Task
  <2>2. HoleMovesDown'
    BY <2>1 DEF HoleMovesDown, logVars
  <2> QED BY <2>1, <2>2 DEF AsManyAsKept, logVars
<1>2. ASSUME Opens PROVE HoleMovesDown' /\ AsManyAsKept'
  <2>1. PICK X \in {OnDisk, Opened} : files' = With(files, 0, X)
    BY <1>2 DEF Opens
  <2>2. /\ DOMAIN files' = DOMAIN files \union {0} /\ log' = log /\ holder' = Nobody
        /\ faults' = {} => faults = {} /\ holder = Nobody
        /\ Kept' = Kept
    BY <1>2, <2>1 DEF Opens, With, SameHistory, Kept
  <2> QED BY <2>2 DEF HoleMovesDown, AsManyAsKept
<1>3. ASSUME NEW line \in Nat, Writes(line) PROVE HoleMovesDown' /\ AsManyAsKept'
  <2>1. DOMAIN files' = DOMAIN files \union {0} /\ log' = log /\ holder = Nobody /\ faults' = faults
    BY <1>3, WritesAre DEF RequestsInv, With, TodoOK, Writes
  <2>2. CASE holder' = Nobody /\ rotations' = rotations
    <3>1. Kept' = Kept
      BY <2>1, <2>2 DEF Kept
    <3> QED BY <2>1, <2>2, <3>1 DEF HoleMovesDown, AsManyAsKept
  <2>3. CASE /\ holder' # Nobody /\ rotations' = rotations + 1
             /\ todo' \in Rotations(Generations)
    <3>1. AsManyAsKept'
      BY <2>3 DEF AsManyAsKept
    <3>2. ASSUME faults' = {}, log'.directory
          PROVE  \E c \in Nat :
                   /\ \A g \in Nat : HasTask("rename", g)' <=> g <= c
                   /\ \/ c < Kept' /\ Remaining' = (0..Kept') \ {c + 1}
                      \/ c = Kept' /\ Kept' = log'.keep /\ log'.keep > 0 /\ Remaining' = 0..(Kept' - 1)
      <4>1. Generations = 1..Kept
        BY <2>1, <3>2 DEF AsManyAsKept, Generations
      <4>2. /\ \A g : HasTask("unlink", g)' <=> g \in TooOld(Generations)
            /\ \A g : HasTask("rename", g)' <=> g \in Generations \union {0}
        BY <2>3, RotationsAre, GenerationsListed, LogFileAssumption
        DEF RequestsInv, RequestsTyped, HasTask, Task
      <4>3. /\ Kept \in Nat /\ log.keep \in Nat
            /\ Kept = IF log.keep = 0 \/ rotations < log.keep THEN rotations ELSE log.keep
        BY KeptIs DEF RequestsInv
      <4>4. /\ Kept' \in Nat
            /\ Kept' = IF log.keep = 0 \/ rotations + 1 < log.keep THEN rotations + 1 ELSE log.keep
        <5>1. rotations + 1 \in Nat
          BY DEF FilesTyped
        <5>2. Kept' = IF log.keep = 0 THEN rotations + 1 ELSE Min({log.keep, rotations + 1})
          BY <2>1, <2>3 DEF Kept
        <5>3. Min({log.keep, rotations + 1}) = IF rotations + 1 < log.keep THEN rotations + 1 ELSE log.keep
          BY <4>3, <5>1, MinOfTwo
        <5> QED BY <4>3, <5>1, <5>2, <5>3
      <4>5. DOMAIN files' = 0..Kept
        BY <2>1, <4>1, <4>3, <3>2 DEF Generations
      <4>6. Remaining' = (0..Kept) \ TooOld(1..Kept)
        BY <4>1, <4>2, <4>5 DEF Remaining
      <4>7. \A g \in Nat : HasTask("rename", g)' <=> g <= Kept
        BY <4>1, <4>2, <4>3
      <4>8. CASE log.keep = 0 \/ rotations < log.keep
        <5>1. TooOld(1..Kept) = {}
          BY <4>3, <4>8 DEF TooOld
        <5>2. Kept' = Kept + 1
          BY <4>3, <4>4, <4>8 DEF FilesTyped
        <5>3. Remaining' = (0..Kept') \ {Kept + 1}
          BY <4>3, <4>6, <5>1, <5>2
        <5> QED BY <4>3, <4>7, <5>2, <5>3
      <4>9. CASE ~ (log.keep = 0 \/ rotations < log.keep)
        <5>1. Kept = log.keep /\ Kept' = log.keep /\ Kept > 0
          BY <4>3, <4>4, <4>9 DEF FilesTyped
        <5>2. TooOld(1..Kept) = {Kept}
          BY <4>3, <5>1 DEF TooOld
        <5>3. Remaining' = 0..(Kept' - 1)
          BY <4>3, <4>6, <5>1, <5>2
        <5> QED BY <2>1, <4>3, <4>7, <5>1, <5>3
      <4> QED BY <4>8, <4>9
    <3> QED BY <3>1, <3>2 DEF HoleMovesDown
  <2> QED BY <1>3, <2>2, <2>3, WritesAre DEF RequestsInv
<1>4. ASSUME Rotates PROVE HoleMovesDown' /\ AsManyAsKept'
  <2>1. /\ todo # <<>> /\ holder # Nobody /\ log' = log /\ Current \in TaskType
        /\ faults \subseteq faults' /\ rotations' = rotations
        /\ Kept' = Kept
    BY <1>4, RotationSteps DEF SameHistory, Kept
  <2>2. SUFFICES ASSUME faults' = {}, log.directory
                 PROVE  HoleMovesDown' /\ AsManyAsKept'
    BY <2>1 DEF HoleMovesDown, AsManyAsKept
  <2>3. Kept \in Nat /\ log.keep \in Nat
    BY KeptIs DEF RequestsInv
  <2>4. faults = {} /\ (Unlink \/ Shift \/ Finish)
    BY <1>4, <2>1, <2>2 DEF Rotates
  <2>5. PICK c \in Nat :
          /\ \A g \in Nat : HasTask("rename", g) <=> g <= c
          /\ \/ c < Kept /\ Remaining = (0..Kept) \ {c + 1}
             \/ c = Kept /\ Kept = log.keep /\ log.keep > 0 /\ Remaining = 0..(Kept - 1)
    BY <2>1, <2>2, <2>4 DEF HoleMovesDown
  <2>6. CASE Unlink
    <3>1. /\ Current.op = "unlink" /\ todo' = Tail(todo) /\ holder' = holder
          /\ DOMAIN files' = DOMAIN files \ {Current.gen}
      BY <2>6 DEF Unlink, Doing, Goes, Without, Restrict
    <3>2. \A op, g : HasTask(op, g)' <=> HasTask(op, g) /\ Task(op, g) # Current
      BY <2>1, <3>1, NextTask
    <3>3. \A g : HasTask("rename", g)' <=> HasTask("rename", g)
      BY <3>1, <3>2, TaskFields
    <3>4. Current = Task("unlink", Current.gen) /\ HasTask("unlink", Current.gen)
      BY <2>1, <3>1, TaskAtHand
    <3>5. \A g : HasTask("unlink", g)' <=> HasTask("unlink", g) /\ g # Current.gen
      BY <3>2, <3>4, TaskFields
    <3>6. Remaining' = Remaining
      BY <3>1, <3>4, <3>5 DEF Remaining
    <3> QED BY <2>1, <2>5, <3>1, <3>3, <3>6 DEF HoleMovesDown, AsManyAsKept
  <2>7. ASSUME Current.op = "rename"
        PROVE  /\ \A g : ~ HasTask("unlink", g)
               /\ Remaining = DOMAIN files /\ Current.gen = c /\ Current = Task("rename", c)
    <3>1. /\ \A g : ~ HasTask("unlink", g)
          /\ HasTask("rename", Current.gen) /\ Current = Task("rename", Current.gen)
          /\ \A h : HasTask("rename", h) => h = Current.gen \/ Current.gen > h
      BY <2>1, <2>7, TaskAtHand
    <3>2. Current.gen \in Nat /\ HasTask("rename", c)
      BY <2>1, <2>5 DEF TaskType
    <3>3. Current.gen = c
      BY <2>5, <3>1, <3>2
    <3>4. Remaining = DOMAIN files
      BY <3>1 DEF Remaining
    <3> QED BY <3>1, <3>3, <3>4
  <2>8. CASE Shift
    <3>1. /\ Current.op = "rename" /\ c > 0 /\ todo' = Tail(todo) /\ files' = Renamed
          /\ holder' = holder
      BY <2>7, <2>8 DEF Shift, Doing, Goes
    <3>2. \A op, g : HasTask(op, g)' <=> HasTask(op, g) /\ Task(op, g) # Current
      BY <2>1, <3>1, NextTask
    <3>3. \A g \in Nat : HasTask("rename", g)' <=> g <= c - 1
      BY <2>5, <2>7, <3>1, <3>2, TaskFields
    <3>4. Remaining' = DOMAIN files'
      BY <2>7, <3>1, <3>2 DEF Remaining
    <3>5. CASE c < Kept /\ DOMAIN files = (0..Kept) \ {c + 1}
      <4>1. c \in DOMAIN files
        BY <2>3, <3>5
      <4>2. DOMAIN files' = (DOMAIN files \ {c}) \union {c + 1}
        BY <2>7, <3>1, <4>1 DEF Renamed, With, Without, Restrict
      <4>3. DOMAIN files' = (0..Kept) \ {(c - 1) + 1} /\ c - 1 < Kept /\ c - 1 \in Nat
        BY <2>3, <3>1, <3>5, <4>2
      <4> QED BY <2>1, <3>1, <3>3, <3>4, <4>3 DEF HoleMovesDown, AsManyAsKept
    <3>6. CASE c = Kept /\ DOMAIN files = 0..(Kept - 1)
      <4>1. files' = files
        BY <2>3, <2>7, <3>1, <3>6 DEF Renamed
      <4>2. DOMAIN files' = (0..Kept) \ {(c - 1) + 1} /\ c - 1 < Kept /\ c - 1 \in Nat
        BY <2>3, <3>1, <3>6, <4>1
      <4> QED BY <2>1, <3>1, <3>3, <3>4, <4>2 DEF HoleMovesDown, AsManyAsKept
    <3> QED BY <2>5, <2>7, <3>1, <3>5, <3>6
  <2>9. CASE Finish
    <3>1. /\ Current.op = "rename" /\ c = 0 /\ files' = Renamed /\ holder' = Nobody
      BY <2>7, <2>9 DEF Finish, Doing, Returns
    <3>2. c < Kept /\ DOMAIN files = (0..Kept) \ {1}
      <4>1. Remaining = DOMAIN files
        BY <2>7, <3>1
      <4>2. ~ (c = Kept /\ Kept = log.keep /\ log.keep > 0)
        BY <2>3, <3>1
      <4> QED BY <2>5, <3>1, <4>1, <4>2
    <3>3. DOMAIN files' = (DOMAIN files \ {0}) \union {1}
      BY <2>3, <2>7, <3>1, <3>2 DEF Renamed, With, Without, Restrict
    <3>4. DOMAIN files' \ {0} = 1..Kept
      BY <2>3, <3>1, <3>2, <3>3
    <3> QED BY <2>1, <3>1, <3>4 DEF HoleMovesDown, AsManyAsKept
  <2> QED BY <2>4, <2>6, <2>8, <2>9
<1> QED BY <1>1, <1>2, <1>3, <1>4, LogSteps

--------------------------------------------------------------------------------
(* The lines.                                                                *)

\* Line a is the i-th of generation g.
AtPlace(g, i, a) ==
  g \in DOMAIN files /\ i \in DOMAIN files[g] /\ files[g][i] = a /\ a # Header

Above(g, i, h, j) == g > h \/ (g = h /\ i < j)

LinesOK == HeadersFirst /\ Lines \subseteq ToSet(written) /\ InOrder

\* Lines and their order, by the places they are at.
LEMMA LinesByPlace ==
  /\ \A a : a \in Lines <=> \E g, i : AtPlace(g, i, a)
  /\ InOrder <=>
       \A g, h, i, j, a, b :
         AtPlace(g, i, a) /\ AtPlace(h, j, b) /\ Above(g, i, h, j) => WrittenBefore(a, b)
<1>1. \A a : a \in Lines <=> \E g, i : AtPlace(g, i, a)
  BY DEF Lines, LinesOf, AtPlace
<1>2. ASSUME InOrder, NEW g, NEW h, NEW i, NEW j, NEW a, NEW b,
             AtPlace(g, i, a), AtPlace(h, j, b), Above(g, i, h, j)
      PROVE  WrittenBefore(a, b)
  BY <1>2 DEF InOrder, AtPlace, Above
<1>3. ASSUME \A g, h, i, j, a, b :
               AtPlace(g, i, a) /\ AtPlace(h, j, b) /\ Above(g, i, h, j) => WrittenBefore(a, b)
      PROVE  InOrder
  <2>1. SUFFICES ASSUME NEW g \in DOMAIN files, NEW h \in DOMAIN files,
                        NEW i \in DOMAIN files[g], NEW j \in DOMAIN files[h],
                        g > h \/ (g = h /\ i < j), Header \notin {files[g][i], files[h][j]}
                 PROVE  WrittenBefore(files[g][i], files[h][j])
    BY DEF InOrder
  <2>2. /\ AtPlace(g, i, files[g][i]) /\ AtPlace(h, j, files[h][j])
        /\ Above(g, i, h, j)
    BY <2>1 DEF AtPlace, Above
  <2> QED BY <1>3, <2>2, Zenon
<1> QED BY <1>1, <1>2, <1>3

\* The same of the next state.
LEMMA NextByPlace ==
  /\ \A a : a \in Lines' <=> \E g, i : AtPlace(g, i, a)'
  /\ (\A g, h, i, j, a, b :
        AtPlace(g, i, a)' /\ AtPlace(h, j, b)' /\ Above(g, i, h, j) => WrittenBefore(a, b)')
       => InOrder'
<1>1. \A a : a \in Lines' <=> \E g, i : AtPlace(g, i, a)'
  BY DEF Lines, LinesOf, AtPlace
<1>2. ASSUME \A g, h, i, j, a, b :
               AtPlace(g, i, a)' /\ AtPlace(h, j, b)' /\ Above(g, i, h, j) => WrittenBefore(a, b)',
             NEW g \in DOMAIN files', NEW h \in DOMAIN files',
             NEW i \in DOMAIN files'[g], NEW j \in DOMAIN files'[h],
             g > h \/ (g = h /\ i < j), Header \notin {files'[g][i], files'[h][j]}
      PROVE  \E m, n \in DOMAIN written' :
               m < n /\ written'[m] = files'[g][i] /\ written'[n] = files'[h][j]
  <2>1. PICK a, b : a = files'[g][i] /\ b = files'[h][j]
    OBVIOUS
  <2>2. AtPlace(g, i, a)' /\ AtPlace(h, j, b)' /\ Above(g, i, h, j)
    BY <1>2, <2>1 DEF AtPlace, Above, Header
  <2>3. WrittenBefore(a, b)'
    BY <1>2, <2>2
  <2> QED BY <2>1, <2>3, Zenon DEF WrittenBefore
<1>3. ASSUME \A g, h, i, j, a, b :
               AtPlace(g, i, a)' /\ AtPlace(h, j, b)' /\ Above(g, i, h, j) => WrittenBefore(a, b)'
      PROVE  InOrder'
  <2>1. \A g, h \in DOMAIN files' : \A i \in DOMAIN files'[g], j \in DOMAIN files'[h] :
          (g > h \/ (g = h /\ i < j)) /\ Header \notin {files'[g][i], files'[h][j]} =>
            \E m, n \in DOMAIN written' :
              m < n /\ written'[m] = files'[g][i] /\ written'[n] = files'[h][j]
    BY <1>2, <1>3
  <2> QED BY <2>1 DEF InOrder, WrittenBefore, Header
<1> QED BY <1>1, <1>3

\* Files that are moved without passing one another keep their lines in order.
LEMMA MovedInOrder ==
  ASSUME LinesOK, written' = written,
         NEW from \in [DOMAIN files' -> DOMAIN files],
         \A g \in DOMAIN files' : files'[g] = files[from[g]],
         \A g, h \in DOMAIN files' : g > h => from[g] > from[h]
  PROVE  LinesOK' /\ Lines' \subseteq Lines
<1>1. \A g, i, a : AtPlace(g, i, a)' => g \in DOMAIN files' /\ AtPlace(from[g], i, a)
  BY DEF AtPlace, Header
<1>2. HeadersFirst'
  BY DEF LinesOK, HeadersFirst, Header
<1>3. Lines' \subseteq Lines
  BY <1>1, NextByPlace, LinesByPlace
<1>4. ASSUME NEW g, NEW h, NEW i, NEW j, NEW a, NEW b,
             AtPlace(g, i, a)', AtPlace(h, j, b)', Above(g, i, h, j)
      PROVE  WrittenBefore(a, b)'
  <2>1. AtPlace(from[g], i, a) /\ AtPlace(from[h], j, b) /\ g \in DOMAIN files' /\ h \in DOMAIN files'
    BY <1>1, <1>4
  <2>2. Above(from[g], i, from[h], j)
    BY <1>4, <2>1 DEF Above
  <2>3. WrittenBefore(a, b)
    BY <2>1, <2>2, LinesByPlace, Zenon DEF LinesOK
  <2> QED BY <2>3 DEF WrittenBefore
<1>5. InOrder'
  BY <1>4, NextByPlace, Zenon
<1>6. Lines' \subseteq ToSet(written)'
  BY <1>3 DEF LinesOK
<1> QED BY <1>2, <1>3, <1>5, <1>6 DEF LinesOK

\* A step of a rotation moves the files without passing one another, and only
\* the oldest goes, unless a removal has failed.
LEMMA RotatesInOrder ==
  ASSUME FilesTyped, TodoOK, RoomAbove, RemovesOldest, Rotates
  PROVE  \E from \in [DOMAIN files' -> DOMAIN files] :
           /\ \A g \in DOMAIN files' : files'[g] = files[from[g]]
           /\ \A g, h \in DOMAIN files' : g > h => from[g] > from[h]
           /\ "unlink" \notin faults' =>
                \A d \in DOMAIN files :
                  \/ \E g \in DOMAIN files' : from[g] = d
                  \/ \A g \in DOMAIN files : g <= d
<1> DEFINE c == Current.gen
           stay == [g \in DOMAIN files' |-> g]
<1>1. /\ todo # <<>> /\ faults \subseteq faults' /\ Current \in TaskType
      /\ Current = todo[1] /\ todo \in Seq(TaskType) /\ c \in Nat
  BY RotationSteps DEF SameHistory, TodoOK, TaskType
<1>2. \/ files' = files
      \/ Current.op = "unlink" /\ files' = Without(c)
      \/ Current.op = "rename" /\ files' = Renamed
  BY DEF Rotates, Unlink, CannotUnlink, Shift, Finish, CannotRename, Doing
<1>3. CASE files' = files
  <2>1. stay \in [DOMAIN files' -> DOMAIN files] /\ \A g \in DOMAIN files' : stay[g] = g
    BY <1>3
  <2> HIDE DEF stay
  <2> QED BY <1>3, <2>1
<1>4. CASE Current.op = "unlink" /\ files' = Without(c)
  <2>1. /\ DOMAIN files' = DOMAIN files \ {c}
        /\ \A g \in DOMAIN files' : files'[g] = files[g]
    BY <1>1, <1>4, WithoutTyped
  <2>2. stay \in [DOMAIN files' -> DOMAIN files] /\ \A g \in DOMAIN files' : stay[g] = g
    BY <2>1
  <2> HIDE DEF stay
  <2>3. "unlink" \notin faults' => \A g \in DOMAIN files : g <= c
    <3>1. 1 \in DOMAIN todo /\ 1..1-1 = {}
      BY <1>1
    <3>2. ASSUME "unlink" \notin faults', NEW g \in DOMAIN files
          PROVE  g <= c
      <4>1. "unlink" \notin faults
        BY <1>1, <3>2
      <4>2. g > todo[1].gen => \E j \in 1..1-1 : todo[j] = Task("unlink", g)
        BY <1>1, <1>4, <3>1, <4>1, Zenon DEF RemovesOldest
      <4>3. ~ (g > todo[1].gen) /\ todo[1].gen = c
        BY <1>1, <3>1, <4>2
      <4>4. g \in Nat
        BY DEF FilesTyped
      <4> QED BY <1>1, <4>3, <4>4
    <3> QED BY <3>2
  <2> HIDE DEF c
  <2> QED BY <2>1, <2>2, <2>3
<1>5. CASE Current.op = "rename" /\ files' = Renamed /\ c \in DOMAIN files
  <2> DEFINE down == [g \in DOMAIN files' |-> IF g = c + 1 THEN c ELSE g]
  <2>1. /\ DOMAIN files' = (DOMAIN files \ {c}) \union {c + 1}
        /\ files'[c + 1] = files[c]
        /\ \A g \in DOMAIN files \ {c, c + 1} : files'[g] = files[g]
    BY <1>1, <1>5, RenamedTyped
  <2>2. /\ down \in [DOMAIN files' -> DOMAIN files]
        /\ \A g \in DOMAIN files' : down[g] = IF g = c + 1 THEN c ELSE g
    BY <1>5, <2>1
  <2> HIDE DEF down
  <2>3. \A g \in DOMAIN files' : files'[g] = files[down[g]]
    BY <2>1, <2>2
  <2>4. \A g \in DOMAIN files' : g \in Nat /\ g # c
    BY <1>1, <2>1 DEF FilesTyped
  <2>5. \A g, h \in DOMAIN files' : g > h => down[g] > down[h]
    BY <1>1, <2>2, <2>4
  <2>6. ASSUME NEW d \in DOMAIN files, \A g \in DOMAIN files' : down[g] # d
        PROVE  \A g \in DOMAIN files : g <= d
    <3>1. d = c + 1
      BY <2>1, <2>2, <2>6
    <3>2. ~ log.directory
      BY <1>1, <1>5, <3>1, PlaceIsFree
    <3>3. c = 0 /\ DOMAIN files \subseteq {0, 1}
      BY <1>1, <3>2, BareRotation DEF RoomAbove
    <3> QED BY <3>1, <3>3
  <2> QED BY <2>2, <2>3, <2>5, <2>6
<1>6. CASE Current.op = "rename" /\ files' = Renamed /\ c \notin DOMAIN files
  BY <1>3, <1>6 DEF Renamed
<1> QED BY <1>2, <1>3, <1>4, <1>5, <1>6

\* What a log holds once it is open: the lines it held, after its header.
LEMMA OpenedLines ==
  ASSUME FilesTyped, HeadersFirst, NEW X \in {OnDisk, Opened}
  PROVE  /\ X \in Seq(Nat)
         /\ \A i \in DOMAIN X : X[i] = Header <=> i = 1
         /\ X = Opened => X # <<>>
         /\ \A i, a : i \in DOMAIN X /\ X[i] = a /\ a # Header <=> AtPlace(0, i, a)
<1>1. /\ OnDisk \in Seq(Nat) /\ Opened = IF OnDisk = <<>> THEN <<Header>> ELSE OnDisk
      /\ Opened \in Seq(Nat)
  BY WhenOpen
<1>2. /\ \A i \in DOMAIN OnDisk : OnDisk[i] = Header <=> i = 1
      /\ \A i, a : i \in DOMAIN OnDisk /\ OnDisk[i] = a /\ a # Header <=> AtPlace(0, i, a)
  <2>1. CASE 0 \in DOMAIN files
    BY <2>1 DEF OnDisk, AtPlace, HeadersFirst
  <2>2. CASE 0 \notin DOMAIN files
    <3>1. OnDisk = <<>> /\ DOMAIN OnDisk = {}
      BY <2>2 DEF OnDisk
    <3> QED BY <2>2, <3>1 DEF AtPlace
  <2> QED BY <2>1, <2>2
<1>3. CASE X = OnDisk
  BY <1>1, <1>2, <1>3
<1>4. CASE OnDisk = <<>> /\ X = <<Header>>
  <2>1. DOMAIN OnDisk = {} /\ DOMAIN X = {1} /\ X[1] = Header
    BY <1>4
  <2> QED BY <1>1, <1>2, <1>4, <2>1
<1> QED BY <1>1, <1>3, <1>4

\* Opening the log adds a header to an empty one and moves no line.
LEMMA OpensInOrder ==
  ASSUME FilesTyped, LinesOK, Opens
  PROVE  LinesOK' /\ Lines' = Lines
<1>1. PICK X \in {OnDisk, Opened} : files' = With(files, 0, X)
  BY DEF Opens
<1>2. /\ X \in Seq(Nat)
      /\ \A i \in DOMAIN X : X[i] = Header <=> i = 1
      /\ \A i, a : i \in DOMAIN X /\ X[i] = a /\ a # Header <=> AtPlace(0, i, a)
  BY OpenedLines DEF LinesOK
<1>3. /\ DOMAIN files' = DOMAIN files \union {0}
      /\ files'[0] = X
      /\ \A g \in DOMAIN files \ {0} : files'[g] = files[g]
  BY <1>1, <1>2, WithTyped
<1>4. \A g, i, a : AtPlace(g, i, a)' <=> AtPlace(g, i, a)
  <2>1. \A i, a : AtPlace(0, i, a)' <=> AtPlace(0, i, a)
    <3>1. \A i, a : AtPlace(0, i, a)' <=> i \in DOMAIN X /\ X[i] = a /\ a # Header
      BY <1>3 DEF AtPlace, Header
    <3> QED BY <1>2, <3>1
  <2>2. \A g, i, a : g # 0 => (AtPlace(g, i, a)' <=> AtPlace(g, i, a))
    BY <1>3 DEF AtPlace, Header
  <2> QED BY <2>1, <2>2
<1>5. HeadersFirst'
  BY <1>2, <1>3 DEF LinesOK, HeadersFirst, Header
<1>6. \A a, b : WrittenBefore(a, b)' <=> WrittenBefore(a, b)
  BY DEF Opens, SameHistory, WrittenBefore
<1>7. Lines' = Lines
  BY <1>4, NextByPlace, LinesByPlace
<1>8. InOrder'
  BY <1>4, <1>6, NextByPlace, LinesByPlace, Zenon DEF LinesOK
<1>9. Lines' \subseteq ToSet(written)'
  BY <1>7 DEF LinesOK, Opens, SameHistory
<1> QED BY <1>5, <1>7, <1>8, <1>9 DEF LinesOK

\* A line that is written is the last, in the files as in the history.
LEMMA WritesInOrder ==
  ASSUME RequestsInv, FilesTyped, LinesOK, NEW line \in Nat, Writes(line)
  PROVE  LinesOK' /\ Lines' = Lines \union {line}
<1> DEFINE n == Len(Opened) + 1
           X == Append(Opened, line)
<1>1. files' = With(files, 0, X) /\ X \in Seq(Nat)
  BY WritesAre DEF RequestsInv
<1>2. /\ Opened \in Seq(Nat) /\ Opened # <<>>
      /\ \A i \in DOMAIN Opened : Opened[i] = Header <=> i = 1
      /\ \A i, a : i \in DOMAIN Opened /\ Opened[i] = a /\ a # Header <=> AtPlace(0, i, a)
  BY OpenedLines DEF LinesOK
<1>3. line # Header /\ written' = Append(written, line) /\ written \in Seq(Nat)
  BY DEF Writes, Header, RequestsInv, WrittenOK
<1>4. /\ n \in Nat /\ n # 1 /\ \A i \in DOMAIN Opened : i < n
      /\ DOMAIN X = DOMAIN Opened \union {n}
      /\ \A i \in DOMAIN Opened : X[i] = Opened[i]
      /\ X[n] = line
  BY <1>2
<1> HIDE DEF n, X
<1>5. /\ DOMAIN files' = DOMAIN files \union {0}
      /\ files'[0] = X
      /\ \A g \in DOMAIN files \ {0} : files'[g] = files[g]
  BY <1>1, WithTyped
<1>6. \A g, i, a : AtPlace(g, i, a)' <=> AtPlace(g, i, a) \/ (g = 0 /\ i = n /\ a = line)
  <2>1. \A i, a : AtPlace(0, i, a)' <=> AtPlace(0, i, a) \/ (i = n /\ a = line)
    <3>1. \A i, a : AtPlace(0, i, a)' <=> i \in DOMAIN X /\ X[i] = a /\ a # Header
      BY <1>5 DEF AtPlace, Header
    <3> QED BY <1>2, <1>3, <1>4, <3>1
  <2>2. \A g, i, a : g # 0 => (AtPlace(g, i, a)' <=> AtPlace(g, i, a))
    BY <1>5 DEF AtPlace, Header
  <2> QED BY <2>1, <2>2
<1>7. HeadersFirst'
  <2>1. \A i \in DOMAIN X : X[i] = Header <=> i = 1
    BY <1>2, <1>3, <1>4
  <2> QED BY <1>5, <2>1 DEF LinesOK, HeadersFirst, Header
<1>8. Lines' = Lines \union {line}
  BY <1>6, NextByPlace, LinesByPlace
<1>9. /\ \A a, b : WrittenBefore(a, b) => WrittenBefore(a, b)'
      /\ \A a \in ToSet(written) : WrittenBefore(a, line)'
      /\ ToSet(written)' = ToSet(written) \union {line}
  <2>1. /\ DOMAIN written' = DOMAIN written \union {Len(written) + 1}
        /\ \A m \in DOMAIN written : written'[m] = written[m] /\ m < Len(written) + 1
        /\ written'[Len(written) + 1] = line
    BY <1>3
  <2>2. \A a, b : WrittenBefore(a, b) => WrittenBefore(a, b)'
    BY <2>1 DEF WrittenBefore
  <2>3. \A a \in ToSet(written) : WrittenBefore(a, line)'
    BY <2>1, Zenon DEF WrittenBefore, ToSet
  <2>4. ToSet(written)' = ToSet(written) \union {line}
    BY <1>3, AppendAdds
  <2> QED BY <2>2, <2>3, <2>4
<1>10. InOrder'
  <2>1. ASSUME NEW g, NEW h, NEW i, NEW j, NEW a, NEW b,
               AtPlace(g, i, a)', AtPlace(h, j, b)', Above(g, i, h, j)
        PROVE  WrittenBefore(a, b)'
    <3>1. CASE AtPlace(g, i, a) /\ AtPlace(h, j, b)
      <4>1. WrittenBefore(a, b)
        BY <2>1, <3>1, LinesByPlace, Zenon DEF LinesOK
      <4> QED BY <4>1, <1>9
    <3>2. CASE AtPlace(g, i, a) /\ b = line
      <4>1. a \in ToSet(written)
        BY <3>2, LinesByPlace DEF LinesOK
      <4> QED BY <3>2, <4>1, <1>9
    <3>3. CASE g = 0 /\ i = n
      <4>1. h \in Nat /\ ~ (0 > h)
        BY <1>5, <2>1 DEF AtPlace, FilesTyped
      <4>2. h = 0 /\ i < j
        BY <2>1, <3>3, <4>1 DEF Above
      <4>3. j = n \/ j \in DOMAIN Opened
        BY <1>2, <1>6, <2>1, <4>2
      <4> QED BY <1>2, <1>4, <3>3, <4>2, <4>3
    <3> QED BY <1>6, <2>1, <3>1, <3>2, <3>3
  <2> QED BY <2>1, NextByPlace, Zenon
<1>11. Lines' \subseteq ToSet(written)'
  BY <1>8, <1>9 DEF LinesOK
<1> QED BY <1>7, <1>8, <1>10, <1>11 DEF LinesOK

\* What a rotation drops is older than all that is left.
LEMMA RotatesDropsOldest ==
  ASSUME RequestsInv, FilesTyped, TodoOK, RoomAbove, RemovesOldest, LinesOK, OnlyOldestGo, Rotates
  PROVE  LinesOK' /\ OnlyOldestGo'
<1>1. PICK from \in [DOMAIN files' -> DOMAIN files] :
        /\ \A g \in DOMAIN files' : files'[g] = files[from[g]]
        /\ \A g, h \in DOMAIN files' : g > h => from[g] > from[h]
        /\ "unlink" \notin faults' =>
             \A d \in DOMAIN files :
               \/ \E g \in DOMAIN files' : from[g] = d
               \/ \A g \in DOMAIN files : g <= d
  BY RotatesInOrder
<1>2. written' = written /\ faults \subseteq faults'
  BY RotationSteps DEF SameHistory
<1>3. LinesOK' /\ Lines' \subseteq Lines
  BY <1>1, <1>2, MovedInOrder
<1>4. ASSUME "unlink" \notin faults', NEW m \in DOMAIN written, NEW n \in DOMAIN written,
             m < n, written[m] \in Lines'
      PROVE  written[n] \in Lines'
  <2>1. written[n] \in Lines
    BY <1>2, <1>3, <1>4 DEF OnlyOldestGo
  <2>2. PICK d, j : AtPlace(d, j, written[n])
    BY <2>1, LinesByPlace
  <2>3. ASSUME NEW g \in DOMAIN files', from[g] = d
        PROVE  written[n] \in Lines'
    <3>1. PICK a : a = written[n]
      OBVIOUS
    <3>2. AtPlace(g, j, a)'
      BY <1>1, <2>2, <2>3, <3>1 DEF AtPlace, Header
    <3> QED BY <3>1, <3>2, NextByPlace
  <2>4. ASSUME \A g \in DOMAIN files' : from[g] # d, \A g \in DOMAIN files : g <= d
        PROVE  FALSE
    <3>1. PICK a : a = written[m]
      OBVIOUS
    <3>2. PICK g, i : AtPlace(g, i, a)'
      BY <1>4, <3>1, NextByPlace
    <3>3. g \in DOMAIN files' /\ AtPlace(from[g], i, a)
      BY <1>1, <3>2 DEF AtPlace, Header
    <3>4. from[g] \in Nat /\ d \in Nat /\ from[g] <= d /\ from[g] # d
      BY <2>2, <2>4, <3>3 DEF AtPlace, FilesTyped
    <3>5. Above(d, j, from[g], i)
      BY <3>4 DEF Above
    <3>6. WrittenBefore(written[n], written[m])
      BY <2>2, <3>1, <3>3, <3>5, LinesByPlace, Zenon DEF LinesOK
    <3>7. PICK k, l \in DOMAIN written : k < l /\ written[k] = written[n] /\ written[l] = written[m]
      BY <3>6 DEF WrittenBefore
    <3>8. k = n /\ l = m
      BY <3>7, Zenon DEF RequestsInv, WrittenOK, IsInjective
    <3>9. m \in Nat /\ n \in Nat
      BY DEF RequestsInv, WrittenOK
    <3> QED BY <1>4, <3>7, <3>8, <3>9
  <2>5. \/ \E g \in DOMAIN files' : from[g] = d
        \/ \A g \in DOMAIN files : g <= d
    BY <1>1, <1>4, <2>2 DEF AtPlace
  <2> QED BY <2>3, <2>4, <2>5
<1>5. OnlyOldestGo'
  BY <1>2, <1>4 DEF OnlyOldestGo
<1> QED BY <1>3, <1>5

\* No step reorders lines, and only a rotation drops some, the oldest.
LEMMA LinesStep ==
  ASSUME RequestsInv, FilesTyped, TodoOK, RoomAbove, RemovesOldest, LinesOK, OnlyOldestGo,
         [Next]_vars
  PROVE  LinesOK' /\ OnlyOldestGo'
<1>1. ASSUME Quiet PROVE LinesOK' /\ OnlyOldestGo'
  BY <1>1 DEF Quiet, logVars, SameHistory, LinesOK, HeadersFirst, Header, Lines, LinesOf,
              InOrder, WrittenBefore, ToSet, OnlyOldestGo
<1>2. ASSUME Opens PROVE LinesOK' /\ OnlyOldestGo'
  <2>1. LinesOK' /\ Lines' = Lines
    BY <1>2, OpensInOrder
  <2>2. written' = written /\ faults \subseteq faults'
    BY <1>2 DEF Opens, SameHistory
  <2> QED BY <2>1, <2>2 DEF OnlyOldestGo
<1>3. ASSUME NEW line \in Nat, Writes(line) PROVE LinesOK' /\ OnlyOldestGo'
  <2>1. LinesOK' /\ Lines' = Lines \union {line}
    BY <1>3, WritesInOrder
  <2>2. faults' = faults /\ line \notin ToSet(written)
    BY <1>3 DEF Writes
  <2>3. /\ DOMAIN written' = DOMAIN written \union {Len(written) + 1}
        /\ \A m \in DOMAIN written : written'[m] = written[m] /\ m < Len(written) + 1
        /\ written'[Len(written) + 1] = line
        /\ Len(written) \in Nat /\ DOMAIN written \subseteq Nat
    BY <1>3 DEF Writes, RequestsInv, WrittenOK
  <2>4. ASSUME "unlink" \notin faults', NEW m \in DOMAIN written', NEW n \in DOMAIN written',
               m < n, written'[m] \in Lines'
        PROVE  written'[n] \in Lines'
    <3>1. CASE n = Len(written) + 1
      BY <2>1, <2>3, <3>1
    <3>2. CASE n \in DOMAIN written
      <4>1. m \in DOMAIN written
        BY <2>3, <2>4, <3>2
      <4>2. written[m] # line
        BY <2>2, <4>1 DEF ToSet
      <4>3. written[m] \in Lines
        BY <2>1, <2>3, <2>4, <4>1, <4>2
      <4>4. written[n] \in Lines
        BY <2>2, <2>4, <3>2, <4>1, <4>3 DEF OnlyOldestGo
      <4> QED BY <2>1, <2>3, <3>2, <4>4
    <3> QED BY <2>3, <3>1, <3>2
  <2>5. OnlyOldestGo'
    BY <2>4 DEF OnlyOldestGo
  <2> QED BY <2>1, <2>5
<1>4. ASSUME Rotates PROVE LinesOK' /\ OnlyOldestGo'
  BY <1>4, RotatesDropsOldest
<1> QED BY <1>1, <1>2, <1>3, <1>4, LogSteps

--------------------------------------------------------------------------------
(* The theorems.                                                             *)

\* At the start there are no files.
LEMMA LogInvInit == Init => LogInv
<1> SUFFICES ASSUME Init PROVE LogInv
  OBVIOUS
<1>1. /\ files = [g \in {} |-> <<>>] /\ DOMAIN files = {} /\ IsFiniteSet({})
      /\ size = 0 /\ ~ file /\ holder = Nobody /\ todo = <<>> /\ DOMAIN todo = {}
      /\ written = <<>> /\ DOMAIN written = {} /\ rotations = 0 /\ log \in Logs
  BY FS_EmptySet DEF Init, LogInit
<1>2. FilesTyped /\ TodoOK /\ RoomAbove /\ RemovesOldest /\ HoleMovesDown
  BY <1>1 DEF FilesTyped, TodoOK, RoomAbove, RemovesOldest, HoleMovesDown
<1>3. Lines = {}
  BY <1>1 DEF Lines
<1>4. HeadersFirst /\ Lines \subseteq ToSet(written) /\ InOrder /\ OnlyOldestGo
  BY <1>1, <1>3 DEF HeadersFirst, InOrder, OnlyOldestGo
<1>5. AsManyAsKept
  <2>1. log.keep \in Nat
    BY <1>1, LogFileAssumption
  <2>2. Kept = 0
    BY <1>1, <1>2, <2>1, RequestsInvInit, KeptIs DEF RequestsInv
  <2>3. 1..0 = {}
    OBVIOUS
  <2> QED BY <1>1, <2>2, <2>3 DEF AsManyAsKept
<1> QED BY <1>2, <1>4, <1>5 DEF LogInv, GenerationsAreNewest

\* Every step keeps the invariant.
LEMMA LogInvStep == RequestsInv /\ LogInv /\ [Next]_vars => LogInv'
<1> SUFFICES ASSUME RequestsInv, LogInv, [Next]_vars PROVE LogInv'
  OBVIOUS
<1>1. /\ FilesTyped /\ TodoOK /\ RoomAbove /\ RemovesOldest /\ HoleMovesDown
      /\ LinesOK /\ OnlyOldestGo /\ AsManyAsKept
  BY DEF LogInv, GenerationsAreNewest, LinesOK
<1>2. FilesTyped' /\ TodoOK'
  BY <1>1, FilesStep, TodoStep
<1>3. RoomAbove'
  BY <1>1, RoomStep
<1>4. RemovesOldest'
  BY <1>1, RemovesStep
<1>5. HoleMovesDown' /\ AsManyAsKept'
  BY <1>1, HoleStep
<1>6. LinesOK' /\ OnlyOldestGo'
  BY <1>1, LinesStep
<1> QED BY <1>2, <1>3, <1>4, <1>5, <1>6 DEF LogInv, GenerationsAreNewest, LinesOK

\* The log's files, and what a rotation in progress has left of them, whatever
\* fails and wherever the process is killed.
THEOREM LogInvariant == Spec => []LogInv
<1>1. Init => LogInv
  BY LogInvInit
<1>2. RequestsInv /\ LogInv /\ [Next]_vars => LogInv'
  BY LogInvStep
<1> QED BY <1>1, <1>2, RequestsInvariant, PTL DEF Spec

\* The files hold the newest lines in the order they were written, from the
\* oldest generation to the log itself; only the oldest are dropped; and an
\* undisturbed log in a directory keeps as many generations as it should.
THEOREM GenerationsStayNewest == Spec => []GenerationsAreNewest
<1>1. LogInv => GenerationsAreNewest
  BY DEF LogInv
<1> QED BY <1>1, LogInvariant, PTL

\* The state is well formed; the mutex is held by the one request that rotates, an
\* open file is there with the size that is tracked, and the dashboard's buckets
\* and ring stay within their bounds.
THEOREM RecordsTypeCorrect == Spec => []RecordsTypeOK
<1>1. RequestsInv /\ LogInv /\ BoardOK => RecordsTypeOK
  <2> SUFFICES ASSUME RequestsInv, LogInv, BoardOK PROVE RecordsTypeOK
    OBVIOUS
  <2>1. Len(board.recent) <= MaxRecent
    <3>1. /\ MaxRecent \in Nat /\ Recents \in Seq(RecentType)
          /\ board.recent = Newest(Recents, MaxRecent)
      BY BoardAssumption DEF BoardOK, RecentIsNewest, Recents
    <3>2. Len(Newest(Recents, MaxRecent)) = IF Len(Recents) > MaxRecent THEN MaxRecent ELSE Len(Recents)
      BY <3>1, NewestKeeps
    <3> HIDE DEF Recents
    <3> QED BY <3>1, <3>2
  <2>2. /\ log \in Logs /\ sinks \in SinksOf[log]
        /\ at \in [Requests -> Places]
        /\ number \in [Requests -> 0..answered]
        /\ \A r \in Requests : holder = r <=> at[r] = "rotating"
    BY DEF RequestsInv, RequestsTyped, HolderOK
  <2>3. /\ holder = Nobody <=> todo = <<>>
        /\ file => 0 \in DOMAIN files /\ size = Len(files[0])
    BY DEF LogInv, FilesTyped, TodoOK
  <2>4. Len(board.buckets) <= MAX_BUCKETS
    BY DEF BoardOK
  <2> QED BY <2>1, <2>2, <2>3, <2>4 DEF RecordsTypeOK
<1> QED BY <1>1, RequestsInvariant, LogInvariant, BoardInvariant, PTL
================================================================================
