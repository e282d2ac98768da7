--------------------------------- MODULE Records ---------------------------------
(***************************************************************************)
(* One record per finished request: the request-log middleware of          *)
(* src/src/app.rs over the log's file and the dashboard.                   *)
(*                                                                         *)
(* The pending record exists from the moment the handler has answered and  *)
(* rides in the response body; dropping it, when the body is done or the   *)
(* client has gone, appends the line and then counts the request.  Several *)
(* requests do that at once: the log's mutex makes them wait, and the      *)
(* dashboard's clock is read before its lock is taken.                     *)
(*                                                                         *)
(* A record's number is its line.  Bounds: MaxRecords, MaxClock.           *)
(***************************************************************************)
EXTENDS LogFile, Board

CONSTANTS
  Requests,    \* concurrent requests; each may be followed by another
  SinksOf,     \* the plugins to try with each log: sets of "log", "dashboard"
  Outcome,     \* what each record says
  MaxRecords,  \* bound on the responses recorded
  MaxClock     \* bound on the clock

ASSUME RecordsAssumption ==
  /\ SinksOf \in [Logs -> SUBSET SUBSET {"log", "dashboard"}]
  /\ Nobody \notin Requests
  /\ MaxRecords \in Nat /\ MaxClock \in Nat
  /\ Outcome \in [1..MaxRecords -> [status : Nat, cache_hit : BOOLEAN, completion_tokens : Nat]]

VARIABLES
  sinks,     \* the plugins that are loaded
  board,     \* the dashboard's state
  clock,     \* now_secs()
  at,        \* where each request is
  number,    \* the number of its record, once that is pending
  stamp,     \* the time record_now read
  answered,  \* how many records have been numbered
  written,   \* history: the lines written
  counted,   \* history: what the dashboard has counted since the start
  started,   \* history: answered at the last start
  excused,   \* history: records whose line failed, or lost in a kill
  rotations, \* history: rotations begun
  faults     \* history: how rotations have been disturbed

requestVars == <<at, number, stamp>>
historyVars == <<written, counted, started, excused, rotations, faults>>
vars == <<logVars, sinks, board, clock, requestVars, answered, historyVars>>

All(value) == [r \in Requests |-> value]

Init ==
  /\ LogInit
  /\ sinks \in SinksOf[log]
  /\ board = NewBoard
  /\ clock = 0
  /\ at = All("away") /\ number = All(0) /\ stamp = All(0)
  /\ answered = 0
  /\ written = <<>> /\ counted = <<>> /\ started = 0 /\ excused = {}
  /\ rotations = 0 /\ faults = {}
--------------------------------------------------------------------------------
Move(r, place) == at' = [at EXCEPT ![r] = place]
Leaves(r) ==
  /\ Move(r, "away")
  /\ number' = [number EXCEPT ![r] = 0]
  /\ stamp' = [stamp EXCEPT ![r] = 0]

\* The middleware passes a request on without a record.
IsOwnRoute(route) == "dashboard" \in sinks /\ route = "dashboard"
Skipped(route) == sinks = {} \/ IsOwnRoute(route)

Arrive(r, route) ==
  /\ at[r] = "away"
  /\ Move(r, IF Skipped(route) THEN "unrecorded" ELSE "handled")
  /\ UNCHANGED <<logVars, sinks, board, clock, number, stamp, answered, historyVars>>

\* The client leaves while the handler runs: there is no pending record yet.
Leave(r) ==
  /\ at[r] \in {"unrecorded", "handled"}
  /\ Leaves(r)
  /\ UNCHANGED <<logVars, sinks, board, clock, answered, historyVars>>

\* The handler has answered: the pending record goes with the body.
Respond(r) ==
  /\ at[r] = "handled" /\ answered < MaxRecords
  /\ answered' = answered + 1
  /\ number' = [number EXCEPT ![r] = answered + 1]
  /\ Move(r, "body")
  /\ UNCHANGED <<logVars, sinks, board, clock, stamp, historyVars>>

(***************************************************************************)
(* drop of the pending record: logger.log, then dashboard.record; a        *)
(* failure of the first is only warned about.                              *)
(***************************************************************************)
\* Mutant of AfterLog: the drop ends with the log.
AfterLogLeaves(r) == Leaves(r)

AfterLog(r) ==
  IF "dashboard" \in sinks THEN Move(r, "logged") /\ UNCHANGED <<number, stamp>>
                          ELSE Leaves(r)

NoLogger(r) ==
  /\ at[r] = "body" /\ "log" \notin sinks
  /\ AfterLog(r)
  /\ UNCHANGED <<logVars, sinks, board, clock, answered, historyVars>>

LogLine(r) ==
  /\ at[r] = "body" /\ "log" \in sinks
  /\ AppendLine(r, number[r])
  /\ IF holder' = r THEN Move(r, "rotating") /\ UNCHANGED <<number, stamp>>
                    ELSE AfterLog(r)
  /\ written' = Append(written, number[r])
  /\ rotations' = rotations + OneIf(holder' = r)
  /\ UNCHANGED <<sinks, board, clock, answered, counted, started, excused, faults>>

LogFails(r) ==
  /\ at[r] = "body" /\ "log" \in sinks
  /\ \/ CannotOpen
     \/ CannotWriteHeader
     \/ CannotWriteLine
  /\ AfterLog(r)
  /\ excused' = excused \union {number[r]}
  /\ UNCHANGED <<sinks, board, clock, answered, written, counted, started, rotations, faults>>

Rotate(r) ==
  /\ at[r] = "rotating"
  /\ \/ /\ Unlink \/ Shift \/ Finish
        /\ UNCHANGED faults
     \/ CannotUnlink /\ faults' = faults \union {"unlink"}
     \/ CannotRename /\ faults' = faults \union {"rename"}
  /\ IF holder' = Nobody THEN AfterLog(r) ELSE UNCHANGED requestVars
  /\ UNCHANGED <<sinks, board, clock, answered, written, counted, started, excused, rotations>>

\* record_now reads the clock; record_at takes the lock.
ReadClock(r) ==
  /\ at[r] = "logged"
  /\ stamp' = [stamp EXCEPT ![r] = clock]
  /\ Move(r, "stamped")
  /\ UNCHANGED <<logVars, sinks, board, clock, number, answered, historyVars>>

Count(r) ==
  /\ at[r] = "stamped"
  /\ board' = AddEvent(board, stamp[r], Outcome[number[r]])
  /\ counted' = Append(counted, [now |-> stamp[r], number |-> number[r]])
  /\ Leaves(r)
  /\ UNCHANGED <<logVars, sinks, clock, answered, written, started, excused, rotations, faults>>

Tick ==
  /\ clock < MaxClock
  /\ clock' = clock + 1
  /\ UNCHANGED <<logVars, sinks, board, requestVars, answered, historyVars>>

\* The process is killed and started again: the files are what is left.
Kill ==
  /\ \E r \in Requests : at[r] # "away"
  /\ IF "log" \in sinks THEN Reopened ELSE UNCHANGED logVars
  /\ board' = NewBoard
  /\ at' = All("away") /\ number' = All(0) /\ stamp' = All(0)
  /\ counted' = <<>>
  /\ started' = answered
  /\ excused' = excused \union {number[r] : r \in {q \in Requests : at[q] = "body"}}
  /\ faults' = IF holder # Nobody THEN faults \union {"kill"} ELSE faults
  /\ UNCHANGED <<sinks, clock, answered, written, rotations>>

Next ==
  \/ \E r \in Requests :
       \/ \E route \in {"proxy", "dashboard"} : Arrive(r, route)
       \/ Leave(r) \/ Respond(r)
       \/ NoLogger(r) \/ LogLine(r) \/ LogFails(r) \/ Rotate(r)
       \/ ReadClock(r) \/ Count(r)
  \/ Tick
  \/ Kill

Spec == Init /\ [][Next]_vars
--------------------------------------------------------------------------------
Places == {"away", "unrecorded", "handled", "body", "rotating", "logged", "stamped"}

(***************************************************************************)
(* The state is well formed; the mutex is held by the one request that     *)
(* rotates, and a file that is open is there with the size that is         *)
(* tracked; buckets and ring are within their bounds.                      *)
(***************************************************************************)
RecordsTypeOK ==
  /\ log \in Logs /\ sinks \in SinksOf[log]
  /\ at \in [Requests -> Places]
  /\ number \in [Requests -> 0..answered]
  /\ \A r \in Requests : holder = r <=> at[r] = "rotating"
  /\ holder = Nobody <=> todo = <<>>
  /\ file => 0 \in DOMAIN files /\ size = Len(files[0])
  /\ Len(board.buckets) <= MAX_BUCKETS /\ Len(board.recent) <= MaxRecent

(***************************************************************************)
(* Through rotations, failures and kills the files hold, from the oldest   *)
(* to the log itself, the newest lines in the order they were written: only*)
(* the oldest go (unless a removal failed, then the order still holds).    *)
(* Each file has its header once, at the start.  And an undisturbed log in *)
(* a directory keeps as many generations as were made, up to keep.         *)
(***************************************************************************)
Kept == IF log.keep = 0 THEN rotations ELSE Min({log.keep, rotations})

\* Line a was written before line b.
WrittenBefore(a, b) == \E m, n \in DOMAIN written : m < n /\ written[m] = a /\ written[n] = b

HeadersFirst == \A g \in DOMAIN files : \A i \in DOMAIN files[g] : files[g][i] = Header <=> i = 1

InOrder ==
  \A g, h \in DOMAIN files : \A i \in DOMAIN files[g], j \in DOMAIN files[h] :
    (g > h \/ (g = h /\ i < j)) /\ Header \notin {files[g][i], files[h][j]} =>
      WrittenBefore(files[g][i], files[h][j])

OnlyOldestGo ==
  "unlink" \notin faults =>
    \A m, n \in DOMAIN written : m < n /\ written[m] \in Lines => written[n] \in Lines

AsManyAsKept ==
  faults = {} /\ log.directory /\ holder = Nobody => DOMAIN files \ {0} = 1..Kept

GenerationsAreNewest ==
  /\ HeadersFirst
  /\ Lines \subseteq ToSet(written) /\ InOrder /\ OnlyOldestGo
  /\ AsManyAsKept

(***************************************************************************)
(* Every response that has ended was recorded once: its line was written   *)
(* (unless the log failed or the process was killed before), and, whatever *)
(* became of the line, it was counted once by the dashboard that runs.     *)
(***************************************************************************)
Ended == (1..answered) \ {number[r] : r \in Requests}
CountedNumbers == {counted[i].number : i \in DOMAIN counted}

RecordedOnce ==
  /\ IsInjective(written) /\ Cardinality(CountedNumbers) = Len(counted)
  /\ "log" \in sinks => Ended \subseteq ToSet(written) \union excused
  /\ ToSet(written) \intersect excused = {}
  /\ "dashboard" \in sinks =>
       \A n \in Ended : n > started => n \in CountedNumbers

(***************************************************************************)
(* What the dashboard serves agrees with what it was told: the counters    *)
(* are the sum over all requests, the ring is the newest; with what was    *)
(* dropped, the buckets add up to the counters.  As long as no record      *)
(* overtook a later one and nothing was dropped, a range holds exactly the *)
(* requests of its buckets; and merging the buckets for a chart loses none *)
(* of them, keeps the order, and gives at most one point over the maximum  *)
(* where no bucket is missing.                                             *)
(***************************************************************************)
\* What was counted, each event a bucket of its own.
Told ==
  [i \in DOMAIN counted |-> [t |-> Aligned(counted[i].now, BucketSecs),
                             c |-> CountersOf(Outcome[counted[i].number])]]

Sorted(buckets) == \A i \in 1..(Len(buckets) - 1) : buckets[i].t < buckets[i + 1].t
Contiguous(buckets) ==
  \A i \in 1..(Len(buckets) - 1) : buckets[i + 1].t = buckets[i].t + BucketSecs

SeriesIsFaithful(buckets) ==
  LET points == SeriesPoints(buckets)
  IN /\ SumOf(points) = SumOf(buckets)
     /\ Sorted(points)
     /\ \A i \in DOMAIN points : points[i].t % Step(buckets) = 0
     /\ Contiguous(buckets) => Len(points) <= MAX_SERIES_POINTS + 1

NothingDropped == SumOf(board.buckets) = board.counters

\* What was counted, as the ring keeps it.
Recent(e) == [ts |-> e.now, record |-> Outcome[e.number]]
RecentIsNewest == board.recent = Newest([i \in DOMAIN counted |-> Recent(counted[i])], MaxRecent)

StatsMatchEvents ==
  /\ board.counters = SumOf(Told)
  /\ RecentIsNewest
  /\ \E n \in 0..Len(Told) :
       /\ SumOf(board.buckets) = SumOf(SubSeq(Told, n + 1, Len(Told)))
       /\ n > 0 => Len(board.buckets) = MAX_BUCKETS
  /\ NothingDropped =>
       WindowCounters(board, clock) = SumAt({t \in Nat : clock - t < WindowSecs}, Told)
  /\ Sorted(board.buckets) =>
       \A s \in 0..MaxClock :
         /\ SeriesIsFaithful(RangeBuckets(board, s))
         /\ NothingDropped => RangeCounters(board, s) = SumAt({t \in Nat : t >= s}, Told)
==================================================================================
