---------------------------------- MODULE Board ----------------------------------
(***************************************************************************)
(* What the dashboard plugin keeps of the finished requests and serves     *)
(* (src/plugins/src/builtin/dashboard.rs): lifetime counters, time-series  *)
(* buckets, a ring of recent requests.  Each operation runs under one lock.*)
(*                                                                         *)
(* A record is reduced to its status, whether it was a cache hit, and its  *)
(* completion tokens; the other flags, sums and tokens are counted as the  *)
(* last two are.  Rates and averages are quotients of what is here.        *)
(***************************************************************************)
EXTENDS SequencesExt, Integers

CONSTANTS
  MAX_BUCKETS, MAX_SERIES_POINTS,
  BucketSecs, WindowSecs, MaxRecent

ASSUME BoardAssumption ==
  /\ MAX_BUCKETS \in Nat \ {0} /\ MAX_SERIES_POINTS \in Nat \ {0}
  /\ BucketSecs \in Nat \ {0} /\ WindowSecs \in Nat \ {0} /\ MaxRecent \in Nat

\* Counters.
ZeroCounters ==
  [total |-> 0, ok |-> 0, client_errors |-> 0, server_errors |-> 0,
   cache_hits |-> 0, completion_tokens |-> 0]

OneIf(b) == IF b THEN 1 ELSE 0
Plus(c, d) == [f \in DOMAIN c |-> c[f] + d[f]]

CountersOf(record) ==
  [total |-> 1,
   ok |-> OneIf(record.status \in 200..399),
   client_errors |-> OneIf(record.status \in 400..499),
   server_errors |-> OneIf(record.status \notin 200..499),
   cache_hits |-> OneIf(record.cache_hit),
   completion_tokens |-> record.completion_tokens]

\* The counters of the buckets at certain times, and of all buckets.
SumAt(times, buckets) ==
  FoldLeft(LAMBDA c, b : IF b.t \in times THEN Plus(c, b.c) ELSE c, ZeroCounters, buckets)
SumOf(buckets) == SumAt(Nat, buckets)

NewBoard == [counters |-> ZeroCounters, buckets |-> <<>>, recent |-> <<>>]

Newest(s, n) == SubSeq(s, IF Len(s) > n THEN Len(s) - n + 1 ELSE 1, Len(s))

Aligned(t, step) == (t \div step) * step

\* A bucket's counters go to the last bucket if that is its own, else to a new one.
InLast(buckets, t) == buckets # <<>> /\ Last(buckets).t = t

\* Mutant of AddTo: a new bucket starts empty.
AddToOpen(buckets, t, c) ==
  IF InLast(buckets, t)
  THEN [buckets EXCEPT ![Len(buckets)].c = Plus(@, c)]
  ELSE Append(buckets, [t |-> t, c |-> ZeroCounters])

AddTo(buckets, t, c) ==
  IF InLast(buckets, t)
  THEN [buckets EXCEPT ![Len(buckets)].c = Plus(@, c)]
  ELSE Append(buckets, [t |-> t, c |-> c])

\* add_event.
AddEvent(board, now, record) ==
  [counters |-> Plus(board.counters, CountersOf(record)),
   buckets |-> Newest(AddTo(board.buckets, Aligned(now, BucketSecs), CountersOf(record)),
                      MAX_BUCKETS),
   recent |-> Newest(Append(board.recent, [ts |-> now, record |-> record]), MaxRecent)]

\* partition_point, on buckets that are sorted.
Before(buckets, s) == Cardinality({i \in DOMAIN buckets : buckets[i].t < s})

\* The answer to ?since=s: the range's buckets and its counters.
RangeBuckets(board, s) == SubSeq(board.buckets, Before(board.buckets, s) + 1, Len(board.buckets))
RangeCounters(board, s) ==
  IF Before(board.buckets, s) = 0 THEN board.counters ELSE SumOf(RangeBuckets(board, s))

\* series_points: merged into steps of a multiple of the bucket size.
DivCeil(a, b) == (a + b - 1) \div b
Step(buckets) ==
  IF Len(buckets) <= MAX_SERIES_POINTS
  THEN BucketSecs
  ELSE BucketSecs * DivCeil(Len(buckets), MAX_SERIES_POINTS)
SeriesPoints(buckets) ==
  IF Len(buckets) <= MAX_SERIES_POINTS
  THEN buckets
  ELSE FoldLeft(LAMBDA merged, b : AddTo(merged, Aligned(b.t, Step(buckets)), b.c), <<>>, buckets)

\* The answer without since: the requests in the buckets of the trailing window.
InWindow(now) == {t \in Nat : (IF now > t THEN now - t ELSE 0) < WindowSecs}
WindowCounters(board, now) == SumAt(InWindow(now), board.buckets)
==================================================================================
