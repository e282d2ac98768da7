# llama-proxy-cache in TLA+

A verification development of llama-proxy-cache (Rust), the proxy that puts
a KV-cache aware slot pool in front of one or more llama.cpp servers.  The
models are translated from the source under `src/`; paths below are relative
to the repository's root.

## 1. The system

| component | source | state it keeps | operations |
|---|---|---|---|
| slot pool | `src/slot_manager.rs` | a one-permit semaphore with a FIFO queue per slot, `last_used`, who holds which guard | `acquire`, `acquire_excluding`, `release` (drop of `SlotGuard`), `save_after`, `mark_used` |
| circuit breaker | `src/slot_manager.rs` | `down_until`, `failure_streak` per backend (atomics) | `pick_filtered`, `report_failure`, `report_success`, `mark_backend_up`, `probe_down_backends` |
| chat pipeline | `src/app.rs` (`run_pipeline`, `retry_after_failure`, `save_big`, reader task) | the guard, the attempt, the restore key of one request | acquire, dispatch, retry, stream, save, release |
| coalescing | `src/coalesce.rs`, `src/app.rs` | map key -> `Flight` (SSE buffer, outcome, `stream_started`, `Notify`) | `enter`, `append_sse`, `mark_stream_started`, `finish`, `forget`, the follower loops |
| backend client | `plugins/src/builtin/llama.rs` | none | `save_slot`, `restore_slot`, `get_model_id`, `chat_stream`, `chat_json` |
| meta cache | `src/hashing.rs`, `src/app.rs` | meta files, KV files | `find_best_restore_candidate`, `write_meta`, `touch_meta`, `prune_meta`, `remove_stale_meta` |
| result cache | `plugins/src/builtin/result_cache.rs` | a JSON file per key with its time | `get`, `put`, cleanup after serving |
| guard | `plugins/src/builtin/qwen_guard.rs` | a bounded cache of decisions | `check`: look up, ask, decide, remember |
| prefilter chain | `plugins/src/builtin/{chain,keyword}.rs` | none | `check`, the first filter that does not accept decides |
| request log | `plugins/src/builtin/request_log.rs` | open file and its size; the numbered generations | `prepare`, `log`, `ensure_open`, `rotate` |
| dashboard | `plugins/src/builtin/dashboard.rs` | counters, buckets, a ring of recent requests | `add_event`, `stats`, `series_points` |
| request records | `src/app.rs` (`request_log_middleware`, `PendingRequestLog`) | the pending record in a response's body | the drop of the body |
| plugin registry | `plugins/src/registry.rs`, `builtin/mod.rs` | the factories by name | `create_*`, `load_*` |
| configuration | `src/config.rs` | set once | `Cli::parse`, `merged_env`, `Config::from_env_map`, `plugin_specs` |
| start-up | `src/main.rs` | set once; the probe loop runs for ever | the stages of `main` |

How they interact.  A chat request passes the prefilters (which may answer it
from the result cache), then coalescing: the first request of a key spawns a
task that runs the pipeline, the others wait on its flight.  The pipeline looks
for a restore candidate among the meta files, acquires a slot (which restores
the KV file), calls the backend, retries once on another backend after a
connection-level failure, saves the KV cache, writes and prunes meta files,
stores the result and releases the slot.  A streamed answer is pumped by a
reader task that owns the slot and ends the flight.  All requests share the
pool's atomics and semaphores, the flight map and the files; a background task
probes backends in cooldown once a second.  Around all routes the record
middleware attaches a pending record to the response's body, and dropping it
writes the log line and then feeds the dashboard.

What is hard.  Picking a slot and taking it are two steps of a multi-threaded
runtime; hyper drops a handler at any await when its client disconnects;
queued waiters time out; failures are reported by several threads while others
pick; followers sleep on a `Notify` that is not remembered; files are rewritten
in place by concurrent requests.  `PROJECT.json` lists these hazards at their
lines with the properties that watch them.

What makes each component correct:

* slot pool: a slot serves one request at a time; no permit leaks; no waiter
  is lost or overtaken, none sleeps beside a free permit; no circular wait;
* breaker: a pick avoids backends in cooldown, and finds a slot if it can;
* pipeline: a saved KV file holds the prompt its key names; a retry goes to
  another backend; slot endpoints are only called where supported; every path
  releases; every request ends;
* coalescing: one backend call per key at a time; every member gets the same
  complete answer; nobody waits for ever; the map is cleaned up;
* meta cache: a prune leaves at most `META_MAX` entries besides newer ones and
  those it could not remove; a KV file loses the entry by which a prune finds it
  only through one of a few accidents; the lookup returns the entry with the
  largest share of common blocks;
* prefilters: nothing a filter blocks gets past it, not even to a cached
  answer; a failed guard call follows its policy; a one-shot answer that was
  served and removed stays gone; an entry lives exactly its time;
* request log and records: every response that has ended is recorded once by
  each sink; files hold the newest lines in order, whatever fails in between;
* dashboard: counters, buckets, ring and chart agree with the events;
* start-up: a proxy that serves has the plugins and backends it was told to
  have, and no other.

## 2. Modules

| module | models | extends / instantiates |
|---|---|---|
| `SlotPool` | abstract: an owner per slot, one slot per request | |
| `SlotManager` | the slot pool with the breaker's effects, under its most general callers | implements `SlotPool` (`PoolKeepsPromise`) |
| `Pipeline` | the requests the code makes of the pool, the content of the slots, dropped handlers | extends `SlotManager`; implements `PoolSpec` (`UsesPoolAsSpecified`) |
| `Breaker` | the breaker one atomic access at a time | |
| `SharedAnswer` | abstract: a group per key, one answer per group | |
| `Coalesce` | flights, leader task, handler, reader and followers | implements `SharedAnswer` (`SharesOneAnswer`) |
| `MetaCache` | meta and KV files under concurrent requests, one system call at a time | |
| `VerdictCache` | the guard's cache of decisions | |
| `Plugins` | what each factory makes of a spec, the registry, the loaders | |
| `Prefilter` | requests in the prefilters, the verdict cache, the cache files | extends `Plugins`, `VerdictCache` |
| `Config` | command line and environment to settings and plugin specs | extends `Plugins` |
| `Startup` | the stages of `main` | extends `Config` |
| `LogFile` | the log's file, its generations, the calls of a rotation | |
| `Board` | the dashboard's numbers | |
| `Records` | pending records of concurrent requests over log and dashboard, kills | extends `LogFile`, `Board` |
| `MC*` | the instances TLC checks | |
| `PipelineProofs` | theorems about the slot pool, and about the pipeline on top of it | `Pipeline` |
| `BreakerProofs` | theorems about the breaker's atomic accesses | `Breaker` |
| `CoalesceProofs` | theorems about coalescing, with its refinement | `Coalesce` |
| `MetaCacheProofs` | theorems about the cache on disk | `MetaCache` |
| `PluginsProofs` | theorems about the loaders: how many plugins they make, and which | `Plugins` |
| `PrefilterProofs` | theorems about the filters, the verdicts and the cached answers | `Prefilter`, `PluginsProofs` |
| `RecordsProofs` | theorems about the records, the dashboard and the log's files | `Records` |
| `StartupProofs` | theorems about the command line and the stages of `main` | `Startup`, `PluginsProofs` |

Correspondence of state and steps.

`SlotManager`: `holder[s]` is the owner of slot `s`'s semaphore permit,
`queue[s]` tokio's FIFO of waiters (a released permit is assigned to the first
waiter, so `available_permits()` stays 0: `DropPermit`).  `last_used` is the
rank of the timestamp, since the code only compares timestamps; 0 is "never".
`down[b]` is the time left to `down_until`.  `Acquire` is the pick
(`pick_for_acquire`, `acquire_excluding`), `Enter` the first poll of
`acquire_owned`, `RestoreDone` the answer to `restore_slot`, `Timeout` the
elapsed `acquire_timeout`, `Abandon` a dropped future, `GiveBack` the report,
the `mark_used` and the drop of the guard, which the code does without an await
in between.  `ProbeStart`/`ProbeAnswer` are the two sides of the probe's await.
A pick and a report are single steps here; `Breaker` takes them apart.

`Pipeline`: `phase[r]` says which await of `run_pipeline` or of the reader task
request `r` is at; `kv[s]` whose prompt the llama.cpp slot holds.  Everything
between two awaits is one action.  The failed attempt's release and the next
pick are two actions (`ChatFailed`, `Retry`), since other threads pick in
between.  `Cancelled` is the dropped handler; it exists only when coalescing is
off (`Inline`), because otherwise the pipeline is a task of its own.
`StreamRefused` needs a backend plugin other than `llama.rs`.

`Breaker`: `pc[c]` is the thread's next atomic access.  The history variables
`always_up` and `always_down` record which backends were up (down) during the
whole of a pick.

`Coalesce`: `work[f]` is how far whoever drives flight `f` has come (the task,
then the handler or the reader), `at[c]` the place in a follower's loop,
`notified[c]` whether the `Notified` the follower has created has fired.
`Publish`, `Wake` and `Forget` are the three effects of `finish` and `forget`.
A follower's drain and the send of what it drained are one step: a follower
that does not read delays only itself.

`MetaCache`: `at[r]` is the next file operation of request `r`, `meta[k]` the
content of the meta file of key `k` (no file, a torn one, or its timestamp),
`kv` the keys with a KV file.  A rewrite is `Open` (truncate or create) and
`Fill` (write); `linked[r]` tells whether the file that `r` has open still has a
name, since a write to an unlinked file is lost.  `prune_meta` is `List`, a
`Read` per file and a `RemoveMeta` per victim, `prune_cache` goes on with an
`UnlinkKv` per key.  Ties between equal timestamps are left open (the code looks
at mtimes and names).

Each of these calls may fail, and what the code does then is an action of its
own: `GiveUp` (a touch or a discard ends with a warning, a prune that cannot list
the directory with nothing), `TouchFillFails`, `WriteOpenFails` and
`WriteFillFails` (`save_big` answers 500, the reader warns, and neither prunes),
`RemoveMetaFails` and `UnlinkKvFails` (the prune goes on with the next key).  A
write that fails leaves the file as it was after the truncation, or a part of the
text; a file that a prune cannot read counts as oldest, like one that is torn.

`since` records the entries that a prune does not answer for: those created after
it listed the directory, and those it could not remove.  `strays` are the KV files
that an accident has left without an entry: a save whose meta file was not written
(a lost answer, a dropped handler, a failed write), a KV file that a prune could
not unlink after its entry, an entry discarded while its file was being saved, a
restart.  The code does nothing about them, so they stay for ever.

`Plugins`, `Config`: operators; `LoadPrefilters(specs)` gives an outcome and
what was made, so `Prefilter` starts with the filters a spec list makes and
`Startup` with the list that the settings make.  Texts are opaque: the parsers
(`parse::<T>`, `serde_json`, `split(',')`, `trim`, lower case) are CONSTANTS,
tables from a text to what it stands for, so the code's decisions on them are
modelled and the grammars are not.  A duration keeps its class (finite, negative,
infinite, too large), a port its 16 bits.

`Prefilter`: `at[r]` is the next file operation or await of request `r`,
`pos[r]` the filter it is at; `entry[k]` is the file of key `k`, `got[r]` what
`r` has read of it or will store.  Reading an entry and removing it are two
steps, so are taking the time of an answer and its rename into place.  The
pipeline behind the prefilter is reduced to the answer it gets and whether that
is stored.  `given`, `letBy` and `spent` are history.  A restart keeps the files
and may come with another list.

`Records`: `at[r]` is where request `r` is between arrival and the end of the
drop of its pending record, `number[r]` the number of the record, which is also
its line.  `holder` has the log's mutex during a rotation, `todo` the system
calls that are left of it.  `ReadClock` and `Count` are the two halves of
`record_now`.  `Kill` stops the process anywhere; the files are what is left.
The order of a rotation (`Rotations`) is any list of its tasks that removes first
and takes the highest generation first, which is the one order the code makes.

`Startup`: `pc` is the stage of `main`; `Settings` are the command lines and
environments to try.

## 3. Runs

| run | instance | question | distinct states |
|---|---|---|---|
| `slot_pool` | 3 requests, 3 slots on 2 backends, one with kv_cache | is the pool safe whatever its callers do | 673 632 |
| `pipeline` | 3 requests, 2 slots on 2 backends, dropped handlers | does every path of the pipeline use the pool rightly | 255 709 |
| `pipeline_fair` | 2 requests, coalescing on | does every wait and every request end | 43 632 |
| `coalesce` | 3 clients, one key, 2 chunks | do all members get the one answer | 176 122 |
| `coalesce_fair` | 2 clients, 2 chunks | is every follower served, every flight removed | 8 444 |
| `meta_cache` | 2 requests, 4 keys of 2 models, `META_MAX` 1 | does the cache stay bounded and tidy when requests race and file calls fail | 5 475 724 |
| `breaker` | 2 callers and the prober, 2 backends | do torn reads and writes mislead a pick | 947 313 |
| `startup` | all pairs of variables from a table of texts, all plugin lists of it, command lines | does the proxy that serves have what it was told to have | 13 553 |
| `prefilter` | 2 requests, 2 keys, 2 plugin lists, 2 answers | do blocked, spent and expired things stay out | 1 333 087 |
| `records` | 2 requests, 4 records, 4 logs | is each response recorded once, are files and numbers right | 788 745 |

Two runs show a disagreement between the code and what it says of itself;
`PROJECT.json` quotes the lines under "findings":

* `coalesce_stranded`: a leader whose client disconnects before a result that
  is no stream strands its followers, and all later requests with its key;
* `breaker_panic`: a failure reported between the two loads of `down_until`
  makes `pick` find no slot and panic.

Noted while modelling, as behaviour the models have and no property denies:

* A touch of a meta file that races a prune creates it anew, without its KV
  file, although src/src/app.rs:1462-1463 calls that "a no-op with a warning".
* A waiter is bound to the slot it picked and can time out with "all slots busy"
  (src/src/app.rs:875) while another slot is idle.
* With every backend in cooldown the retry goes to one of them, although
  src/src/app.rs:1520-1522 says it is given up.
* A request log whose path has no directory, such as the default
  `lpcache-request.log`, lists the empty path when it rotates and sees no
  generation: `.1` is replaced each time, although
  src/plugins/src/builtin/request_log.rs:31-34 says that generations shift up.
* A client that leaves while the handler still runs leaves no record, although
  src/plugins/src/api.rs:546-549 promises one for a disconnect.
* Two requests that miss the guard's cache together queue the key twice, so the
  queue of the "Bounded LRU" (src/plugins/src/builtin/qwen_guard.rs:311) is not
  bounded by its cap, and a verdict can be evicted under a newer copy of it.
* A chart of merged buckets can have more than `MAX_SERIES_POINTS` points: one
  more when the first bucket is not at a multiple of the step, and up to one per
  bucket when the buckets have gaps, since the step is computed from their
  number; src/plugins/src/builtin/dashboard.rs:27-29 and :483 promise the maximum.
* The dashboard's clock is read before its lock is taken: a record that is
  overtaken goes to a bucket of its own behind a newer one, and the binary
  search of a range (dashboard.rs:537) then looks at unsorted buckets.
* A stream that the upstream breaks off is stored in the result cache.
* With `remove_after_serve` an answer can be served more than once: all requests
  that look it up before the first of them removes the file are served it, and if
  the removal fails, later ones as well.
  src/plugins/src/builtin/result_cache.rs:29 says of the one-shot cache that "each
  result is served at most once", and :200-202 the same of `RemoveAfterServe`.
  `SpentIsGone` claims only what holds after a removal that succeeded.
* That removal, and that of an expired entry, go by name
  (src/plugins/src/builtin/result_cache.rs:214 and :147): they may take a newer
  answer, stored meanwhile, that nobody was served.

Bounds and why they are enough.  Three requests are the fewest with a holder
and two waiters on one slot, which queue order and removal from the middle
need, and two slots per backend the fewest for a choice within a backend.  Two
backends, one without kv_cache, give the retry a place to go and the restore
key something to lose.  `MaxCooldown` 2 and `StreakCap` 2 let the cooldown
double and reach its cap; in the pipeline a cooldown of one unit suffices,
because only "in cooldown or not" matters there.  `SaveRetries` 1 has a first
and a last attempt.  The pipeline's workload is the two kinds of requests that
between them take every path: a big JSON request with a restore candidate and a
small stream (a stream saves whatever its size).  Two chunks are the fewest
with one drained before and one after another step.  Three clients are a
leader, a follower and one that arrives when the flight is ending or over.
Flights of different keys share only the map, which is accessed per key, so the
instances use one key.  `MaxTime` 1 in `Breaker` lets every cooldown expire
once.  In `MetaCache` two requests race for each other's entry, a third key may
be there from the start, and the fourth belongs to another model; with
`META_MAX` 1 every second entry is pruned.  In `Prefilter` one text has a
blocked word and a verdict either way, the other is clean; one list puts a guard
before a one-shot cache, the other a cache with an expiry of one second before a
keyword filter and a guard; a clock of 2 passes that expiry; two answers tell a
stored one from its successor.  The guard's cache holds one verdict, because a
larger one lets its queue grow without end (see above).  In `Records` four records
with a limit of one line make three rotations, so that `keep` 2 drops a
generation; two buckets of one second and one point per chart reach each bound
of the dashboard.  `Startup` needs no more than pairs, since no decision of the
code reads more than two settings at once except `plugin_specs`, for which
`PLUGINS` is tried together with the three older settings.  Requests (and
callers, clients) are interchangeable, hence the symmetry sets in the safety
runs; the liveness runs use none.

Deadlock is checked in `SlotManager`, `Pipeline`, `Breaker`, `Prefilter` and
`Records`.  `Startup` ends, so the check is off there.  In `Coalesce`
and `MetaCache` a client asks once, so the system stops when all have been
answered, and the check is off.

Fairness.  `Pipeline!FairSpec`: each request's own steps are weakly fair,
since reqwest's timeout ends every backend call and `acquire_timeout` every
wait for a permit.  `StreamEnded` is not fair: the reader waits in `tx.send`
for a client that may neither read nor leave; the properties hold without it.
`Coalesce!FairSpec`: the runtime polls every task that can go on, backend calls
end, and a leader's client reads or leaves.  Arrivals, disconnects and reports
are never fair.  `Prefilter`, `Records` and `Startup` have safety properties only.

## 4. Proofs

The theorems hold for every value of the constants that satisfies the named
assumptions: any numbers of requests, slots, backends, clients, keys and chunks,
any workload and any bound.  Each component has one inductive invariant; the
properties of the runs follow from it.  TLC checked each of these invariants on
the component's instance before it was proved.

**Slot pool** (`PipelineProofs`, from `PoolAssumption` and
`CooldownAssumption`).  `PoolInv` is types, `SlotKnown` (a request knows a slot
exactly while it uses the pool), `PermitOwned`, `WaitersQueued` and `NoIdleWait`.
`PermitOwned` is not inductive by itself: that the head of a queue may be given
the permit needs `WaitersQueued` (it waits, for this slot, and is in no other
queue), and that `Enter` leaves no waiter beside a free permit needs
`NoIdleWait`.

| theorem | shows |
|---|---|
| `PoolTypeCorrect` | `TypeOK` |
| `PermitsExclusive`, `WaitersKept`, `NoPermitIdle`, `OnePermitEach` | the invariants `PermitOwned`, `WaitersQueued`, `NoIdleWait`, `OneSlotPerRequest` |
| `PermitsInArrivalOrder` | the action property `FifoHandover` |
| `PoolRefinement` | the pool implements `SlotPool` |
| `RanksStandForTimes` | the ranks that stand for `last_used` timestamps are distinct and dense from the top |
| `PoolFailsOpen` | a pick that excludes no backend finds exactly one slot |

`RanksStandForTimes` justifies an abstraction of the model: `MarkUsed` lets every
rank sink by one, and the lowest falls out at 0, "never used".  That loses nothing
because no slot has rank 1 while another one is unused.

**Pipeline** (`PipelineProofs`, from `PipelineAssumption` and those of the pool).
`PipelineInv` is the pool's invariant, the ranks, types, and `RequestOK`: what a
request relies on at each await.  `PipelineUsesPool` shows that every step of the
pipeline is one of the pool's steps or leaves the pool alone
(`UsesPoolAsSpecified`), so that `PipelineKeepsPromise` carries the pool's
theorems over.  `SavedPromptIsOwn` (`SavesOwnPrompt`) rests on that: from the chat
to the last answer of the save, the slot has one owner.  `RetryAvoidsFailed`,
`SlotCallsOnlyWithKv`, `PhasesMatchPool` and `PipelineTypeCorrect` are the other
invariants, `FailedSlotYields` the action property `FailureYieldsSlot`, which
needs the ranks.

**Breaker** (`BreakerProofs`, from `BreakerAssumption`).  `CallerOK` says, for a
thread between any two of its atomic accesses, what it has learnt of the backends
that stayed up, or down, during the whole of its pick: those it has passed while
looking for an up backend were not up throughout; once it selects, `any_up` and
the eligible slots are right about them.  From it `DownIsAvoided`, `UpIsFound` and
`AllDownFailsOpen` (`PickAvoidsDown`, `PickFindsUp`, `PickFailsOpen`).

**Coalescing** (`CoalesceProofs`, from `CoalesceAssumption`).  `CoalesceInv`:
who leads and who follows (`RolesOK`), that the map has exactly the flights that
are not over (`MapOK`), what a flight's outcome is made of (`FlightOK`), and what
a follower may rely on while its `Notified` has not fired (`FollowerOK`).
`NoLostWakeup` needs the last for every place of the follower's loop and not only
where it sleeps.  `OneCallAtATime` and `WakeupsReach` follow, and
`CoalesceKeepsPromise`: coalescing implements `SharedAnswer`, under the mapping in
`Coalesce`.

**Meta cache** (`MetaCacheProofs`, from `MetaAssumption`; the keys are finitely
many, as the files of a directory are).  A prune under way accounts for
every entry that is not new since it listed the directory (`PruneOK`): still to be
read, read, about to be removed, or one of at most `META_MAX` to stay.  That the
first of these covers an entry another request recreated meanwhile is what
`since` is for.  A victim that could not be removed goes there
as well.  `PruneIsBounded` and `NoKvForgotten` (`PruneBounds`, `KvAccounted`) hold
between any two file operations of any number of requests, whichever of the calls
fail.  `NoKvForgotten` says that somebody is at work on every KV file without an
entry, or that one of the accidents has made it a stray (section 2).
`CandidateIsTheBest` (`CandidateIsBest`) holds for any block sequences and any
order in which the directory lists the files; the hash of a block is a number.

A fold computes by recursion over sets of places, which exists by a choice; what
it returns is shown here, and in the dashboard's proofs, by the least number of
places at which it would be otherwise, as a set of naturals has a smallest
element.

**Prefilters** (`PrefilterProofs`, from `PrefilterAssumption` and
`ListsAssumption`: the plugin lists load, as `main` exits otherwise, with one
guard at most and expiries that are not negative; they are lists, and so are
those of their chains). That what a list loads is a sequence is `LoadedIsSeq`, of
`PluginsProofs`. `PrefilterInv`: the guard's cache holds only
decisions of the guard, each with its place in the queue, even when a key was
put twice (`VerdictsOK`); the filters behind a request let it through
(`RequestOK`); an answer is in one place (`AnswersOK`). `FailsClosedAlways` is
the first two. `SpentStaysGone` (`SpentIsGone`) is not inductive: that a rename never
brings a spent answer back needs that an answer which is stamped and not yet
stored is in no file, not spent and in nobody else's hands, and that one under
cleanup is in no file but its own. `ExpiryIsExact` (`TtlExact`) needs that a
request which is about to remove an entry has read a corrupt one or one that is
too old, which stays so because the clock only grows.

**Records and dashboard** (`RecordsProofs`, from `RecordsAssumption` and
`BoardAssumption`).  `RequestsInv` ties each number to one pending record, one
line or excuse, and one count; from it `EachRecordedOnce` (`RecordedOnce`).
`HolderOK` says that the mutex is held by the request that rotates, and by nobody
where no log is loaded, which the step of a `Kill` needs.  `BoardInvariant` shows that the buckets keep
their bound, the ring is the newest of what was counted, and the total counts each
record under one status.

`StatsAgree` (`StatsMatchEvents`) rests on `SumsMatch`, which relates the buckets to
the sequence of events, each event a bucket of its own: what the buckets from any
place on add up to is what the events from some place on add up to, so that it
stays true when the oldest bucket goes; no bucket is empty, so that a bucket that
went shows in the totals, and where they agree every time has its events in its
buckets.  Sums over a range and over a window follow from the last, over what is
left from the first.  That a chart loses no request, keeps the order and has at
most one point over the maximum is `ChartIsFaithful`, for any sorted buckets at
multiples of the bucket size: the points begin at the aligned time of the first
bucket, end at that of the last, and lie a step apart at least.

**Log files** (`RecordsProofs`, from `LogFileAssumption` as well).  `LogInv`
describes the files in the midst of a rotation, after failed calls and after
kills: what is still to be moved has room above it or pushes something that will
have moved before (`RoomAbove`), what is removed is the oldest that is left
(`RemovesOldest`), and in an undisturbed rotation there is one hole that moves
down (`HoleMovesDown`).  `GenerationsStayNewest` (`GenerationsAreNewest`) follows:
no order is broken and only the oldest lines are dropped, whatever fails.
`RecordsTypeCorrect` needs the invariants of requests, dashboard and files.

**Loaders** (`PluginsProofs`, without assumptions on the constants).  The
flattening of lists is a recursive function; that it exists, and that its values
are the ones it computes, is shown by a least length at which they would not be
(`FlattenExists`, `FlattenIsSeq`).  `OnlyOneGives` is what `load_logger` and
`load_dashboard` have in common: an adapter only if all specs were made into one
adapter at most, which is then the one that was made.

**Start-up** (`StartupProofs`, from `ConfigAssumption` and `SettingsAssumption`:
what parses to an array is a list, and so is a command line).
`ParseReads` shows that the parse of the command line, a recursive function of
the place in it, has the value its equation says: for any number of arguments
it exists, by counting down from the end, and is the only one.  From it: the
settings of a parse are those that some argument sets, and options go before the
environment.  `ListKinds` shows for any list of specs, chains included, that the
kinds of the filters made of it are those of its filter specs, in order.
`StartupInv` is what each stage of `main` has behind it: settings that parsed
(`SettingsInv`), loaders that succeeded and what they made (`PluginsInv`), and a
client at its place for each backend that has been passed (`ClientsInv`).  It is
needed because `ServesAsConfigured` speaks of the last stage only, where nothing
shows any more that each loader had accepted its specs.

| theorem | shows |
|---|---|
| `StartupTypeCorrect` | `StartupTypeOK` |
| `ServesAsTold` | `ServesAsConfigured`: the filters of `PLUGINS` in order, or else those of the older settings; one log with its path, a dashboard if and only if one is listed, a client per backend at its place, options before the environment |

Some operators of the library have no definition the prover can use (`@@` and
`:>` of TLC, `SelectSeq`), so the models say the same with functions (`Over`),
`Min` and `FlattenSeq`.

Only model-checked: liveness (`WaitersAnswered`, `RequestsEnd`,
`FollowersServed`, `KeysReleased`), since properties under fairness need ENABLED,
which the prover does not handle.  Every other property of the passing runs is the
statement of a theorem.

## 5. Not modelled

Prompt text, hashing, HTTP bodies and logging are data the properties do not
tell apart.  So are the guard's prompt and the parsing of its model's text, the
conversion between SSE and JSON answers, the rendering of log fields, of the
dashboard's page and of its JSON, rates and averages.  Mock backend, load test and
tests are test doubles; api.rs declares traits.

`MetaCache` takes the slot-save directories for one that the host sees, all
entries for entries of one `wpb`, and the scan of a lookup for one step.  That
scan does not fail, nor does the look whether a KV file exists; a directory is
listed as a whole or not at all.  `META_MAX` 0, which turns pruning off, is left
out.
`Plugins` has no chain within a chain, `Prefilter` one guard in a list and one
cache directory.  `LogFile` counts lines for bytes, and a write that fails writes
nothing.  `Records` fixes what the n-th record says, and its clock never goes
back.  The numbers that only tune the pipeline (words per block, thresholds) are
CONSTANTS of its modules and not in `Config`.  Shutdown loses nothing the system
promises to keep: the caches on disk are read back by name, and no state but the
files survives.

## 6. Plan

Done: `SlotPool`, `SlotManager`, `Pipeline`, `Breaker`, `SharedAnswer`,
`Coalesce`, `MetaCache`, in this order, because slots and groups are shared by
all requests; then `Plugins`, `VerdictCache`, `Prefilter`, `LogFile`, `Board`,
`Records`, `Config` and `Startup`; then the proofs of every component.

Left: the hazards that `PROJECT.json` lists without a property.  The models have
these behaviours, and each has a note there that says why no property is about
it.  Most are choices of the code about which no document promises anything; a
property would have to come from a decision about the code first.
