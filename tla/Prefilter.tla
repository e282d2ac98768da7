------------------------------- MODULE Prefilter -------------------------------
(***************************************************************************)
(* The prefilter of chat (src/src/app.rs) with its built-in filters:       *)
(* keyword, qwen_guard with its verdict cache, result_cache with its files,*)
(* and chains of them; then what the pipeline stores when it is done.      *)
(*                                                                         *)
(* A request walks the list of leaf filters that Plugins makes of a list   *)
(* of specs.  An await (the guard's HTTP call) and each file operation of  *)
(* the result cache is a step of its own; the verdict cache is locked.     *)
(* The pipeline behind the prefilter is the answer it gets and what the    *)
(* store is asked to keep.  A restart keeps the files and may change the   *)
(* plugins.                                                                *)
(*                                                                         *)
(* A key stands for the text of its messages; the guard may judge one text *)
(* differently each time.  Answers are numbered to tell them apart.        *)
(* Bounds: one guard in a list; one cache directory; MaxClock; MaxAnswers. *)
(***************************************************************************)
EXTENDS Plugins, VerdictCache

CONSTANTS
  Requests,    \* concurrent requests; each may be followed by another
  Keys,        \* cache keys
  WordsOf,     \* the words of each key's text; none for an empty text
  VerdictsOf,  \* the verdicts the guard model may give on a key
  Lists,       \* the plugin lists the proxy may be started with
  Workload,    \* the requests that may come: key, stream, no-cache
  OldFiles,    \* keys that may have a corrupt file at the start
  MaxClock,    \* bound on the wall clock, in seconds
  MaxAnswers   \* bound on the backend answers stored

Loaded(list) == LoadPrefilters(list).made

ASSUME PrefilterAssumption ==
  /\ Workload \subseteq [key : Keys, stream : BOOLEAN, noCache : BOOLEAN]
  /\ OldFiles \subseteq Keys
  /\ MaxClock \in Nat /\ MaxAnswers \in Nat

\* Lists are lists, and those of chains are; they load, with one guard at most; an
\* expiry is not negative.
ASSUME ListsAssumption ==
  \A list \in Lists :
    /\ list \in Seq(ToSet(list))
    /\ \A i \in DOMAIN list :
         list[i].name = "chain" /\ "filters" \in DOMAIN list[i].params =>
           list[i].params.filters \in Seq(ToSet(list[i].params.filters))
    /\ LoadPrefilters(list).out = "ok"
    /\ \A i, j \in DOMAIN Loaded(list) :
         Loaded(list)[i].kind = "qwen_guard" /\ Loaded(list)[j].kind = "qwen_guard" => i = j
    /\ \A i \in DOMAIN Loaded(list) :
         Loaded(list)[i].kind = "result_cache" => Loaded(list)[i].ttl \in Nat

VARIABLES
  filters,   \* the leaf filters, in order
  verdicts,  \* the guard's verdict cache
  entry,     \* each key's file: NoEntry, Corrupt, or an answer with its time
  clock,     \* the wall clock
  answers,   \* how many answers have been numbered
  at,        \* where each request is
  asked,     \* what it asks, while it is here
  pos,       \* the filter it is at
  got,       \* the entry it read, or is about to store
  letBy,       \* history: how the guard let it through
  given,     \* history: the guard's decisions on each key since the start
  spent      \* history: the answers served and removed since the start

requestVars == <<at, asked, pos, got, letBy>>
historyVars == <<given, spent>>
vars == <<filters, verdicts, entry, clock, answers, requestVars, historyVars>>

NoEntry == [id |-> 0, at |-> 0]
Corrupt == [id |-> -1, at |-> 0]
NoRequest == [key |-> CHOOSE k \in Keys : TRUE, stream |-> FALSE, noCache |-> FALSE]
KeyOf(r) == asked[r].key
TextOf(r) == WordsOf[KeyOf(r)]
Filter(r) == filters[pos[r]]
Decided == {"rejected", "served", "forwarded", "stamped", "done"}

GuardCap(list) ==
  LET guards == {i \in DOMAIN list : list[i].kind = "qwen_guard"}
  IN IF guards = {} THEN 0 ELSE list[Min(guards)].cap

All(value) == [r \in Requests |-> value]

Init ==
  /\ \E list \in Lists : /\ filters = Loaded(list)
                         /\ verdicts = NewCache(GuardCap(Loaded(list)))
  /\ at = All("done") /\ asked = All(NoRequest) /\ pos = All(1)
  /\ got = All(NoEntry) /\ letBy = All("no")
  /\ given = {} /\ spent = {}
  /\ \E old \in SUBSET OldFiles :
       entry = [k \in Keys |-> IF k \in old THEN Corrupt ELSE NoEntry]
  /\ clock = 0
  /\ answers = 0
--------------------------------------------------------------------------------
Move(r, place) == at' = [at EXCEPT ![r] = place]
Forget(r) == got' = [got EXCEPT ![r] = NoEntry]

\* The request's own answer, or none; what is kept of it is for the properties.
Decide(r, decision) == Move(r, decision) /\ UNCHANGED pos
End(r) == /\ Move(r, "done") /\ Forget(r)
          /\ asked' = [asked EXCEPT ![r] = NoRequest]
          /\ pos' = [pos EXCEPT ![r] = 1]
          /\ letBy' = [letBy EXCEPT ![r] = "no"]

\* This filter accepts: the next one, or the pipeline after the last.
Pass(r) ==
  IF pos[r] = Len(filters)
  THEN Decide(r, "forwarded")
  ELSE pos' = [pos EXCEPT ![r] = @ + 1] /\ Move(r, "check")

Arrive(r, request) ==
  /\ at[r] = "done"
  /\ asked' = [asked EXCEPT ![r] = request]
  /\ Move(r, IF filters = <<>> THEN "forwarded" ELSE "check")
  /\ UNCHANGED <<filters, verdicts, entry, clock, answers, pos, got, letBy, historyVars>>

\* The client has its answer.
Leave(r) ==
  /\ at[r] \in {"rejected", "served"}
  /\ End(r)
  /\ UNCHANGED <<filters, verdicts, entry, clock, answers, historyVars>>

At(r, kind) == at[r] = "check" /\ Filter(r).kind = kind

(***************************************************************************)
(* keyword.                                                                *)
(***************************************************************************)
FirstMatch(f, text) == \E w \in text : (IF f.ci THEN Lower(w) ELSE w) \in f.words

CheckKeyword(r) ==
  /\ At(r, "keyword")
  /\ IF FirstMatch(Filter(r), TextOf(r)) THEN Decide(r, "rejected") ELSE Pass(r)
  /\ UNCHANGED <<filters, verdicts, entry, clock, answers, asked, got, letBy, historyVars>>

(***************************************************************************)
(* qwen_guard: the cached decision, or a call.                             *)
(***************************************************************************)
Apply(r, decision) == IF decision = "accept" THEN Pass(r) ELSE Decide(r, "rejected")

LookUpVerdict(r) ==
  LET k == KeyOf(r)
  IN /\ At(r, "qwen_guard")
     /\ IF TextOf(r) = {} THEN Pass(r) /\ UNCHANGED <<verdicts, letBy>>
        ELSE /\ verdicts' = Used(verdicts, k)
             /\ IF Hit(verdicts, k)
                THEN Apply(r, verdicts.map[k]) /\ letBy' = [letBy EXCEPT ![r] = "verdict"]
                ELSE Move(r, "guard") /\ UNCHANGED <<pos, letBy>>
     /\ UNCHANGED <<filters, entry, clock, answers, asked, got, historyVars>>

\* decide: the level first, then the categories.
Judge(verdict, f) ==
  IF verdict.level \in f.levels \/ verdict.categories \cap f.categories # {}
  THEN "reject" ELSE "accept"

\* A reply of the guard's server: JSON or not (no reply at all is none), with
\* a 2xx status or not, with a verdict found in it or not.
Replies(k) ==
  [json : BOOLEAN, success : BOOLEAN, verdict : {<<>>}]
  \cup [json : {TRUE}, success : {TRUE}, verdict : {<<v>> : v \in VerdictsOf[k]}]
FailedCheck(reply) == ~ reply.json \/ ~ reply.success
WhatHappened(reply) ==
  IF FailedCheck(reply) THEN "error" ELSE IF reply.verdict = <<>> THEN "unparseable" ELSE "verdict"

\* Mutant of Reading: an error status is overlooked when its body is JSON.
ReadingOfBody(reply) ==
  IF ~ reply.json THEN "error"
  ELSE IF ~ reply.success \/ reply.verdict = <<>> THEN "unparseable"
  ELSE "verdict"

Reading(reply) ==
  IF FailedCheck(reply) THEN "error"
  ELSE IF reply.verdict = <<>> THEN "unparseable"
  ELSE "verdict"

\* finish, or decide and put: only what the guard decided is remembered.
GuardReplies(r, reply) ==
  LET k == KeyOf(r)
      f == Filter(r)
      decision == CASE Reading(reply) = "error" -> f.onError
                    [] Reading(reply) = "unparseable" -> f.onUnparseable
                    [] Reading(reply) = "verdict" -> Judge(reply.verdict[1], f)
  IN /\ at[r] = "guard"
     /\ Apply(r, decision)
     /\ verdicts' = IF Reading(reply) = "verdict" /\ f.cap > 0
                    THEN Put(verdicts, k, decision) ELSE verdicts
     /\ letBy' = [letBy EXCEPT ![r] = WhatHappened(reply)]
     /\ given' = IF WhatHappened(reply) = "verdict"
                 THEN given \cup {<<k, Judge(reply.verdict[1], f)>>} ELSE given
     /\ UNCHANGED <<filters, entry, clock, answers, asked, got, spent>>

\* The client goes away while the guard is asked: the handler is dropped.
Dropped(r) ==
  /\ at[r] = "guard"
  /\ End(r)
  /\ UNCHANGED <<filters, verdicts, entry, clock, answers, historyVars>>

(***************************************************************************)
(* result_cache.                                                           *)
(***************************************************************************)
PassesBy(r) ==
  \/ Filter(r).noCache /\ asked[r].noCache
  \/ asked[r].stream /\ ~ Filter(r).streams

\* Mutant of Expired: an entry of exactly the expiry age is gone.
ExpiredEarly(e, ttl) == ttl > 0 /\ clock - e.at >= ttl

Expired(e, ttl) == ttl > 0 /\ clock - e.at > ttl

\* ResultCache::get: read, then remove what is corrupt or too old.
ReadEntry(r) ==
  LET e == entry[KeyOf(r)]
  IN /\ At(r, "result_cache")
     /\ IF PassesBy(r) \/ e = NoEntry THEN Pass(r) /\ UNCHANGED got
        ELSE /\ got' = [got EXCEPT ![r] = e]
             /\ UNCHANGED pos
             /\ Move(r, IF e = Corrupt \/ Expired(e, Filter(r).ttl) THEN "expired"
                        ELSE IF Filter(r).oneShot THEN "cleanup"
                        ELSE "serve")
     /\ UNCHANGED <<filters, verdicts, entry, clock, answers, asked, letBy, historyVars>>

RemoveEntry(r, succeeds) ==
  entry' = IF succeeds THEN [entry EXCEPT ![KeyOf(r)] = NoEntry] ELSE entry

RemoveExpired(r, succeeds) ==
  /\ at[r] = "expired"
  /\ RemoveEntry(r, succeeds)
  /\ Pass(r)
  /\ Forget(r)
  /\ UNCHANGED <<filters, verdicts, clock, answers, asked, letBy, historyVars>>

\* One request's cleanup and answer; its own answer is spent with its file.
CleanUp(r, succeeds) ==
  /\ at[r] = "cleanup"
  /\ RemoveEntry(r, succeeds)
  /\ Decide(r, "served")
  /\ Forget(r)
  /\ UNCHANGED <<filters, verdicts, clock, answers, asked, letBy, given>>

\* Mutant of Cleanup: an answer served as a stream stays.
CleanupOfJson(r, succeeds) ==
  /\ CleanUp(r, succeeds /\ ~ asked[r].stream)
  /\ spent' = IF succeeds THEN spent \cup {got[r].id} ELSE spent

\* RemoveAfterServe::cleanup: whatever file has the name now.
Cleanup(r, succeeds) ==
  /\ CleanUp(r, succeeds)
  /\ spent' = IF succeeds THEN spent \cup {got[r].id} ELSE spent

Serve(r) ==
  /\ at[r] = "serve"
  /\ Decide(r, "served")
  /\ Forget(r)
  /\ UNCHANGED <<filters, verdicts, entry, clock, answers, asked, letBy, historyVars>>

(***************************************************************************)
(* The pipeline behind the prefilter.  A JSON answer is stored, and that   *)
(* of a stream when the cache takes streams and the client stayed: also of *)
(* one that the upstream broke off.  Every other end stores nothing.       *)
(***************************************************************************)
Stores(r) ==
  LET store == ResultStore(filters)
  IN store # <<>> /\ (asked[r].stream => store[1].streams)

\* ResultCache::put takes the time before it writes.
Answered(r) ==
  /\ at[r] = "forwarded"
  /\ Stores(r)
  /\ answers < MaxAnswers
  /\ answers' = answers + 1
  /\ got' = [got EXCEPT ![r] = [id |-> answers + 1, at |-> clock]]
  /\ Move(r, "stamped")
  /\ UNCHANGED <<filters, verdicts, entry, clock, asked, pos, letBy, historyVars>>

\* The rename; or the write or the rename failed, which is warned about.
Renamed(r, succeeds) ==
  /\ at[r] = "stamped"
  /\ entry' = IF succeeds THEN [entry EXCEPT ![KeyOf(r)] = got[r]] ELSE entry
  /\ End(r)
  /\ UNCHANGED <<filters, verdicts, clock, answers, historyVars>>

\* An error, a failed save, a client that left, or nothing to store it in.
EndsUnstored(r) ==
  /\ at[r] = "forwarded"
  /\ End(r)
  /\ UNCHANGED <<filters, verdicts, entry, clock, answers, historyVars>>

Tick ==
  /\ clock < MaxClock
  /\ clock' = clock + 1
  /\ UNCHANGED <<filters, verdicts, entry, answers, requestVars, historyVars>>

\* Requests in flight and the guard's decisions are lost, the files stay.
Restart ==
  /\ \E list \in Lists : /\ filters' = Loaded(list)
                         /\ verdicts' = NewCache(GuardCap(Loaded(list)))
  /\ at' = All("done") /\ asked' = All(NoRequest) /\ pos' = All(1)
  /\ got' = All(NoEntry) /\ letBy' = All("no")
  /\ given' = {} /\ spent' = {}
  /\ UNCHANGED <<entry, clock, answers>>

Step(r) ==
  \/ \E request \in Workload : Arrive(r, request)
  \/ Leave(r)
  \/ CheckKeyword(r)
  \/ LookUpVerdict(r)
  \/ \E reply \in Replies(KeyOf(r)) : GuardReplies(r, reply)
  \/ Dropped(r)
  \/ ReadEntry(r)
  \/ \E succeeds \in BOOLEAN :
       RemoveExpired(r, succeeds) \/ Cleanup(r, succeeds) \/ Renamed(r, succeeds)
  \/ Serve(r)
  \/ Answered(r)
  \/ EndsUnstored(r)

Next == Tick \/ Restart \/ \E r \in Requests : Step(r)

Spec == Init /\ [][Next]_vars
--------------------------------------------------------------------------------
(***************************************************************************)
(* Properties.                                                             *)
(***************************************************************************)

\* The variables have their types, and the verdict cache keeps no decision
\* without a place in its queue, where it could never be evicted.
PrefilterTypeOK ==
  /\ at \in [Requests -> Decided \cup {"check", "guard", "expired", "cleanup", "serve"}]
  /\ pos \in [Requests -> 1 .. Len(filters) + 1]
  /\ \A k \in Keys : entry[k].id \in -1 .. answers /\ entry[k].at \in 0 .. clock
  /\ Cached(verdicts) \subseteq Queued(verdicts)
  /\ verdicts.order # <<>> => verdicts.cap > 0

\* The filters that let a request through: all of them, or those before the
\* cache that served it.
PassedBy(r) ==
  IF at[r] = "served" THEN 1 .. pos[r] - 1
  ELSE IF at[r] \in {"forwarded", "stamped"} THEN DOMAIN filters ELSE {}

\* The guard let a request through: there is nothing to judge, the guard has
\* accepted its key, or failed in a way that the policy lets through.
GuardAllows(f, r) ==
  \/ TextOf(r) = {}
  \/ letBy[r] = "verdict" /\ <<KeyOf(r), "accept">> \in given
  \/ letBy[r] = "error" /\ f.onError = "accept"
  \/ letBy[r] = "unparseable" /\ f.onUnparseable = "accept"

\* Filter f has let a request through.
LetsPass(f, r) ==
  /\ f.kind = "keyword" => ~ FirstMatch(f, TextOf(r))
  /\ f.kind = "qwen_guard" => GuardAllows(f, r)

\* Nothing that a filter blocks gets past it, neither to the backend nor to a
\* cached answer behind it, and a failed check opens the guard only when the
\* policy says so: whatever it cached, however its calls overlap, and whatever
\* the proxy was restarted from.  A cached decision is one the guard made.
FailsClosed ==
  /\ \A r \in Requests : \A i \in PassedBy(r) : LetsPass(filters[i], r)
  /\ \A k \in Cached(verdicts) : <<k, verdicts.map[k]>> \in given

\* With remove_after_serve an answer that was served, and whose file was removed, is
\* gone: no store that overlaps brings it back, and nobody looks it up any more.
\* This is less than "served at most once": all requests that look it up before the
\* removal are served it, and if the removal fails, later ones as well.
SpentIsGone == \A k \in Keys : entry[k].id \notin spent

\* An entry is served up to its expiry and not after, and the look-ups that
\* find it expired are all that removes it, except for one-shot serving and
\* for a request that removes a newer file than the one it has read.
TtlExact ==
  [][ /\ \A r \in Requests :
           at[r] = "check" /\ at'[r] \in {"serve", "cleanup"} =>
             Filter(r).ttl = 0 \/ clock - entry[KeyOf(r)].at <= Filter(r).ttl
      /\ \A k \in Keys :
           entry[k].id > 0 /\ entry'[k] = NoEntry =>
             \E r \in Requests :
               /\ KeyOf(r) = k
               /\ \/ at[r] = "cleanup"
                  \/ at[r] = "expired" /\ got[r] # entry[k]
                  \/ at[r] = "expired" /\ Filter(r).ttl > 0 /\ clock - entry[k].at > Filter(r).ttl
    ]_vars
================================================================================
