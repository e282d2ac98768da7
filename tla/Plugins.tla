-------------------------------- MODULE Plugins --------------------------------
(***************************************************************************)
(* The plugin registry (src/plugins/src/registry.rs) and the factories of  *)
(* the built-in plugins: which adapter a list of specs makes, and which    *)
(* error.  Nothing here changes after start-up, so these are operators.    *)
(*                                                                         *)
(* A spec is a record of a name and params; a params record has the fields *)
(* that were given.  The field "mistyped" stands for any value that serde  *)
(* refuses (and, for the dashboard, a field it does not know).  Texts are  *)
(* opaque; the constants below say how Rust reads them.  A filter list is  *)
(* the sequence of the leaf filters: a chain runs its members in order and *)
(* asks them for a result store in order, so a chain within a list is its  *)
(* members.  Bound: chains are not nested in chains.                       *)
(***************************************************************************)
EXTENDS SequencesExt, Integers

CONSTANTS
  Blank,            \* texts with nothing but white space
  Items(_),         \* the trimmed, non-empty parts of a comma-separated text
  Lower(_),         \* to_lowercase
  Rooted,           \* texts that begin with "/"
  Levels,           \* names of safety levels
  Categories,       \* names of guard categories
  KnownFields       \* names of XLF fields

Get(p, f, default) == IF f \in DOMAIN p THEN p[f] ELSE default

(***************************************************************************)
(* What a factory returns: an outcome, and the adapters made (none for     *)
(* Ok(None)).                                                              *)
(***************************************************************************)
Built(adapters) == [out |-> "ok", made |-> adapters]
Failed(err) == [out |-> err, made |-> <<>>]
NotMine == Built(<<>>)

\* A parameter of a wrong type, or a required one that is missing.
Refused(p, required) == "mistyped" \in DOMAIN p \/ required \notin DOMAIN p

(***************************************************************************)
(* The factories.                                                          *)
(***************************************************************************)
Keyword(p) ==
  LET ci    == Get(p, "case_insensitive", TRUE)
      words == FlattenSeq([i \in DOMAIN p.keywords |-> Items(p.keywords[i])])
  IN IF Refused(p, "keywords") \/ words = <<>>
     THEN Failed("BadParams")
     ELSE Built(<<[kind |-> "keyword", ci |-> ci,
                   words |-> {IF ci THEN Lower(w) ELSE w : w \in ToSet(words)}]>>)

FailAction == ("accept" :> "accept") @@ ("allow" :> "accept")
              @@ ("reject" :> "reject") @@ ("block" :> "reject")

QwenGuard(p) ==
  LET levels == Get(p, "reject_levels", <<"Unsafe">>)
      categories == Get(p, "reject_categories", <<>>)
      actions == [a \in {"on_error", "on_unparseable"} |-> Get(p, a, "accept")]
  IN IF \/ Refused(p, "url")
        \/ p.url \in Blank
        \/ ~ ToSet(levels) \subseteq Levels
        \/ ~ ToSet(categories) \subseteq Categories
        \/ ~ Range(actions) \subseteq DOMAIN FailAction
     THEN Failed("BadParams")
     ELSE Built(<<[kind |-> "qwen_guard",
                   levels |-> ToSet(levels), categories |-> ToSet(categories),
                   onError |-> FailAction[actions.on_error],
                   onUnparseable |-> FailAction[actions.on_unparseable],
                   cap |-> Get(p, "cache_max", 0)]>>)

\* A number of seconds is a record of a class and a value.  JSON has no name
\* for "nan" and "inf": json! writes null, which serde refuses for a f64.
Seconds(n) == [class |-> "finite", secs |-> n]
IsNumber(s) == s.class \notin {"nan", "inf"}

\* ttl_secs.max(0.0), then Duration::from_secs_f64, which panics on "huge".
ResultCache(p) ==
  LET ttl == Get(p, "ttl_secs", Seconds(300))
      cleanup == Get(p, "cleanup", "none")
  IN IF Refused(p, "dir") \/ ~ IsNumber(ttl)
     THEN Failed("BadParams")
     ELSE IF p.dir \in Blank THEN Failed("BadParams")
     ELSE IF ttl.class = "huge" THEN Failed("panic")
     ELSE IF cleanup \notin {"none", "remove_after_serve"}
     THEN Failed("BadParams")
     ELSE Built(<<[kind |-> "result_cache", dir |-> p.dir,
                   ttl |-> IF ttl.class = "negative" THEN 0 ELSE ttl.secs,
                   oneShot |-> cleanup = "remove_after_serve",
                   streams |-> Get(p, "cache_streaming", FALSE),
                   noCache |-> Get(p, "cache_control", FALSE)]>>)

DEFAULT_MAX_BYTES == 10 * 1024 * 1024

DefaultFields == SetToSeq(KnownFields)

RequestLog(p) ==
  LET path == Get(p, "path", "lpcache-request.log")
      fields == Get(p, "fields", DefaultFields)
  IN IF \/ "mistyped" \in DOMAIN p
        \/ path \in Blank
        \/ fields = <<>>
        \/ ~ ToSet(fields) \subseteq KnownFields
        \/ ~ IsInjective(fields)
     THEN Failed("BadParams")
     ELSE Built(<<[path |-> path, fields |-> fields,
                   maxBytes |-> Get(p, "max_bytes", DEFAULT_MAX_BYTES),
                   keep |-> Get(p, "keep", 5)]>>)

DashboardParams(p) ==
  [path |-> Get(p, "path", "/dashboard"), refresh |-> Get(p, "refresh_ms", 2000),
   window |-> Get(p, "window_secs", 300), bucket |-> Get(p, "bucket_secs", 5),
   recent |-> Get(p, "max_recent", 100)]

\* dashboard::validate.
Valid(board) ==
  /\ board.path \in Rooted
  /\ board.refresh \in 100 .. 3600000
  /\ board.window \in 10 .. 86400
  /\ board.bucket \in 1 .. 3600
  /\ board.recent <= 10000

Dashboard(p) ==
  IF "mistyped" \notin DOMAIN p /\ Valid(DashboardParams(p))
  THEN Built(<<DashboardParams(p)>>) ELSE Failed("BadParams")

\* The client of one backend.  initFails: reqwest could not be set up.
Llama(p, initFails) ==
  IF Refused(p, "url") \/ ~ IsNumber(Get(p, "timeout_secs", Seconds(600)))
  THEN Failed("BadParams")
  ELSE IF p.url \in Blank \/ initFails THEN Failed("BadParams")
  ELSE Built(<<[url |-> p.url, key |-> Get(p, "api_key", <<>>)]>>)

(***************************************************************************)
(* The registry.  A list of results is as good as its first failure.       *)
(***************************************************************************)
Registered == {"keyword", "qwen_guard", "chain", "result_cache", "llama",
               "request_log", "dashboard"}

AllOf(results) ==
  LET failures == {i \in DOMAIN results : results[i].out # "ok"}
  IN IF failures = {}
     THEN Built(FlattenSeq([i \in DOMAIN results |-> results[i].made]))
     ELSE Failed(results[Min(failures)].out)

LeafPrefilter(spec) ==
  CASE spec.name = "keyword"      -> Keyword(spec.params)
    [] spec.name = "qwen_guard"   -> QwenGuard(spec.params)
    [] spec.name = "result_cache" -> ResultCache(spec.params)
    [] OTHER                      -> NotMine

\* Registry::create_prefilter, for the members of a chain.
Member(spec) ==
  IF spec.name \notin Registered THEN Failed("UnknownPlugin")
  ELSE IF LeafPrefilter(spec) = NotMine THEN Failed("UnsupportedKind")
  ELSE LeafPrefilter(spec)

\* PluginSpec::try_from: an item needs a name, its params default to none.
IsSpec(item) == "name" \in DOMAIN item
SpecOf(item) == [name |-> item.name, params |-> Get(item, "params", [p \in {} |-> 0])]

Chain(p) ==
  IF Refused(p, "filters") \/ p.filters = <<>>
  THEN Failed("BadParams")
  ELSE IF \E i \in DOMAIN p.filters : ~ IsSpec(p.filters[i])
  THEN Failed("BadParams")
  ELSE AllOf([i \in DOMAIN p.filters |-> Member(SpecOf(p.filters[i]))])

CreatePrefilter(spec) ==
  IF spec.name = "chain" THEN Chain(spec.params) ELSE LeafPrefilter(spec)

CreateRequestLogger(spec) ==
  IF spec.name = "request_log" THEN RequestLog(spec.params) ELSE NotMine

CreateDashboard(spec) ==
  IF spec.name = "dashboard" THEN Dashboard(spec.params) ELSE NotMine

\* Registry::factory, and the error when no plugin has the name.
Known(spec, result) ==
  IF spec.name \in Registered THEN result ELSE Failed("UnknownPlugin")

LoadPrefilters(specs) ==
  AllOf([i \in DOMAIN specs |-> Known(specs[i], CreatePrefilter(specs[i]))])

\* Mutant of OnlyOne: later ones are added.
OnlyOneOrMore(results) == AllOf(results)

\* One logger and one dashboard: a second one is an error of its own spec.
OnlyOne(results) ==
  LET second(i) == results[i].made # <<>> /\ \E j \in 1 .. i - 1 : results[j].made # <<>>
  IN AllOf([i \in DOMAIN results |->
              IF second(i) THEN Failed("BadParams") ELSE results[i]])

LoadRequestLoggers(specs) ==
  OnlyOne([i \in DOMAIN specs |-> Known(specs[i], CreateRequestLogger(specs[i]))])

LoadDashboard(specs) ==
  OnlyOne([i \in DOMAIN specs |-> Known(specs[i], CreateDashboard(specs[i]))])

\* Prefilter::result_store: the first member that has one.
ResultStore(filters) ==
  LET stores == {i \in DOMAIN filters : filters[i].kind = "result_cache"}
  IN IF stores = {} THEN <<>> ELSE <<filters[Min(stores)]>>
================================================================================
