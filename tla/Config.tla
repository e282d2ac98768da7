--------------------------------- MODULE Config --------------------------------
(***************************************************************************)
(* Settings (src/src/config.rs): the command line over the environment     *)
(* over the defaults, and the plugin specs made of them.                   *)
(*                                                                         *)
(* Every setting is a text.  What Rust's parsers make of a text is given   *)
(* by functions whose domain is the texts that parse; the texts themselves *)
(* are opaque.  An option of the command line is named by the variable it  *)
(* stands for.  Left out: settings that are read but change nothing at     *)
(* start-up (words per block, threshold, ratio, meta directory and         *)
(* maximum, model id, log level), which are read the same way.             *)
(***************************************************************************)
EXTENDS Plugins

CONSTANTS
  IntOf,       \* parse::<usize> after trim
  FloatOf,     \* parse::<f64> after trim: a class and a value
  BoolOf,      \* the words for true and false, in any case
  ItemsOf,     \* JSON: an array of plugin specs
  BackendsOf,  \* JSON: an array of backends
  Trimmed(_)   \* trim

\* What parses has the type it is parsed as: an array is a list, and so are the
\* filters of a chain in it.
ASSUME ConfigAssumption ==
  /\ \A t \in DOMAIN IntOf : IntOf[t] \in Nat
  /\ \A t \in DOMAIN BoolOf : BoolOf[t] \in BOOLEAN
  /\ \A t \in DOMAIN BackendsOf : BackendsOf[t] \in Seq(ToSet(BackendsOf[t]))
  /\ \A t \in DOMAIN ItemsOf :
       /\ ItemsOf[t] \in Seq(ToSet(ItemsOf[t]))
       /\ \A item \in ToSet(ItemsOf[t]) :
            /\ {"name", "params"} \subseteq DOMAIN item /\ item.name = "chain"
            /\ "filters" \in DOMAIN item.params
            => item.params.filters \in Seq(ToSet(item.params.filters))

\* All that s sets, and what t sets besides (the @@ of TLC, written out).
Over(s, t) == [v \in DOMAIN s \cup DOMAIN t |-> IF v \in DOMAIN s THEN s[v] ELSE t[v]]

DefaultUrl == "http://127.0.0.1:8000"
DefaultLog == "lpcache-request.log"

Variables == {"BACKENDS", "LLAMA_URL", "N_SLOTS", "SLOT_SAVE_PATH", "REQUEST_TIMEOUT",
              "LLAMA_API_KEY", "PORT", "STREAM_QUEUE_SIZE", "COALESCE_REQUESTS", "PLUGINS",
              "PREFILTER_BLOCKLIST", "PREFILTER_CASE_INSENSITIVE",
              "PREFILTER_RESULT_CACHE_DIR", "PREFILTER_RESULT_CACHE_TTL",
              "SAVE_RETRIES", "SAVE_RETRY_DELAY_MS", "REQUEST_LOG", "REQUEST_LOG_PATH",
              "REQUEST_LOG_MAX_BYTES", "REQUEST_LOG_KEEP", "REQUEST_LOG_FIELDS"}

(***************************************************************************)
(* One variable.                                                           *)
(***************************************************************************)
Parsed(table, vars, key, default) ==
  IF key \in DOMAIN vars THEN Get(table, vars[key], default) ELSE default

EnvInt(vars, key, default) == Parsed(IntOf, vars, key, default)
EnvBool(vars, key, default) == Parsed(BoolOf, vars, key, default)
EnvFloat(vars, key, default) == Parsed(FloatOf, vars, key, Seconds(default))

EnvStreamQueueSize(vars) ==
  LET n == EnvInt(vars, "STREAM_QUEUE_SIZE", 16) IN IF n = 0 THEN 16 ELSE n

EnvResultCacheTtl(vars) ==
  LET s == EnvFloat(vars, "PREFILTER_RESULT_CACHE_TTL", 300)
  IN IF s.class = "negative" THEN Seconds(300) ELSE s

EnvList(vars, key) == IF key \in DOMAIN vars THEN Items(vars[key]) ELSE <<>>

\* A text that is trimmed and, when blank, taken for unset.
EnvText(vars, key, default) ==
  IF key \in DOMAIN vars /\ vars[key] \notin Blank THEN <<Trimmed(vars[key])>> ELSE default

(***************************************************************************)
(* Config::from_env_map.  Duration::from_secs_f64 panics when the request  *)
(* timeout is no finite, non-negative number of seconds it can hold.       *)
(***************************************************************************)
FromEnvPanics(vars) == EnvFloat(vars, "REQUEST_TIMEOUT", 600).class # "finite"

Backends(vars) ==
  IF "BACKENDS" \in DOMAIN vars
  THEN Get(BackendsOf, vars["BACKENDS"], <<>>)
  ELSE <<[url |-> Get(vars, "LLAMA_URL", DefaultUrl), slots |-> EnvInt(vars, "N_SLOTS", 1),
          saves |-> <<>>, kv |-> TRUE]>>

FromEnvMap(vars) ==
  [backends |-> Backends(vars),
   saves    |-> IF "BACKENDS" \notin DOMAIN vars /\ "SLOT_SAVE_PATH" \in DOMAIN vars
                THEN <<vars["SLOT_SAVE_PATH"]>> ELSE <<>>,
   timeout  |-> EnvFloat(vars, "REQUEST_TIMEOUT", 600),
   apiKey   |-> EnvText(vars, "LLAMA_API_KEY", <<>>),
   port     |-> EnvInt(vars, "PORT", 8081) % 65536,
   queue    |-> EnvStreamQueueSize(vars),
   coalesce |-> EnvBool(vars, "COALESCE_REQUESTS", FALSE),
   plugins  |-> IF "PLUGINS" \in DOMAIN vars THEN <<vars["PLUGINS"]>> ELSE <<>>,
   blocked  |-> EnvList(vars, "PREFILTER_BLOCKLIST"),
   ci       |-> EnvBool(vars, "PREFILTER_CASE_INSENSITIVE", TRUE),
   cacheDir |-> EnvText(vars, "PREFILTER_RESULT_CACHE_DIR", <<>>),
   cacheTtl |-> EnvResultCacheTtl(vars),
   retries  |-> EnvInt(vars, "SAVE_RETRIES", 3),
   delay    |-> EnvInt(vars, "SAVE_RETRY_DELAY_MS", 1000),
   logs     |-> EnvBool(vars, "REQUEST_LOG", FALSE),
   logPath  |-> EnvText(vars, "REQUEST_LOG_PATH", <<DefaultLog>>)[1],
   logMax   |-> EnvInt(vars, "REQUEST_LOG_MAX_BYTES", DEFAULT_MAX_BYTES),
   logKeep  |-> EnvInt(vars, "REQUEST_LOG_KEEP", 5),
   logFields |-> EnvList(vars, "REQUEST_LOG_FIELDS")]

(***************************************************************************)
(* Config::plugin_specs: PLUGINS as it is, or specs made of the older      *)
(* settings, blocklist first; then the request log, unless PLUGINS has one.*)
(***************************************************************************)
KeywordSpec(cfg) ==
  [name |-> "keyword", params |-> [keywords |-> cfg.blocked, case_insensitive |-> cfg.ci]]
CacheSpec(cfg) ==
  [name |-> "result_cache", params |-> [dir |-> cfg.cacheDir[1], ttl_secs |-> cfg.cacheTtl]]

\* Mutant of LegacySpecs: the cache before the blocklist.
CacheFirst(cfg) ==
  (IF cfg.cacheDir # <<>> THEN <<CacheSpec(cfg)>> ELSE <<>>)
  \o (IF cfg.blocked # <<>> THEN <<KeywordSpec(cfg)>> ELSE <<>>)

LegacySpecs(cfg) ==
  (IF cfg.blocked # <<>> THEN <<KeywordSpec(cfg)>> ELSE <<>>)
  \o (IF cfg.cacheDir # <<>> THEN <<CacheSpec(cfg)>> ELSE <<>>)

RequestLogSpec(cfg) ==
  LET always == [path |-> cfg.logPath, max_bytes |-> cfg.logMax, keep |-> cfg.logKeep]
  IN [name |-> "request_log",
      params |-> IF cfg.logFields = <<>> THEN always
                 ELSE Over(always, [fields |-> cfg.logFields])]

WithRequestLog(cfg, specs) ==
  IF cfg.logs /\ \A i \in DOMAIN specs : specs[i].name # "request_log"
  THEN Append(specs, RequestLogSpec(cfg)) ELSE specs

UsesPlugins(cfg) == cfg.plugins # <<>> /\ cfg.plugins[1] \notin Blank

PluginSpecs(cfg) ==
  IF ~ UsesPlugins(cfg) THEN Built(WithRequestLog(cfg, LegacySpecs(cfg)))
  ELSE IF cfg.plugins[1] \notin DOMAIN ItemsOf THEN Failed("BadPlugins")
  ELSE LET items == ItemsOf[cfg.plugins[1]]
       IN IF \E i \in DOMAIN items : ~ IsSpec(items[i]) THEN Failed("BadPlugins")
          ELSE Built(WithRequestLog(cfg, [i \in DOMAIN items |-> SpecOf(items[i])]))

(***************************************************************************)
(* Cli::parse and merged_env.  An argument is a record of its name, the    *)
(* value after an "=" (a sequence of none or one) and its whole text.  An  *)
(* option without "=" takes the next argument, whatever it looks like; the *)
(* first error ends the parse; the last of two equal options wins.         *)
(***************************************************************************)
NoOptions == [out |-> "ok", help |-> FALSE, version |-> FALSE, set |-> [v \in {} |-> ""]]

Parse(args) ==
  LET n == Len(args)
      from[i \in 1 .. n + 1] ==
        IF i = n + 1 THEN NoOptions
        ELSE LET inline == args[i].inline # <<>>
                 next   == IF inline THEN i + 1 ELSE i + 2
             IN CASE args[i].name = "help" -> [from[i + 1] EXCEPT !.help = TRUE]
                  [] args[i].name = "version" -> [from[i + 1] EXCEPT !.version = TRUE]
                  [] args[i].name \notin {"help", "version"} /\ next > n + 1
                       -> [NoOptions EXCEPT !.out = "MissingValue"]
                  [] args[i].name \notin {"help", "version"} \cup Variables /\ next <= n + 1
                       -> [NoOptions EXCEPT !.out = "UnknownArgument"]
                  [] OTHER
                       -> [from[next] EXCEPT !.set = Over(@, [v \in {args[i].name} |->
                             IF inline THEN args[i].inline[1] ELSE args[i + 1].text])]
  IN from[1]

MergedEnv(cli, base) == Over(cli.set, base)
================================================================================
