-------------------------------- MODULE Startup --------------------------------
(***************************************************************************)
(* Start-up (src/src/main.rs): from the command line and the environment   *)
(* to a proxy that serves, or to an exit with a code, or to a panic.       *)
(*                                                                         *)
(* The settings are chosen by Init and each stage of main is an action;    *)
(* the file system, the network and the HTTP client may fail at each use.  *)
(* Logging set-up and the warnings change nothing and are left out.        *)
(***************************************************************************)
EXTENDS Config

CONSTANTS
  Settings,     \* pairs of a command line and an environment
  RouteClashes  \* dashboard paths that axum's Router::route panics on

\* A command line is a list of arguments.
ASSUME SettingsAssumption == \A s \in Settings : s[1] \in Seq(ToSet(s[1]))

VARIABLES
  pc,       \* the stage main is at, or how it ended
  given,    \* the command line and the environment
  cfg,      \* the Config, once there is one
  specs,    \* the plugin specs
  filters,  \* the prefilter: its leaf filters in order
  store,    \* the result store of the prefilter
  logger,   \* the request logger, none or one
  board,    \* the dashboard, none or one
  clients,  \* the backend clients made so far
  left      \* the backends that have no client yet

plugins == <<specs, filters, store, logger, board>>
vars == <<pc, given, cfg, plugins, clients, left>>

Stages == {"cli", "config", "specs", "prefilter", "logger", "logFile", "dashboard",
           "clients", "slots", "bind", "router", "serving"}
Ends == {"exit 0", "exit 1", "exit 2", "panic"}

Options == Parse(given.args)
Told == MergedEnv(Options, given.env)

Init ==
  /\ pc = "cli"
  /\ given \in {[args |-> s[1], env |-> s[2]] : s \in Settings}
  /\ cfg = <<>>
  /\ specs = <<>> /\ filters = <<>> /\ store = <<>> /\ logger = <<>> /\ board = <<>>
  /\ clients = <<>> /\ left = <<>>

\* A stage whose plugins could not be made ends the process.
EndFor(out) == IF out = "panic" THEN "panic" ELSE "exit 2"

ReadArguments ==
  /\ pc = "cli"
  /\ pc' = IF Options.out # "ok" THEN "exit 2"
           ELSE IF Options.version \/ Options.help THEN "exit 0"
           ELSE "config"
  /\ UNCHANGED <<given, cfg, plugins, clients, left>>

ReadConfig ==
  /\ pc = "config"
  /\ IF FromEnvPanics(Told)
     THEN pc' = "panic" /\ UNCHANGED <<cfg, left>>
     ELSE /\ pc' = "specs"
          /\ cfg' = FromEnvMap(Told)
          /\ left' = cfg'.backends
  /\ UNCHANGED <<given, plugins, clients>>

ReadSpecs ==
  LET made == PluginSpecs(cfg)
  IN /\ pc = "specs"
     /\ pc' = IF made.out = "ok" THEN "prefilter" ELSE EndFor(made.out)
     /\ specs' = made.made
     /\ UNCHANGED <<given, cfg, filters, store, logger, board, clients, left>>

\* A result store that cannot be prepared is only warned about.
LoadPrefilter ==
  LET made == LoadPrefilters(specs)
  IN /\ pc = "prefilter"
     /\ pc' = IF made.out = "ok" THEN "logger" ELSE EndFor(made.out)
     /\ filters' = made.made
     /\ store' = ResultStore(made.made)
     /\ UNCHANGED <<given, cfg, specs, logger, board, clients, left>>

LoadLogger ==
  LET made == LoadRequestLoggers(specs)
  IN /\ pc = "logger"
     /\ pc' = IF made.out # "ok" THEN EndFor(made.out)
              ELSE IF made.made # <<>> THEN "logFile" ELSE "dashboard"
     /\ logger' = made.made
     /\ UNCHANGED <<given, cfg, specs, filters, store, board, clients, left>>

PrepareLog(opens) ==
  /\ pc = "logFile"
  /\ pc' = IF opens THEN "dashboard" ELSE "exit 2"
  /\ UNCHANGED <<given, cfg, plugins, clients, left>>

LoadBoard ==
  LET made == LoadDashboard(specs)
  IN /\ pc = "dashboard"
     /\ pc' = IF made.out = "ok" THEN "clients" ELSE EndFor(made.out)
     /\ board' = made.made
     /\ UNCHANGED <<given, cfg, specs, filters, store, logger, clients, left>>

\* A client that cannot be made is logged, and the next backend gets its place.
MakeClient(initFails) ==
  LET made == Llama([url |-> Head(left).url, api_key |-> cfg.apiKey,
                     timeout_secs |-> cfg.timeout], initFails)
  IN /\ pc = "clients" /\ left # <<>>
     /\ clients' = clients \o made.made
     /\ left' = Tail(left)
     /\ UNCHANGED <<pc, given, cfg, plugins>>

ClientsMade ==
  /\ pc = "clients" /\ left = <<>>
  /\ pc' = "slots"
  /\ UNCHANGED <<given, cfg, plugins, clients, left>>

\* SlotManager::new asserts that every backend has its client.
MakeSlots ==
  /\ pc = "slots"
  /\ pc' = IF Len(clients) = Len(cfg.backends) THEN "bind" ELSE "panic"
  /\ UNCHANGED <<given, cfg, plugins, clients, left>>

Bind(succeeds) ==
  /\ pc = "bind"
  /\ pc' = IF succeeds THEN "router" ELSE "exit 1"
  /\ UNCHANGED <<given, cfg, plugins, clients, left>>

Serve ==
  /\ pc = "router"
  /\ pc' = IF \E i \in DOMAIN board : board[i].path \in RouteClashes
           THEN "panic" ELSE "serving"
  /\ UNCHANGED <<given, cfg, plugins, clients, left>>

\* ctrl_c: axum finishes what is open and main returns.
Shutdown ==
  /\ pc = "serving"
  /\ pc' = "exit 0"
  /\ UNCHANGED <<given, cfg, plugins, clients, left>>

Next ==
  \/ ReadArguments
  \/ ReadConfig
  \/ ReadSpecs
  \/ LoadPrefilter
  \/ LoadLogger
  \/ LoadBoard
  \/ ClientsMade
  \/ MakeSlots
  \/ Serve
  \/ Shutdown
  \/ \E good \in BOOLEAN : PrepareLog(good) \/ MakeClient(~ good) \/ Bind(good)

Spec == Init /\ [][Next]_vars
--------------------------------------------------------------------------------
(***************************************************************************)
(* Properties, stated from what was given.                                 *)
(***************************************************************************)

\* The variables have their types; there is one logger and one dashboard at
\* most, and no backend is forgotten while the clients are made.
StartupTypeOK ==
  /\ pc \in Stages \cup Ends
  /\ given \in {[args |-> s[1], env |-> s[2]] : s \in Settings}
  /\ \A i \in DOMAIN specs : DOMAIN specs[i] = {"name", "params"}
  /\ Len(logger) <= 1 /\ Len(board) <= 1 /\ Len(store) <= 1
  /\ cfg # <<>> => /\ Len(clients) + Len(left) <= Len(cfg.backends)
                   /\ cfg.port \in Nat /\ cfg.port < 65536
                   /\ cfg.queue >= 1

\* An option given with "=" after every other mention of its variable.
LastWord(i) ==
  /\ given.args[i].inline # <<>> /\ given.args[i].name \in Variables
  /\ \A j \in i + 1 .. Len(given.args) : given.args[j].name # given.args[i].name
  /\ i > 1 => given.args[i - 1].inline # <<>>

OptionsWin ==
  /\ \A i \in DOMAIN given.args : LastWord(i) => Told[given.args[i].name] = given.args[i].inline[1]
  /\ \A v \in DOMAIN given.env :
       (\A i \in DOMAIN given.args : given.args[i].name # v) => Told[v] = given.env[v]

\* The items that PLUGINS lists, or none when it is unset or blank.
PluginsRule == "PLUGINS" \in DOMAIN Told /\ Told["PLUGINS"] \notin Blank
Listed == IF PluginsRule THEN ItemsOf[Told["PLUGINS"]] ELSE <<>>

\* The kinds of the filters that an item stands for, in order: its own, or those
\* of the members of a chain.
Members(item) == IF item.name = "chain" THEN item.params.filters ELSE <<item>>
FilterKinds == {"keyword", "qwen_guard", "result_cache"}
Kinds(made) == [i \in DOMAIN made |-> made[i].kind]
KindOf(item) == IF item.name \in FilterKinds THEN <<item.name>> ELSE <<>>
KindsOf(item) == FlattenSeq([i \in DOMAIN Members(item) |-> KindOf(Members(item)[i])])
KindsListed == FlattenSeq([i \in DOMAIN Listed |-> KindsOf(Listed[i])])
KindsOfOldSettings ==
  (IF "PREFILTER_BLOCKLIST" \in DOMAIN Told /\ Items(Told["PREFILTER_BLOCKLIST"]) # <<>>
   THEN <<"keyword">> ELSE <<>>)
  \o (IF "PREFILTER_RESULT_CACHE_DIR" \in DOMAIN Told
         /\ Told["PREFILTER_RESULT_CACHE_DIR"] \notin Blank
      THEN <<"result_cache">> ELSE <<>>)

\* What a spec in PLUGINS says about the request log wins over the settings.
LogsListed == {i \in DOMAIN Listed : Listed[i].name = "request_log"}
LogAsTold ==
  IF LogsListed # {}
  THEN \E i \in LogsListed :
         /\ LogsListed = {i} /\ logger # <<>>
         /\ logger[1].path = Get(Get(Listed[i], "params", [p \in {} |-> 0]), "path", DefaultLog)
  ELSE (logger # <<>>) = Parsed(BoolOf, Told, "REQUEST_LOG", FALSE)

\* Only PLUGINS asks for a dashboard.
BoardAsTold == board # <<>> <=> \E i \in DOMAIN Listed : Listed[i].name = "dashboard"

\* A proxy that serves has every plugin it was told to have and no other: the
\* filters in the order of PLUGINS (a blocked request is rejected before a
\* cache could serve it, the older settings count only without PLUGINS), the
\* log of PLUGINS before that of REQUEST_LOG, a dashboard if PLUGINS lists one,
\* one client for each backend in its place, and options before environment; no
\* bad spec gets this far.
ServesAsConfigured ==
  pc = "serving" =>
    /\ OptionsWin
    /\ PluginsRule => \A i \in DOMAIN Listed : Listed[i].name \in Registered
    /\ Kinds(filters) = IF PluginsRule THEN KindsListed ELSE KindsOfOldSettings
    /\ store # <<>> <=> \E i \in DOMAIN filters : filters[i].kind = "result_cache"
    /\ LogAsTold /\ BoardAsTold
    /\ Len(clients) = Len(cfg.backends)
    /\ \A i \in DOMAIN clients : clients[i].url = cfg.backends[i].url
================================================================================
