------------------------------- MODULE MCStartup -------------------------------
(***************************************************************************)
(* Settings for TLC.  Texts are the texts a user would write, with tables  *)
(* of what the parsers make of them.                                       *)
(***************************************************************************)
EXTENDS Startup, TLC

None == [p \in {} |-> 0]
Item(name, params) == [name |-> name, params |-> params]

MCBlank == {"", " "}
MCItems(t) ==
  CASE t \in {"", " ", ","} -> <<>>
    [] t = "path,junk"      -> <<"path", "junk">>
    [] OTHER                -> <<t>>
MCLower(t) == IF t = "Bomb" THEN "bomb" ELSE t
MCTrimmed(t) == t
MCRooted == {"/dashboard", "/v1/models"}
MCLevels == {"Safe", "Controversial", "Unsafe"}
MCCategories == {"Violent"}
MCKnownFields == {"path", "status"}

MCIntOf == ("0" :> 0) @@ ("1" :> 1) @@ ("65536" :> 65536)
MCFloatOf == ("1" :> Seconds(1)) @@ ("-1" :> [class |-> "negative"])
             @@ ("inf" :> [class |-> "inf"]) @@ ("1e30" :> [class |-> "huge"])
MCBoolOf == ("1" :> TRUE) @@ ("on" :> TRUE) @@ ("0" :> FALSE)

Guard == Item("qwen_guard", [url |-> "http://g"])
Kw == Item("keyword", [keywords |-> <<"Bomb">>])
Cache(cleanup) == Item("result_cache", [dir |-> "results", cleanup |-> cleanup])
Log(path) == Item("request_log", [path |-> path])
ChainOf(items) == Item("chain", [filters |-> items])

MCItemsOf ==
  ("[]" :> <<>>)
  @@ ("[guard,chain[cache,kw],log,dash]" :>
        <<Guard, ChainOf(<<Cache("none"), Kw>>), Log("own.log"), Item("dashboard", None)>>)
  @@ ("[cache,kw]" :> <<Cache("remove_after_serve"), [name |-> "keyword", params |-> [keywords |-> <<"path,junk">>]]>>)
  @@ ("[cache?]" :> <<Cache("later")>>)
  @@ ("[kw,nobody]" :> <<Kw, Item("nobody", None)>>)
  @@ ("[kw,nameless]" :> <<Kw, [params |-> None]>>)
  @@ ("[chain[log]]" :> <<ChainOf(<<Log("own.log")>>)>>)
  @@ ("[chain[kw,nobody]]" :> <<ChainOf(<<Kw, Item("nobody", None)>>)>>)
  @@ ("[chain[]]" :> <<ChainOf(<<>>)>>)
  @@ ("[log,log]" :> <<Log("own.log"), Log("other.log")>>)
  @@ ("[dash,dash]" :> <<Item("dashboard", None), Item("dashboard", None)>>)
  @@ ("[dash/v1/models]" :> <<Item("dashboard", [path |-> "/v1/models"])>>)
  @@ ("[dash0]" :> <<Item("dashboard", [bucket_secs |-> 0])>>)
  @@ ("[guard?]" :> <<Item("qwen_guard", [url |-> "http://g", on_error |-> "maybe"])>>)
  @@ ("[kw0]" :> <<Item("keyword", [mistyped |-> TRUE])>>)
  @@ ("[cache1e30]" :> <<Item("result_cache", [dir |-> "results", ttl_secs |-> [class |-> "huge"]])>>)

Backend(url) == [url |-> url, slots |-> 1, saves |-> <<"kv">>, kv |-> TRUE]
MCBackendsOf ==
  ("[]" :> <<>>)
  @@ ("[b1,b2]" :> <<Backend("http://b1"), Backend("http://b2")>>)
  @@ ("[blank,b2]" :> <<Backend(" "), Backend("http://b2")>>)

\* The texts tried for each variable.
Texts ==
  ("BACKENDS" :> {"[]", "[b1,b2]", "[blank,b2]", "junk"})
  @@ ("LLAMA_URL" :> {"http://b1", " "})
  @@ ("PORT" :> {"1", "65536", "junk"})
  @@ ("STREAM_QUEUE_SIZE" :> {"0", "1"})
  @@ ("REQUEST_TIMEOUT" :> {"1", "-1", "inf", "junk"})
  @@ ("PLUGINS" :> DOMAIN MCItemsOf \cup {" ", "junk"})
  @@ ("PREFILTER_BLOCKLIST" :> {"Bomb", ","})
  @@ ("PREFILTER_RESULT_CACHE_DIR" :> {"results", " "})
  @@ ("PREFILTER_RESULT_CACHE_TTL" :> {"-1", "inf", "1e30"})
  @@ ("REQUEST_LOG" :> {"1", "0", "junk"})
  @@ ("REQUEST_LOG_FIELDS" :> {"path,junk", "path"})
  @@ ("SLOT_SAVE_PATH" :> {"kv"})

Pairs == UNION {{<<v, t>> : t \in Texts[v]} : v \in DOMAIN Texts}
EnvOf(ps) == [v \in {p[1] : p \in ps} |-> (CHOOSE p \in ps : p[1] = v)[2]]
\* Up to two variables; the plugins and the older settings also together.
Environments ==
  {EnvOf({})} \cup {EnvOf({p, q}) : p, q \in Pairs}
  \cup {EnvOf({<<"PREFILTER_BLOCKLIST", "Bomb">>, <<"PREFILTER_RESULT_CACHE_DIR", "results">>,
               <<"REQUEST_LOG", "1">>, p}) : p \in {q \in Pairs : q[1] = "PLUGINS"}}

Inline(v, t) == [name |-> v, inline |-> <<t>>, text |-> "--" \o v \o "=" \o t]
Bare(name) == [name |-> name, inline |-> <<>>, text |-> name]
CommandLines ==
  {<<>>, <<Bare("help")>>, <<Bare("version")>>, <<Bare("nonsense"), Bare("1")>>, <<Bare("PORT")>>,
   <<Bare("PORT"), Bare("1")>>, <<Bare("LLAMA_URL"), Bare("help")>>,
   <<Inline("PLUGINS", "[cache,kw]"), Inline("PLUGINS", "[guard,chain[cache,kw],log,dash]")>>,
   <<Inline("PLUGINS", " "), Inline("BACKENDS", "[b1,b2]")>>}

MCSettings ==
  ({<<>>} \X Environments)
  \cup (CommandLines \X ({EnvOf({})} \cup {EnvOf({p}) : p \in Pairs}))
MCRouteClashes == {"/v1/models"}
================================================================================
