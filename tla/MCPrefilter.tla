------------------------------ MODULE MCPrefilter ------------------------------
(***************************************************************************)
(* Small instances of Prefilter for TLC: two texts, one of which has a     *)
(* blocked word, and lists that put the filters in different orders.       *)
(***************************************************************************)
EXTENDS Prefilter, TLC

CONSTANTS k1, k2, r1, r2

MCItems(t) == <<t>>
MCLower(t) == IF t = "Bomb" THEN "bomb" ELSE t
MCLevels == {"Safe", "Controversial", "Unsafe"}
MCCategories == {"Violent", "PII"}

MCWordsOf == (k1 :> {"hello", "Bomb"}) @@ (k2 :> {"hello"})

Verdict(level, categories) == [level |-> level, categories |-> categories]
MCVerdictsOf ==
  (k1 :> {Verdict("Safe", {}), Verdict("Controversial", {"Violent"})})
  @@ (k2 :> {Verdict("Safe", {})})

Spec_(name, params) == [name |-> name, params |-> params]
Kw == Spec_("keyword", [keywords |-> <<"Bomb">>])
Guard(onError, onUnparseable) ==
  Spec_("qwen_guard", [url |-> "http://g", reject_categories |-> <<"Violent">>, cache_max |-> 1,
                       on_error |-> onError, on_unparseable |-> onUnparseable])
OneShotCache ==
  Spec_("result_cache", [dir |-> "results", cleanup |-> "remove_after_serve",
                         cache_streaming |-> TRUE, cache_control |-> TRUE])
TtlCache == Spec_("result_cache", [dir |-> "results", ttl_secs |-> Seconds(1)])

MCLists ==
  {<<Guard("block", "accept"), OneShotCache>>,
   <<Spec_("chain", [filters |-> <<TtlCache, Kw>>]), Guard("accept", "reject")>>}

Ask(k, stream, noCache) == [key |-> k, stream |-> stream, noCache |-> noCache]
MCWorkload == {Ask(k1, FALSE, FALSE), Ask(k1, TRUE, FALSE), Ask(k2, FALSE, FALSE), Ask(k2, FALSE, TRUE)}

MCSymmetry == Permutations(Requests)
================================================================================
