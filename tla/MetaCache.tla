------------------------------- MODULE MetaCache -------------------------------
(***************************************************************************)
(* The cache on disk: meta files written, touched, pruned and discarded by *)
(* concurrent requests (src/src/hashing.rs and the helpers of run_pipeline *)
(* in src/src/app.rs), and the KV files that llama.cpp writes beside them. *)
(*                                                                         *)
(* No lock guards the files.  Each system call is a step here: a rewrite   *)
(* truncates and then writes, a prune lists, reads file after file, then   *)
(* unlinks file after file.  A writer whose file was unlinked after it had *)
(* opened it writes to a file that has no name any more; a writer that is  *)
(* overtaken by another may leave the end of the other's longer text.      *)
(*                                                                         *)
(* Each call that writes, reads, lists or removes a file may fail; what    *)
(* the code does then is an action of its own.  The scan of a lookup, and  *)
(* the look whether a KV file exists, do not fail.                         *)
(*                                                                         *)
(* A request runs once, and the work between its file operations is one    *)
(* step.  Timestamps are counted; mtimes and names only break ties, which  *)
(* are left open.  All entries have this configuration's wpb.  The host    *)
(* sees the slot-save directories, taken together as one.                  *)
(***************************************************************************)
EXTENDS SequencesExt

CONSTANTS
  Requests,   \* big requests on kv_cache backends
  Keys,       \* cache keys
  KeyOf,      \* the key of each request
  Blocks,     \* the block hashes of each key's prompt
  ModelOf,    \* the model each key belongs to
  NoKey,      \* no candidate
  Threshold,  \* LCP_TH, a pair <<numerator, denominator>>
  MetaMax,    \* META_MAX
  MaxOld      \* bound on the entries found at the start

ASSUME MetaAssumption ==
  /\ IsFiniteSet(Keys)
  /\ KeyOf \in [Requests -> Keys]
  /\ \A k \in Keys : Blocks[k] \in Seq(Nat)
  /\ NoKey \notin Keys
  /\ MetaMax \in Nat \ {0}
  /\ MaxOld \in Nat

VARIABLES
  meta,     \* each key's meta file: NoFile, Torn, or its timestamp
  kv,       \* the keys that have a KV file
  clock,    \* the last timestamp given
  at,       \* what each request is about to do
  cand,     \* its restore candidate
  retried,  \* whether it is at its second attempt
  stamp,    \* the timestamp it is about to write
  linked,   \* whether the file it has open still has a name
  todo,     \* a prune: the files still to read, then to unlink
  seen,     \* a prune: the files it has read, with timestamps
  removed,  \* a prune: the keys whose meta file it has unlinked
  since,    \* history: the entries its prune does not answer for, which came
            \* after it had listed them, or which it could not remove
  strays    \* history: KV files left without a meta file by a known accident

fileVars == <<meta, kv, clock>>
ownVars == <<at, cand, retried, stamp, linked, todo, seen, removed>>
vars == <<fileVars, ownVars, since, strays>>

NoFile == -1
Torn == 0
Exists(k) == meta[k] # NoFile

Places == {"new", "restore", "touch", "reopen", "refill", "check", "discard", "chat",
           "save", "write", "fill", "list", "read", "remove", "unlink", "done"}

MetaTypeOK ==
  /\ meta \in [Keys -> {NoFile} \cup 0..clock]
  /\ kv \subseteq Keys
  /\ clock \in Nat
  /\ at \in [Requests -> Places]
  /\ cand \in [Requests -> Keys \cup {NoKey}]
  /\ retried \in [Requests -> BOOLEAN]
  /\ stamp \in [Requests -> 0..clock]
  /\ linked \in [Requests -> BOOLEAN]
  /\ todo \in [Requests -> SUBSET Keys]
  /\ \A r \in Requests : seen[r] \subseteq Keys \X (0..clock)
  /\ removed \in [Requests -> SUBSET Keys]
  /\ since \in [Requests -> SUBSET Keys]
  /\ strays \subseteq Keys

\* A cache left by earlier requests: entries of different age, the first one the
\* oldest, some of them without the KV file.  META_MAX may have been larger.
Init ==
  /\ \E old \in SetToAllKPermutations(Keys) :
       /\ Len(old) <= MaxOld
       /\ meta = [k \in Keys |-> IF k \in Range(old)
                    THEN CHOOSE i \in DOMAIN old : old[i] = k ELSE NoFile]
       /\ kv \in SUBSET Range(old)
  /\ clock = MaxOld
  /\ at = [r \in Requests |-> "new"]
  /\ cand = [r \in Requests |-> NoKey]
  /\ retried = [r \in Requests |-> FALSE]
  /\ stamp = [r \in Requests |-> 0]
  /\ linked = [r \in Requests |-> FALSE]
  /\ todo = [r \in Requests |-> {}]
  /\ seen = [r \in Requests |-> {}]
  /\ removed = [r \in Requests |-> {}]
  /\ since = [r \in Requests |-> {}]
  /\ strays = {}

--------------------------------------------------------------------------------
(* Candidate lookup.                                                         *)

LcpBlocks(a, b) == Len(LongestCommonPrefix({a, b}))

\* The ratio of k's entry for r, as a pair.
Ratio(r, k) ==
  LET own == Blocks[KeyOf[r]]
      shorter == IF Len(own) < Len(Blocks[k]) THEN Len(own) ELSE Len(Blocks[k])
  IN  <<LcpBlocks(own, Blocks[k]), IF shorter = 0 THEN 1 ELSE shorter>>

Less(p, q) == p[1] * q[2] < q[1] * p[2]

\* Mutant of Prefer: any entry above the threshold replaces the best so far.
PreferLater(r, best, k) ==
  IF ModelOf[k] = ModelOf[KeyOf[r]] /\ ~Less(Ratio(r, k), Threshold)
    THEN k ELSE best

\* One turn of the scan's loop.
Prefer(r, best, k) ==
  IF /\ ModelOf[k] = ModelOf[KeyOf[r]]
     /\ ~Less(Ratio(r, k), Threshold)
     /\ Less(IF best = NoKey THEN <<0, 1>> ELSE Ratio(r, best), Ratio(r, k))
    THEN k ELSE best

\* What find_best_restore_candidate may return, for any order of the files.
Candidates(r) ==
  {found \in Keys \cup {NoKey} :
     \E order \in SetToSeqs({k \in Keys : meta[k] > Torn}) :
       found = FoldLeft(LAMBDA best, k : Prefer(r, best, k), NoKey, order)}

--------------------------------------------------------------------------------
(* Helpers.                                                                  *)

Goto(r, place) == at' = [at EXCEPT ![r] = place]

\* What most steps leave alone.
Rest == UNCHANGED <<todo, seen, removed, since>>

\* The key whose meta file r has open.
OpenKey(r) ==
  IF at[r] = "refill" THEN cand[r] ELSE IF at[r] = "fill" THEN KeyOf[r] ELSE NoKey

\* The meta file of k loses its name, if it has one.
Unlink(k) ==
  /\ meta' = [meta EXCEPT ![k] = NoFile]
  /\ linked' = [q \in Requests |-> linked[q] /\ OpenKey(q) # k]

\* Mutant of Open: the timestamp is not the present time.
OpenAhead(r, k, place) ==
  /\ stamp' = [stamp EXCEPT ![r] = clock + 1]
  /\ meta' = [meta EXCEPT ![k] = Torn]
  /\ linked' = [linked EXCEPT ![r] = TRUE]
  /\ Goto(r, place)
  /\ UNCHANGED <<kv, clock, cand, retried, todo, seen, removed, since, strays>>

\* r opens k's meta file, which truncates or creates it, with a new timestamp.
Open(r, k, place) ==
  /\ clock' = clock + 1
  /\ stamp' = [stamp EXCEPT ![r] = clock + 1]
  /\ meta' = [meta EXCEPT ![k] = Torn]
  /\ linked' = [linked EXCEPT ![r] = TRUE]
  /\ since' = IF Exists(k) THEN since
              ELSE [q \in Requests |-> IF at[q] \in {"read", "remove", "unlink"}
                                         THEN since[q] \cup {k} ELSE since[q]]
  /\ strays' = strays \ {k}
  /\ Goto(r, place)
  /\ UNCHANGED <<kv, cand, retried, todo, seen, removed>>

\* r is done with the file it has open, which holds one of texts if it has a name.
Close(r, texts, place) ==
  /\ \/ linked[r] /\ \E text \in texts : meta' = [meta EXCEPT ![OpenKey(r)] = text]
     \/ ~linked[r] /\ UNCHANGED meta
  /\ stamp' = [stamp EXCEPT ![r] = 0]
  /\ linked' = [linked EXCEPT ![r] = FALSE]
  /\ Goto(r, place)
  /\ Rest
  /\ UNCHANGED <<kv, clock, cand, retried, strays>>

\* It has written its text, perhaps over the beginning of another's ...
Fill(r, place) ==
  Close(r, {stamp[r]} \cup (IF meta[OpenKey(r)] = Torn THEN {} ELSE {Torn}), place)

\* ... or a part of it, or nothing: the write has failed.
FillFails(r, place) == Close(r, {meta[OpenKey(r)], Torn}, place)

--------------------------------------------------------------------------------
(* Lookup, restore and what follows it.                                      *)

\* The scan reads the files in one step: a candidate is a hint, and every later
\* step of the request finds its entry kept, rewritten or gone.
Lookup(r) ==
  /\ at[r] = "new"
  /\ \E k \in Candidates(r) :
       /\ cand' = [cand EXCEPT ![r] = k]
       /\ Goto(r, IF k = NoKey THEN "chat" ELSE "restore")
  /\ Rest
  /\ UNCHANGED <<fileVars, retried, stamp, linked, strays>>

\* restore_slot: 200 needs the KV file, 400 says that it could not be loaded,
\* anything else tells nothing.
Restore(r) ==
  /\ at[r] = "restore"
  /\ \/ cand[r] \in kv /\ Goto(r, "touch")
     \/ Goto(r, "check")
     \/ Goto(r, "chat")
  /\ Rest
  /\ UNCHANGED <<fileVars, cand, retried, stamp, linked, strays>>

\* touch_meta reads the entry; one that is missing or unreadable is left alone.
TouchRead(r) ==
  /\ at[r] = "touch"
  /\ Goto(r, IF meta[cand[r]] > Torn THEN "reopen" ELSE "chat")
  /\ Rest
  /\ UNCHANGED <<fileVars, cand, retried, stamp, linked, strays>>

TouchOpen(r) == at[r] = "reopen" /\ Open(r, cand[r], "refill")

TouchFill(r) == at[r] = "refill" /\ Fill(r, "chat")

\* remove_stale_meta: keep the entry if a slot-save directory holds the file ...
StaleCheck(r) ==
  /\ at[r] = "check"
  /\ Goto(r, IF cand[r] \in kv THEN "chat" ELSE "discard")
  /\ Rest
  /\ UNCHANGED <<fileVars, cand, retried, stamp, linked, strays>>

\* ... and remove it otherwise.
Discard(r) ==
  /\ at[r] = "discard"
  /\ Unlink(cand[r])
  /\ strays' = IF Exists(cand[r]) THEN strays \cup (kv \cap {cand[r]}) ELSE strays
  /\ Goto(r, "chat")
  /\ Rest
  /\ UNCHANGED <<kv, clock, cand, retried, stamp>>

\* The chat is answered, or fails for good, or fails over to another backend,
\* where the restore is tried again.
Chat(r) ==
  /\ at[r] = "chat"
  /\ \/ Goto(r, "save") /\ UNCHANGED retried
     \/ Goto(r, "done") /\ UNCHANGED retried
     \/ /\ ~retried[r] /\ cand[r] # NoKey
        /\ retried' = [retried EXCEPT ![r] = TRUE]
        /\ Goto(r, "restore")
  /\ Rest
  /\ UNCHANGED <<fileVars, cand, stamp, linked, strays>>

--------------------------------------------------------------------------------
(* Save and prune.                                                           *)

\* save_after returns and the pipeline goes on to write_meta: also when the save
\* has failed, except for a JSON request with an error.
Saved(r) ==
  /\ at[r] = "save"
  /\ kv' \in {kv, kv \cup {KeyOf[r]}}
  /\ Goto(r, "write")
  /\ Rest
  /\ UNCHANGED <<meta, clock, cand, retried, stamp, linked, strays>>

\* No write_meta: a JSON request's save ends in an error, or its handler is
\* dropped meanwhile.  The backend may have written the file all the same.
SaveLost(r) ==
  /\ at[r] = "save"
  /\ kv' \in {kv, kv \cup {KeyOf[r]}}
  /\ strays' = IF Exists(KeyOf[r]) THEN strays ELSE strays \cup (kv' \ kv)
  /\ Goto(r, "done")
  /\ Rest
  /\ UNCHANGED <<meta, clock, cand, retried, stamp, linked>>

WriteOpen(r) == at[r] = "write" /\ Open(r, KeyOf[r], "fill")

WriteFill(r) == at[r] = "fill" /\ Fill(r, "list")

\* prune_meta lists the directory.
List(r) ==
  /\ at[r] = "list"
  /\ todo' = [todo EXCEPT ![r] = {k \in Keys : Exists(k)}]
  /\ since' = [since EXCEPT ![r] = {}]
  /\ Goto(r, IF todo'[r] = {} THEN "done" ELSE "read")
  /\ UNCHANGED <<fileVars, cand, retried, stamp, linked, seen, removed, strays>>

\* Mutant of Oldest: one file too many is kept.
OldestButOne(files) ==
  LET excess == Cardinality(files) - MetaMax - 1
  IN  {old \in SUBSET files :
         /\ Cardinality(old) = IF excess > 0 THEN excess ELSE 0
         /\ \A p \in old, q \in files \ old : p[2] <= q[2]}

\* The files beyond MetaMax with the smallest timestamps.
Oldest(files) ==
  LET excess == Cardinality(files) - MetaMax
  IN  {old \in SUBSET files :
         /\ Cardinality(old) = IF excess > 0 THEN excess ELSE 0
         /\ \A p \in old, q \in files \ old : p[2] <= q[2]}

\* The prune r has read k's file and all files of the list before it: it reads the
\* next one, or knows what to remove.
ReadNext(r, k, all) ==
  IF todo[r] # {k}
    THEN /\ todo' = [todo EXCEPT ![r] = @ \ {k}]
         /\ seen' = [seen EXCEPT ![r] = all]
         /\ UNCHANGED at
    ELSE /\ \E old \in Oldest(all) :
              /\ todo' = [todo EXCEPT ![r] = {p[1] : p \in old}]
              /\ Goto(r, IF old = {} THEN "unlink" ELSE "remove")
         /\ seen' = [seen EXCEPT ![r] = {}]

\* It reads the files, one after the other; one that is gone, or cannot be read or
\* parsed, counts as oldest.
Read(r) ==
  /\ at[r] = "read"
  /\ \E k \in todo[r] :
       \E age \in {Torn} \cup (IF Exists(k) THEN {meta[k]} ELSE {}) :
         ReadNext(r, k, seen[r] \cup {<<k, age>>})
  /\ UNCHANGED <<fileVars, cand, retried, stamp, linked, removed, since, strays>>

\* The prune r goes on after k's meta file, with the keys it has removed: the next
\* file, or the KV files of those keys.
RemoveNext(r, k, gone) ==
  /\ IF todo[r] # {k}
       THEN /\ todo' = [todo EXCEPT ![r] = @ \ {k}]
            /\ removed' = [removed EXCEPT ![r] = gone]
            /\ UNCHANGED at
       ELSE /\ todo' = [todo EXCEPT ![r] = gone]
            /\ removed' = [removed EXCEPT ![r] = {}]
            /\ Goto(r, "unlink")
  /\ UNCHANGED <<kv, clock, cand, retried, stamp, seen, strays>>

\* It unlinks k's meta file.  The key counts as removed if there was a file: one
\* that somebody else has unlinked is not its own.
RemoveOne(r, k, counts) ==
  /\ Unlink(k)
  /\ RemoveNext(r, k, IF counts THEN removed[r] \cup {k} ELSE removed[r])
  /\ UNCHANGED since

\* Mutant of RemoveMeta: only a file that parses counts as removed.
RemoveParsed(r) ==
  at[r] = "remove" /\ \E k \in todo[r] : RemoveOne(r, k, meta[k] > Torn)

RemoveMeta(r) ==
  at[r] = "remove" /\ \E k \in todo[r] : RemoveOne(r, k, Exists(k))

\* prune_cache goes on after the KV file of k.
UnlinkNext(r, k) ==
  /\ todo' = [todo EXCEPT ![r] = @ \ {k}]
  /\ UNCHANGED <<meta, clock, at, cand, retried, stamp, linked, seen, removed, since>>

\* It unlinks the KV files of the keys prune_meta has removed.
UnlinkKv(r) ==
  /\ at[r] = "unlink"
  /\ \E k \in todo[r] :
       /\ kv' = kv \ {k}
       /\ strays' = strays \ {k}
       /\ UnlinkNext(r, k)

\* The prune has come to its end.
Pruned(r) ==
  /\ at[r] = "unlink" /\ todo[r] = {}
  /\ since' = [since EXCEPT ![r] = {}]
  /\ Goto(r, "done")
  /\ UNCHANGED <<fileVars, cand, retried, stamp, linked, todo, seen, removed, strays>>

--------------------------------------------------------------------------------
(* Calls that fail.                                                          *)

\* The KV files that are left without an entry, with that of k if it is one.
StrayWith(k) == IF k \in kv /\ ~Exists(k) THEN strays \cup {k} ELSE strays

\* A touch or a discard that fails is given up with a warning, and so is a prune
\* that cannot list the directory.
GiveUp(r) ==
  /\ \/ at[r] \in {"touch", "reopen", "discard"} /\ Goto(r, "chat")
     \/ at[r] = "list" /\ Goto(r, "done")
  /\ Rest
  /\ UNCHANGED <<fileVars, cand, retried, stamp, linked, strays>>

TouchFillFails(r) == at[r] = "refill" /\ FillFails(r, "chat")

\* write_meta fails: a JSON request is answered with an error, a stream has been
\* answered before.  Neither prunes, and the KV file that was saved stays.
WriteOpenFails(r) ==
  /\ at[r] = "write"
  /\ strays' = StrayWith(KeyOf[r])
  /\ Goto(r, "done")
  /\ Rest
  /\ UNCHANGED <<fileVars, cand, retried, stamp, linked>>

WriteFillFails(r) == at[r] = "fill" /\ FillFails(r, "done")

\* The prune leaves the entry, its KV file, and the excess as they are.
RemoveMetaFails(r) ==
  /\ at[r] = "remove"
  /\ \E k \in todo[r] :
       /\ Exists(k)
       /\ since' = [since EXCEPT ![r] = @ \cup {k}]
       /\ RemoveNext(r, k, removed[r])
  /\ UNCHANGED <<meta, linked>>

\* The KV file stays, and prune_cache goes on with the next key.
UnlinkKvFails(r) ==
  /\ at[r] = "unlink"
  /\ \E k \in todo[r] \cap kv :
       /\ strays' = StrayWith(k)
       /\ UnlinkNext(r, k)
  /\ UNCHANGED kv

--------------------------------------------------------------------------------
\* The handler is dropped, or the request fails, at an await before the save.
Dropped(r) ==
  /\ at[r] = "restore"
  /\ Goto(r, "done")
  /\ Rest
  /\ UNCHANGED <<fileVars, cand, retried, stamp, linked, strays>>

\* The proxy stops and starts again: the files are what is left.
Restart ==
  /\ \E r \in Requests : at[r] \notin {"new", "done"}
  /\ at' = [r \in Requests |-> IF at[r] = "new" THEN "new" ELSE "done"]
  /\ stamp' = [r \in Requests |-> 0]
  /\ linked' = [r \in Requests |-> FALSE]
  /\ todo' = [r \in Requests |-> {}]
  /\ seen' = [r \in Requests |-> {}]
  /\ removed' = [r \in Requests |-> {}]
  /\ since' = [r \in Requests |-> {}]
  /\ strays' = {k \in kv : ~Exists(k)}
  /\ UNCHANGED <<fileVars, cand, retried>>

Step(r) ==
  \/ Lookup(r)
  \/ Restore(r)
  \/ TouchRead(r) \/ TouchOpen(r) \/ TouchFill(r)
  \/ StaleCheck(r) \/ Discard(r)
  \/ Chat(r)
  \/ Saved(r) \/ SaveLost(r)
  \/ WriteOpen(r) \/ WriteFill(r)
  \/ List(r) \/ Read(r) \/ RemoveMeta(r) \/ UnlinkKv(r) \/ Pruned(r)
  \/ GiveUp(r) \/ TouchFillFails(r)
  \/ WriteOpenFails(r) \/ WriteFillFails(r)
  \/ RemoveMetaFails(r) \/ UnlinkKvFails(r)
  \/ Dropped(r)

Next == (\E r \in Requests : Step(r)) \/ Restart

Spec == Init /\ [][Next]_vars

--------------------------------------------------------------------------------
(* Properties.                                                               *)

\* The cache is bounded: when a prune has gone through its victims there are at
\* most MetaMax entries besides those created since it listed them and those that
\* it tried to remove in vain, whatever others wrote, touched, pruned or discarded
\* meanwhile.
PruneBounds ==
  \A r \in Requests : at[r] = "unlink" =>
    Cardinality({k \in Keys : Exists(k)} \ since[r]) <= MetaMax

\* Disk space is given back: a KV file without a meta file, which no prune will
\* ever find, has somebody at work on it; or it is left by an accident the code
\* puts up with: a save whose meta file was not written (a lost answer, a dropped
\* handler, a failed write), a KV file that a prune could not unlink, an entry
\* discarded while its file was being saved, or a restart.
KvAccounted ==
  \A k \in kv : ~Exists(k) =>
    \/ k \in strays
    \/ \E r \in Requests : \/ at[r] = "write" /\ KeyOf[r] = k
                           \/ at[r] = "remove" /\ k \in removed[r]
                           \/ at[r] = "unlink" /\ k \in todo[r]

\* The restore candidate is an entry of the request's model with the largest
\* share of common blocks, if the share is positive and reaches the threshold.
CandidateIsBest ==
  [][\A r \in Requests : Lookup(r) =>
       LET fits == {k \in Keys : /\ meta[k] > Torn
                                 /\ ModelOf[k] = ModelOf[KeyOf[r]]
                                 /\ ~Less(Ratio(r, k), Threshold)
                                 /\ Ratio(r, k)[1] > 0}
       IN  IF fits = {} THEN cand'[r] = NoKey
           ELSE cand'[r] \in fits /\ \A k \in fits : ~Less(Ratio(r, cand'[r]), Ratio(r, k))]_vars
================================================================================
