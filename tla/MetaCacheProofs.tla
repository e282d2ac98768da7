----------------------------- MODULE MetaCacheProofs ----------------------------
(***************************************************************************)
(* Proofs about the cache on disk, for every set of requests, every finite *)
(* set of keys and every META_MAX.                                         *)
(***************************************************************************)
EXTENDS MetaCache, FunctionTheorems, FiniteSetTheorems, WellFoundedInduction, TLAPS

--------------------------------------------------------------------------------
(* The inductive invariant.                                                  *)

Existing == {k \in Keys : Exists(k)}
KeysIn(files) == {p[1] : p \in files}

\* A request at work on its candidate has one, and the file it has open is in
\* the directory as long as nobody has unlinked it.
FilesOK(r) ==
  /\ at[r] \in {"restore", "touch", "reopen", "refill", "check", "discard"} => cand[r] \in Keys
  /\ linked[r] /\ at[r] \in {"refill", "fill"} => Exists(OpenKey(r))

\* A prune accounts for every entry that is not new since it listed them, and that
\* it has not tried in vain to remove: it is still to be read, has been read, is
\* about to be removed, or is one of at most MetaMax to stay.
PruneOK(r) ==
  /\ IsFiniteSet(seen[r])
  /\ at[r] = "read" => Existing \ since[r] \subseteq todo[r] \cup KeysIn(seen[r])
  /\ at[r] = "remove" => Cardinality(Existing \ (since[r] \cup todo[r])) <= MetaMax
  /\ at[r] = "unlink" => Cardinality(Existing \ since[r]) <= MetaMax

MetaTyped == MetaTypeOK /\ seen \in [Requests -> SUBSET (Keys \X Nat)]

MetaInv ==
  /\ MetaTyped
  /\ \A r \in Requests : FilesOK(r) /\ PruneOK(r)
  /\ KvAccounted

--------------------------------------------------------------------------------
(* Types.                                                                    *)

\* What is assumed of the constants.
LEMMA MetaFacts ==
  /\ KeyOf \in [Requests -> Keys]
  /\ NoKey \notin Keys
  /\ MetaMax \in Nat \ {0}
  /\ MaxOld \in Nat
  /\ IsFiniteSet(Keys)
BY MetaAssumption

\* At the start every value is in its range.
LEMMA MetaTypedInit == Init => MetaTyped
<1>1. ASSUME Init
      PROVE  MetaTyped
  <2>1. PICK old \in SetToAllKPermutations(Keys) :
          /\ Len(old) <= MaxOld
          /\ meta = [k \in Keys |-> IF k \in Range(old)
                       THEN CHOOSE i \in DOMAIN old : old[i] = k ELSE NoFile]
          /\ kv \in SUBSET Range(old)
    BY <1>1 DEF Init
  <2>2. PICK s \in SUBSET Keys : old \in [1..Cardinality(s) -> s]
    BY <2>1 DEF SetToAllKPermutations, SetToSeqs
  <2>3. Cardinality(s) \in Nat
    BY <2>2, MetaFacts, FS_Subset, FS_CardinalityType
  <2>4. /\ DOMAIN old = 1..Len(old) /\ Len(old) \in Nat /\ Len(old) <= MaxOld
        /\ Range(old) \subseteq Keys
    BY <2>1, <2>2, <2>3 DEF Range
  <2>5. ASSUME NEW k \in Range(old)
        PROVE  (CHOOSE i \in DOMAIN old : old[i] = k) \in 0..MaxOld
    <3>1. \E i \in DOMAIN old : old[i] = k
      BY <2>5 DEF Range
    <3>2. (CHOOSE i \in DOMAIN old : old[i] = k) \in DOMAIN old
      BY <3>1
    <3>3. QED
      BY <2>4, <3>2, MetaFacts
  <2>6. meta \in [Keys -> {NoFile} \cup 0..MaxOld]
    BY <2>1, <2>5
  <2>7. kv \subseteq Keys
    BY <2>1, <2>4
  <2>8. QED
    BY <1>1, <2>6, <2>7, MetaFacts DEF Init, MetaTyped, MetaTypeOK, Places
<1>2. QED
  BY <1>1

\* The file that a request has open is that of its candidate, or of its own key.
LEMMA OpenKeyType ==
  ASSUME MetaTyped, NEW r \in Requests
  PROVE  OpenKey(r) \in Keys \cup {NoKey}
BY MetaFacts DEF OpenKey, MetaTyped, MetaTypeOK

\* Truncating or creating a meta file.
LEMMA OpenTyped ==
  ASSUME MetaTyped, NEW r \in Requests, NEW k \in Keys, NEW place \in Places,
         Open(r, k, place)
  PROVE  MetaTyped'
<1>1. clock' = clock + 1 /\ clock \in Nat /\ clock + 1 \in 0..clock'
  BY DEF Open, MetaTyped, MetaTypeOK
<1>2. meta' \in [Keys -> {NoFile} \cup 0..clock']
  BY <1>1 DEF Open, MetaTyped, MetaTypeOK, Torn
<1>3. stamp' \in [Requests -> 0..clock']
  BY <1>1 DEF Open, MetaTyped, MetaTypeOK
<1>4. since' \in [Requests -> SUBSET Keys]
  BY DEF Open, MetaTyped, MetaTypeOK
<1>5. \A q \in Requests : seen'[q] \subseteq Keys \X (0..clock')
  BY <1>1 DEF Open, MetaTyped, MetaTypeOK
<1>6. QED
  BY <1>1, <1>2, <1>3, <1>4, <1>5 DEF Open, Goto, MetaTyped, MetaTypeOK

\* Closing it.
LEMMA CloseTyped ==
  ASSUME MetaTyped, NEW r \in Requests, NEW place \in Places, NEW texts,
         OpenKey(r) \in Keys => texts \subseteq {NoFile} \cup 0..clock,
         Close(r, texts, place)
  PROVE  MetaTyped'
<1>1. meta' \in [Keys -> {NoFile} \cup 0..clock]
  BY DEF Close, MetaTyped, MetaTypeOK
<1>2. stamp' \in [Requests -> 0..clock]
  BY DEF Close, MetaTyped, MetaTypeOK
<1>3. QED
  BY <1>1, <1>2 DEF Close, Goto, Rest, MetaTyped, MetaTypeOK

\* What a write leaves, one that fails included, and where its request goes on.
LEMMA WriteCloses ==
  ASSUME MetaTyped, NEW r \in Requests,
         TouchFill(r) \/ WriteFill(r) \/ TouchFillFails(r) \/ WriteFillFails(r)
  PROVE  /\ at[r] \in {"refill", "fill"}
         /\ \E place \in {"chat", "list", "done"} : \E texts :
              /\ Close(r, texts, place)
              /\ texts \subseteq {stamp[r], meta[OpenKey(r)], Torn}
<1>1. CASE TouchFill(r) \/ WriteFill(r)
  <2>1. {stamp[r]} \cup (IF meta[OpenKey(r)] = Torn THEN {} ELSE {Torn})
          \subseteq {stamp[r], meta[OpenKey(r)], Torn}
    OBVIOUS
  <2> QED BY <1>1, <2>1 DEF TouchFill, WriteFill, Fill
<1>2. CASE TouchFillFails(r) \/ WriteFillFails(r)
  BY <1>2 DEF TouchFillFails, WriteFillFails, FillFails
<1> QED BY <1>1, <1>2

\* Removing it.
LEMMA UnlinkTyped ==
  ASSUME MetaTyped, NEW k \in Keys, Unlink(k)
  PROVE  /\ meta' \in [Keys -> {NoFile} \cup 0..clock]
         /\ linked' \in [Requests -> BOOLEAN]
BY DEF Unlink, MetaTyped, MetaTypeOK

\* Types.
LEMMA MetaTypedNext ==
  ASSUME MetaInv, Next
  PROVE  MetaTyped'
<1>0. MetaTyped /\ \A r \in Requests : FilesOK(r)
  BY DEF MetaInv
<1>1. ASSUME NEW r \in Requests, Lookup(r)
      PROVE  MetaTyped'
  <2>1. PICK k \in Keys \cup {NoKey} :
          /\ cand' = [cand EXCEPT ![r] = k]
          /\ Goto(r, IF k = NoKey THEN "chat" ELSE "restore")
    BY <1>1 DEF Lookup, Candidates
  <2>2. UNCHANGED <<meta, kv, clock, retried, stamp, linked, strays, todo, seen, removed, since>>
    BY <1>1 DEF Lookup, Rest, fileVars
  <2>3. at' \in [Requests -> Places] /\ cand' \in [Requests -> Keys \cup {NoKey}]
    BY <1>0, <2>1 DEF Goto, MetaTyped, MetaTypeOK, Places
  <2>4. QED
    BY <1>0, <2>2, <2>3 DEF MetaTyped, MetaTypeOK
<1>2. ASSUME NEW r \in Requests,
             Restore(r) \/ TouchRead(r) \/ StaleCheck(r) \/ Chat(r) \/ Dropped(r)
      PROVE  MetaTyped'
  BY <1>0, <1>2 DEF Restore, TouchRead, StaleCheck, Chat, Dropped, Goto, Rest, fileVars,
                    MetaTyped, MetaTypeOK, Places
<1>3. ASSUME NEW r \in Requests, TouchOpen(r) \/ WriteOpen(r)
      PROVE  MetaTyped'
  <2>1. KeyOf[r] \in Keys /\ (at[r] = "reopen" => cand[r] \in Keys)
    BY <1>0, MetaFacts DEF FilesOK
  <2>2. QED
    BY <1>0, <1>3, <2>1, OpenTyped DEF TouchOpen, WriteOpen, Places
<1>4. ASSUME NEW r \in Requests,
             TouchFill(r) \/ WriteFill(r) \/ TouchFillFails(r) \/ WriteFillFails(r)
      PROVE  MetaTyped'
  <2>1. PICK place, texts :
          /\ place \in {"chat", "list", "done"}
          /\ Close(r, texts, place)
          /\ texts \subseteq {stamp[r], meta[OpenKey(r)], Torn}
    BY <1>0, <1>4, WriteCloses
  <2>2. OpenKey(r) \in Keys => texts \subseteq {NoFile} \cup 0..clock
    BY <1>0, <2>1 DEF MetaTyped, MetaTypeOK, Torn
  <2>3. QED
    BY <1>0, <2>1, <2>2, CloseTyped DEF Places
<1>5. ASSUME NEW r \in Requests, Discard(r)
      PROVE  MetaTyped'
  <2>1. cand[r] \in Keys
    BY <1>0, <1>5 DEF Discard, FilesOK
  <2>2. meta' \in [Keys -> {NoFile} \cup 0..clock] /\ linked' \in [Requests -> BOOLEAN]
    BY <1>0, <1>5, <2>1, UnlinkTyped DEF Discard
  <2>3. QED
    BY <1>0, <1>5, <2>2 DEF Discard, Goto, Rest, MetaTyped, MetaTypeOK, Places
<1>6. ASSUME NEW r \in Requests, Saved(r) \/ SaveLost(r)
      PROVE  MetaTyped'
  <2>1. kv' \subseteq Keys /\ strays' \subseteq Keys
    BY <1>0, <1>6, MetaFacts DEF Saved, SaveLost, MetaTyped, MetaTypeOK
  <2>2. QED
    BY <1>0, <1>6, <2>1 DEF Saved, SaveLost, Goto, Rest, MetaTyped, MetaTypeOK, Places
<1>7. ASSUME NEW r \in Requests, List(r)
      PROVE  MetaTyped'
  BY <1>0, <1>7 DEF List, Goto, fileVars, MetaTyped, MetaTypeOK, Places
<1>8. ASSUME NEW r \in Requests, Read(r)
      PROVE  MetaTyped'
  <2>1. PICK k, all, age :
          /\ k \in todo[r] /\ all = seen[r] \cup {<<k, age>>}
          /\ age \in {Torn} \cup (IF Exists(k) THEN {meta[k]} ELSE {})
          /\ ReadNext(r, k, all)
    BY <1>8 DEF Read
  <2>2. UNCHANGED <<fileVars, cand, retried, stamp, linked, removed, since, strays>>
    BY <1>8 DEF Read
  <2>3. all \subseteq Keys \X (0..clock) /\ clock \in Nat
    BY <1>0, <2>1 DEF MetaTyped, MetaTypeOK, Exists, NoFile, Torn
  <2>4. CASE todo[r] # {k}
    BY <1>0, <2>1, <2>2, <2>3, <2>4 DEF ReadNext, fileVars, MetaTyped, MetaTypeOK
  <2>5. CASE todo[r] = {k}
    <3>1. PICK old \in SUBSET all :
            /\ todo' = [todo EXCEPT ![r] = {p[1] : p \in old}]
            /\ Goto(r, IF old = {} THEN "unlink" ELSE "remove")
      BY <2>1, <2>5 DEF ReadNext, Oldest
    <3>2. {p[1] : p \in old} \subseteq Keys
      BY <2>3, <3>1
    <3>3. seen' = [seen EXCEPT ![r] = {}]
      BY <2>1, <2>5 DEF ReadNext
    <3>. HIDE <2>1
    <3>4. QED
      BY <1>0, <2>2, <2>3, <3>1, <3>2, <3>3
         DEF Goto, fileVars, MetaTyped, MetaTypeOK, Places
  <2>6. QED
    BY <2>4, <2>5
<1>9. ASSUME NEW r \in Requests, RemoveMeta(r)
      PROVE  MetaTyped'
  <2>1. PICK k \in todo[r] : RemoveOne(r, k, Exists(k))
    BY <1>9 DEF RemoveMeta
  <2>2. k \in Keys
    BY <1>0 DEF MetaTyped, MetaTypeOK
  <2>3. meta' \in [Keys -> {NoFile} \cup 0..clock] /\ linked' \in [Requests -> BOOLEAN]
    BY <1>0, <2>1, <2>2, UnlinkTyped DEF RemoveOne
  <2>4. QED
    BY <1>0, <2>1, <2>2, <2>3 DEF RemoveOne, RemoveNext, Goto, MetaTyped, MetaTypeOK, Places
<1>10. ASSUME NEW r \in Requests, UnlinkKv(r) \/ Pruned(r)
       PROVE  MetaTyped'
  BY <1>0, <1>10 DEF UnlinkKv, UnlinkNext, Pruned, Goto, fileVars, MetaTyped, MetaTypeOK, Places
<1>11. ASSUME Restart
       PROVE  MetaTyped'
  BY <1>0, <1>11 DEF Restart, fileVars, MetaTyped, MetaTypeOK, Places
<1>12. ASSUME NEW r \in Requests, GiveUp(r) \/ WriteOpenFails(r)
       PROVE  MetaTyped'
  BY <1>0, <1>12, MetaFacts
     DEF GiveUp, WriteOpenFails, StrayWith, Goto, Rest, fileVars, MetaTyped, MetaTypeOK, Places
<1>13. ASSUME NEW r \in Requests, RemoveMetaFails(r)
       PROVE  MetaTyped'
  <2>1. PICK k \in todo[r] :
          /\ since' = [since EXCEPT ![r] = @ \cup {k}]
          /\ RemoveNext(r, k, removed[r])
    BY <1>13 DEF RemoveMetaFails
  <2>2. k \in Keys /\ meta' = meta /\ linked' = linked
    BY <1>0, <1>13 DEF RemoveMetaFails, MetaTyped, MetaTypeOK
  <2>3. QED
    BY <1>0, <2>1, <2>2 DEF RemoveNext, Goto, MetaTyped, MetaTypeOK, Places
<1>14. ASSUME NEW r \in Requests, UnlinkKvFails(r)
       PROVE  MetaTyped'
  BY <1>0, <1>14 DEF UnlinkKvFails, UnlinkNext, StrayWith, MetaTyped, MetaTypeOK
<1>15. QED
  BY <1>1, <1>2, <1>3, <1>4, <1>5, <1>6, <1>7, <1>8, <1>9, <1>10, <1>11, <1>12, <1>13, <1>14
     DEF Next, Step

--------------------------------------------------------------------------------
(* Open files.                                                               *)

\* The requests other than r have what they had.
Others(r) ==
  \A q \in Requests \ {r} :
    at'[q] = at[q] /\ cand'[q] = cand[q] /\ stamp'[q] = stamp[q] /\ removed'[q] = removed[q]

\* A step of one request leaves the locals of the others alone.
LEMMA OthersStay ==
  ASSUME MetaTyped, NEW r \in Requests, Step(r)
  PROVE  /\ Others(r)
         /\ \A q \in Requests \ {r} : todo'[q] = todo[q] /\ seen'[q] = seen[q]
<1>1. CASE Lookup(r) \/ Restore(r) \/ TouchRead(r) \/ StaleCheck(r) \/ Chat(r) \/ Dropped(r)
  BY <1>1 DEF Others, Lookup, Restore, TouchRead, StaleCheck, Chat, Dropped, Goto, Rest,
              MetaTyped, MetaTypeOK
<1>2. CASE TouchOpen(r) \/ WriteOpen(r)
  BY <1>2 DEF Others, TouchOpen, WriteOpen, Open, Goto, MetaTyped, MetaTypeOK
<1>3. CASE Discard(r) \/ Saved(r) \/ SaveLost(r) \/ List(r) \/ GiveUp(r) \/ WriteOpenFails(r)
  BY <1>3 DEF Others, Discard, Saved, SaveLost, List, GiveUp, WriteOpenFails, Goto, Rest,
              MetaTyped, MetaTypeOK
<1>4. CASE Read(r)
  BY <1>4 DEF Others, Read, ReadNext, Goto, MetaTyped, MetaTypeOK
<1>5. CASE RemoveMeta(r) \/ RemoveMetaFails(r)
  BY <1>5 DEF Others, RemoveMeta, RemoveMetaFails, RemoveOne, RemoveNext, Goto,
              MetaTyped, MetaTypeOK
<1>6. CASE TouchFill(r) \/ WriteFill(r) \/ TouchFillFails(r) \/ WriteFillFails(r)
  BY <1>6, WriteCloses DEF Others, Close, Goto, Rest, MetaTyped, MetaTypeOK
<1>7. CASE UnlinkKv(r) \/ Pruned(r) \/ UnlinkKvFails(r)
  BY <1>7 DEF Others, UnlinkKv, Pruned, UnlinkKvFails, UnlinkNext, Goto, MetaTyped, MetaTypeOK
<1>8. QED
  BY <1>1, <1>2, <1>3, <1>4, <1>5, <1>6, <1>7 DEF Step

\* Files come and go in these ways only.
LEMMA FileSteps ==
  ASSUME MetaInv, NEW r \in Requests, Step(r)
  PROVE  \/ UNCHANGED <<meta, linked>>
         \/ \E k \in Keys : Unlink(k) /\ at[r] \in {"discard", "remove"}
         \/ \E k \in Keys : /\ at[r] \in {"reopen", "write"} /\ OpenKey(r)' = k
                            /\ meta' = [meta EXCEPT ![k] = Torn]
                            /\ linked' = [linked EXCEPT ![r] = TRUE]
         \/ /\ at[r] \in {"refill", "fill"} /\ at'[r] \in {"chat", "list", "done"}
            /\ Existing' = Existing
            /\ linked' = [linked EXCEPT ![r] = FALSE]
<1>0. MetaTyped /\ FilesOK(r) /\ KeyOf[r] \in Keys
  BY MetaFacts DEF MetaInv
<1>1. CASE TouchOpen(r) \/ WriteOpen(r)
  <2>1. CASE TouchOpen(r)
    <3>1. cand[r] \in Keys /\ cand' = cand /\ at'[r] = "refill" /\ at[r] = "reopen"
      BY <1>0, <2>1 DEF TouchOpen, Open, Goto, FilesOK, MetaTyped, MetaTypeOK
    <3>2. OpenKey(r)' = cand[r]
      BY <3>1 DEF OpenKey
    <3>3. QED
      BY <2>1, <3>1, <3>2 DEF TouchOpen, Open
  <2>2. CASE WriteOpen(r)
    <3>1. at'[r] = "fill" /\ at[r] = "write"
      BY <1>0, <2>2 DEF WriteOpen, Open, Goto, MetaTyped, MetaTypeOK
    <3>2. OpenKey(r)' = KeyOf[r]
      BY <3>1 DEF OpenKey
    <3>3. QED
      BY <1>0, <2>2, <3>1, <3>2 DEF WriteOpen, Open
  <2>3. QED
    BY <1>1, <2>1, <2>2
<1>2. CASE TouchFill(r) \/ WriteFill(r) \/ TouchFillFails(r) \/ WriteFillFails(r)
  <2>0. PICK place, texts :
          /\ place \in {"chat", "list", "done"}
          /\ Close(r, texts, place)
          /\ texts \subseteq {stamp[r], meta[OpenKey(r)], Torn}
    BY <1>0, <1>2, WriteCloses
  <2>1. at[r] \in {"refill", "fill"} /\ at'[r] \in {"chat", "list", "done"}
        /\ linked' = [linked EXCEPT ![r] = FALSE]
    BY <1>0, <1>2, <2>0, WriteCloses DEF Close, Goto, MetaTyped, MetaTypeOK
  <2>2. CASE UNCHANGED meta
    BY <2>1, <2>2 DEF Existing, Exists
  <2>3. ASSUME linked[r], NEW text \in texts, meta' = [meta EXCEPT ![OpenKey(r)] = text]
        PROVE  Existing' = Existing
    <3>1. Exists(OpenKey(r))
      BY <1>0, <2>1, <2>3 DEF FilesOK
    <3>2. text # NoFile
      BY <1>0, <2>0, <3>1 DEF Exists, MetaTyped, MetaTypeOK, NoFile, Torn
    <3>3. QED
      BY <1>0, <2>3, <3>1, <3>2 DEF Existing, Exists, MetaTyped, MetaTypeOK
  <2>4. QED
    BY <2>0, <2>1, <2>2, <2>3 DEF Close
<1>3. CASE Discard(r)
  BY <1>0, <1>3 DEF Discard, FilesOK
<1>4. CASE RemoveMeta(r)
  BY <1>0, <1>4 DEF RemoveMeta, RemoveOne, MetaTyped, MetaTypeOK
<1>5. CASE ~(TouchOpen(r) \/ WriteOpen(r) \/ TouchFill(r) \/ WriteFill(r) \/ Discard(r)
             \/ RemoveMeta(r) \/ TouchFillFails(r) \/ WriteFillFails(r))
  BY <1>5 DEF Step, Lookup, Restore, TouchRead, StaleCheck, Chat, Saved, SaveLost, List, Read,
              UnlinkKv, UnlinkNext, Pruned, GiveUp, WriteOpenFails, RemoveMetaFails,
              UnlinkKvFails, Dropped, fileVars
<1>6. QED
  BY <1>1, <1>2, <1>3, <1>4, <1>5

\* Another request's step leaves a file that is open in the directory, or tells
\* that it has lost its name.
LEMMA OtherFilesOK ==
  ASSUME MetaInv, NEW r \in Requests, Step(r), NEW q \in Requests, q # r
  PROVE  FilesOK(q)'
<1>0. /\ MetaTyped /\ FilesOK(q) /\ at'[q] = at[q] /\ cand'[q] = cand[q]
      /\ OpenKey(q) \in Keys \cup {NoKey}
      /\ at[q] \in {"refill", "fill"} => OpenKey(q) \in Keys
  BY OthersStay, OpenKeyType, MetaFacts DEF MetaInv, Others, FilesOK, OpenKey
<1>1. OpenKey(q)' = OpenKey(q)
  BY <1>0 DEF OpenKey
<1>2. ASSUME linked'[q], at[q] \in {"refill", "fill"}
      PROVE  Exists(OpenKey(q))'
  <2>1. CASE UNCHANGED <<meta, linked>>
    BY <1>0, <1>1, <1>2, <2>1 DEF FilesOK, Exists
  <2>2. ASSUME NEW k \in Keys, Unlink(k)
        PROVE  Exists(OpenKey(q))'
    BY <1>0, <1>1, <1>2, <2>2 DEF Unlink, FilesOK, Exists, MetaTyped, MetaTypeOK
  <2>3. ASSUME NEW k \in Keys, meta' = [meta EXCEPT ![k] = Torn],
               linked' = [linked EXCEPT ![r] = TRUE]
        PROVE  Exists(OpenKey(q))'
    BY <1>0, <1>1, <1>2, <2>3 DEF FilesOK, Exists, MetaTyped, MetaTypeOK, NoFile, Torn
  <2>4. ASSUME Existing' = Existing, linked' = [linked EXCEPT ![r] = FALSE]
        PROVE  Exists(OpenKey(q))'
    <3>1. OpenKey(q) \in Existing
      BY <1>0, <1>2, <2>4 DEF Existing, FilesOK, MetaTyped, MetaTypeOK
    <3>2. OpenKey(q) \in Existing'
      BY <2>4, <3>1
    <3>3. QED
      BY <1>1, <3>2 DEF Existing, Exists
  <2>5. QED
    BY <2>1, <2>2, <2>3, <2>4, FileSteps
<1>3. QED
  BY <1>0, <1>2 DEF FilesOK

\* The request that moves keeps what it knows of its files.
LEMMA OwnFilesOK ==
  ASSUME MetaInv, NEW r \in Requests, Step(r)
  PROVE  FilesOK(r)'
<1>0. MetaTyped /\ FilesOK(r) /\ KeyOf[r] \in Keys
  BY MetaFacts DEF MetaInv
<1>1. CASE TouchOpen(r) \/ WriteOpen(r)
  <2>1. /\ at'[r] \in {"refill", "fill"} /\ cand' = cand
        /\ at'[r] = "refill" => cand[r] \in Keys
    BY <1>0, <1>1 DEF TouchOpen, WriteOpen, Open, Goto, FilesOK, MetaTyped, MetaTypeOK
  <2>2. meta'[OpenKey(r)'] = Torn
    BY <1>0, <1>1 DEF TouchOpen, WriteOpen, Open, Goto, OpenKey, FilesOK, MetaTyped, MetaTypeOK
  <2>3. QED
    BY <2>1, <2>2 DEF FilesOK, Exists, Torn, NoFile
<1>2. CASE ~(TouchOpen(r) \/ WriteOpen(r))
  <2>1. /\ at'[r] \notin {"refill", "fill"}
        /\ at'[r] \in {"restore", "touch", "reopen", "check", "discard"} => cand'[r] \in Keys
    <3>1. r \in DOMAIN at /\ r \in DOMAIN cand
      BY <1>0 DEF MetaTyped, MetaTypeOK
    <3>2. CASE Lookup(r)
      <4>1. PICK k \in Keys \cup {NoKey} :
              /\ cand' = [cand EXCEPT ![r] = k]
              /\ Goto(r, IF k = NoKey THEN "chat" ELSE "restore")
        BY <3>2 DEF Lookup, Candidates
      <4> QED BY <3>1, <4>1 DEF Goto
    <3>3. CASE Restore(r) \/ TouchRead(r) \/ StaleCheck(r) \/ Discard(r)
      BY <1>0, <3>1, <3>3 DEF Restore, TouchRead, StaleCheck, Discard, Goto, FilesOK
    <3>4. CASE Chat(r)
      BY <1>0, <3>1, <3>4 DEF Chat, Goto, MetaTyped, MetaTypeOK
    <3>5. CASE Saved(r) \/ SaveLost(r) \/ List(r) \/ Dropped(r) \/ GiveUp(r) \/ WriteOpenFails(r)
      BY <3>1, <3>5 DEF Saved, SaveLost, List, Dropped, GiveUp, WriteOpenFails, Goto
    <3>6. CASE Read(r) \/ RemoveMeta(r) \/ RemoveMetaFails(r)
      BY <3>1, <3>6 DEF Read, ReadNext, RemoveMeta, RemoveMetaFails, RemoveOne, RemoveNext, Goto
    <3>7. CASE UnlinkKv(r) \/ Pruned(r) \/ UnlinkKvFails(r)
      BY <3>1, <3>7 DEF UnlinkKv, Pruned, UnlinkKvFails, UnlinkNext, Goto
    <3>8. CASE TouchFill(r) \/ WriteFill(r) \/ TouchFillFails(r) \/ WriteFillFails(r)
      BY <1>0, <3>1, <3>8, WriteCloses DEF Close, Goto
    <3> QED BY <1>2, <3>2, <3>3, <3>4, <3>5, <3>6, <3>7, <3>8 DEF Step
  <2>2. QED
    BY <2>1 DEF FilesOK
<1>3. QED
  BY <1>1, <1>2

\* So does every request in every step.
LEMMA FilesNext ==
  ASSUME MetaInv, Next
  PROVE  \A r \in Requests : FilesOK(r)'
<1>1. ASSUME Restart, NEW r \in Requests
      PROVE  FilesOK(r)'
  <2>1. at'[r] \in {"new", "done"}
    BY <1>1 DEF Restart
  <2>2. QED
    BY <2>1 DEF FilesOK
<1>2. QED
  BY <1>1, OtherFilesOK, OwnFilesOK DEF Next

--------------------------------------------------------------------------------
(* Prunes.                                                                   *)

\* prune_meta keeps at most META_MAX of the files it has read.
LEMMA OldestLeaves ==
  ASSUME NEW files, IsFiniteSet(files), NEW old \in Oldest(files)
  PROVE  IsFiniteSet(files \ old) /\ Cardinality(files \ old) <= MetaMax
<1>1. old \subseteq files
  BY DEF Oldest
<1>2. /\ IsFiniteSet(old) /\ IsFiniteSet(files \ old)
      /\ Cardinality(files) \in Nat /\ Cardinality(old) \in Nat
      /\ Cardinality(files \ old) \in Nat
  BY <1>1, FS_Subset, FS_CardinalityType
<1>3. Cardinality(files \ old) = Cardinality(files) - Cardinality(old)
  <2>1. files \cap old = old
    BY <1>1
  <2>2. Cardinality(files \ old) = Cardinality(files) - Cardinality(files \cap old)
    BY FS_Difference
  <2>3. QED
    BY <2>1, <2>2
<1>4. Cardinality(old) = IF Cardinality(files) - MetaMax > 0
                           THEN Cardinality(files) - MetaMax ELSE 0
  BY DEF Oldest
<1>5. QED
  BY <1>2, <1>3, <1>4, MetaFacts

\* There are no more keys than files.
LEMMA KeysInBound ==
  ASSUME NEW files, IsFiniteSet(files)
  PROVE  IsFiniteSet(KeysIn(files)) /\ Cardinality(KeysIn(files)) <= Cardinality(files)
<1> DEFINE keyOf == [p \in files |-> p[1]]
<1>1. keyOf \in Surjection(files, KeysIn(files))
  BY DEF Surjection, KeysIn
<1>2. QED
  BY <1>1, FS_Surjection

\* A file adds its key.
LEMMA KeysInAdd ==
  ASSUME NEW files, NEW k, NEW age
  PROVE  KeysIn(files \cup {<<k, age>>}) = KeysIn(files) \cup {k}
<1>1. <<k, age>>[1] = k
  OBVIOUS
<1> DEFINE file == <<k, age>>
<1>. HIDE DEF file
<1>2. KeysIn(files \cup {file}) = KeysIn(files) \cup {file[1]}
  BY DEF KeysIn
<1>3. QED
  BY <1>1, <1>2 DEF file

\* A part of a bounded set is bounded.
LEMMA BoundKept ==
  ASSUME NEW S, NEW T, S \subseteq T, IsFiniteSet(T), Cardinality(T) <= MetaMax
  PROVE  Cardinality(S) <= MetaMax
<1>1. Cardinality(S) <= Cardinality(T) /\ Cardinality(S) \in Nat /\ Cardinality(T) \in Nat
  BY FS_Subset, FS_CardinalityType
<1>2. QED
  BY <1>1, MetaFacts

\* There are finitely many meta files.
LEMMA ExistingFinite == IsFiniteSet(Existing)
BY MetaFacts, FS_Subset DEF Existing

\* A file that another request creates during a prune counts as new to it.
LEMMA NewFilesKnown ==
  ASSUME MetaInv, NEW r \in Requests, Step(r), NEW q \in Requests, q # r,
         at[q] \in {"read", "remove", "unlink"}
  PROVE  Existing' \ since'[q] \subseteq Existing \ since[q]
<1>0. MetaTyped /\ FilesOK(r) /\ KeyOf[r] \in Keys
  BY MetaFacts DEF MetaInv
<1>1. CASE TouchOpen(r) \/ WriteOpen(r)
  <2>1. PICK k \in Keys :
          /\ meta' = [meta EXCEPT ![k] = Torn]
          /\ since' = IF Exists(k) THEN since
                      ELSE [p \in Requests |-> IF at[p] \in {"read", "remove", "unlink"}
                                                 THEN since[p] \cup {k} ELSE since[p]]
    BY <1>0, <1>1 DEF TouchOpen, WriteOpen, Open, FilesOK
  <2>2. Existing' = Existing \cup {k}
    BY <1>0, <2>1 DEF Existing, Exists, Torn, NoFile, MetaTyped, MetaTypeOK
  <2>3. CASE Exists(k)
    BY <2>1, <2>2, <2>3 DEF Existing
  <2>4. CASE ~Exists(k)
    <3>1. since'[q] = since[q] \cup {k}
      BY <2>1, <2>4
    <3>2. QED
      BY <2>2, <3>1
  <2>5. QED
    BY <2>3, <2>4
<1>2. CASE ~(TouchOpen(r) \/ WriteOpen(r))
  <2>1. since'[q] = since[q]
    <3>1. CASE TouchFill(r) \/ WriteFill(r) \/ TouchFillFails(r) \/ WriteFillFails(r)
      BY <1>0, <3>1, WriteCloses DEF Close, Rest
    <3>2. CASE RemoveMeta(r) \/ RemoveMetaFails(r)
      BY <1>0, <3>2 DEF RemoveMeta, RemoveMetaFails, RemoveOne, MetaTyped, MetaTypeOK
    <3>3. CASE UnlinkKv(r) \/ Pruned(r) \/ UnlinkKvFails(r)
      BY <1>0, <3>3 DEF UnlinkKv, Pruned, UnlinkKvFails, UnlinkNext, MetaTyped, MetaTypeOK
    <3>4. CASE Lookup(r) \/ Restore(r) \/ TouchRead(r) \/ StaleCheck(r) \/ Discard(r) \/ Chat(r)
               \/ Saved(r) \/ SaveLost(r) \/ List(r) \/ Read(r) \/ Dropped(r)
               \/ GiveUp(r) \/ WriteOpenFails(r)
      BY <1>0, <3>4
         DEF Lookup, Restore, TouchRead, StaleCheck, Discard, Chat, Saved, SaveLost, List, Read,
             Dropped, GiveUp, WriteOpenFails, Rest, MetaTyped, MetaTypeOK
    <3> QED BY <1>2, <3>1, <3>2, <3>3, <3>4 DEF Step
  <2>2. UNCHANGED <<meta, linked>> \/ at[r] \notin {"reopen", "write"}
    BY <1>2
       DEF Step, Lookup, Restore, TouchRead, TouchFill, StaleCheck, Discard, Chat,
           Saved, SaveLost, WriteFill, List, Read, RemoveMeta, UnlinkKv, Pruned, Dropped,
           GiveUp, TouchFillFails, WriteOpenFails, WriteFillFails, RemoveMetaFails,
           UnlinkKvFails, fileVars
  <2>3. Existing' \subseteq Existing
    <3>1. CASE UNCHANGED <<meta, linked>>
      BY <3>1 DEF Existing, Exists
    <3>2. ASSUME NEW k \in Keys, Unlink(k)
          PROVE  Existing' \subseteq Existing
      BY <1>0, <3>2 DEF Unlink, Existing, Exists, MetaTyped, MetaTypeOK
    <3>3. QED
      BY <2>2, <3>1, <3>2, FileSteps
  <2>4. QED
    BY <2>1, <2>3
<1>3. QED
  BY <1>1, <1>2

\* What others do between the calls of a prune is in since.
LEMMA OtherPruneOK ==
  ASSUME MetaInv, NEW r \in Requests, Step(r), NEW q \in Requests, q # r
  PROVE  PruneOK(q)'
<1>1. /\ MetaTyped /\ PruneOK(q)
      /\ at'[q] = at[q] /\ todo'[q] = todo[q] /\ seen'[q] = seen[q]
  BY OthersStay DEF MetaInv, Others
<1>2. at[q] \in {"read", "remove", "unlink"} =>
        Existing' \ since'[q] \subseteq Existing \ since[q]
  BY NewFilesKnown
<1>3. CASE at[q] = "read"
  BY <1>1, <1>2, <1>3 DEF PruneOK
<1>4. CASE at[q] = "remove"
  <2>1. Existing' \ (since'[q] \cup todo'[q]) \subseteq Existing \ (since[q] \cup todo[q])
    BY <1>1, <1>2, <1>4
  <2>2. IsFiniteSet(Existing \ (since[q] \cup todo[q]))
    BY ExistingFinite, FS_Subset
  <2>3. QED
    BY <1>1, <1>4, <2>1, <2>2, BoundKept DEF PruneOK
<1>5. CASE at[q] = "unlink"
  <2>1. IsFiniteSet(Existing \ since[q])
    BY ExistingFinite, FS_Subset
  <2>2. QED
    BY <1>1, <1>2, <1>5, <2>1, BoundKept DEF PruneOK
<1>6. CASE at[q] \notin {"read", "remove", "unlink"}
  BY <1>1, <1>6 DEF PruneOK
<1>7. QED
  BY <1>3, <1>4, <1>5, <1>6

\* One file read.
LEMMA ReadPruneOK ==
  ASSUME MetaInv, NEW r \in Requests, Read(r)
  PROVE  PruneOK(r)'
<1>0. /\ MetaTyped /\ at[r] = "read" /\ IsFiniteSet(seen[r])
      /\ Existing \ since[r] \subseteq todo[r] \cup KeysIn(seen[r])
      /\ since' = since /\ Existing' = Existing
  BY DEF MetaInv, PruneOK, Read, fileVars, Existing, Exists
<1>1. PICK k, all, age :
        /\ k \in todo[r] /\ all = seen[r] \cup {<<k, age>>}
        /\ age \in {Torn} \cup (IF Exists(k) THEN {meta[k]} ELSE {})
        /\ ReadNext(r, k, all)
  BY DEF Read
<1>2. IsFiniteSet(all)
  BY <1>0, <1>1, FS_AddElement
<1>3. KeysIn(all) = KeysIn(seen[r]) \cup {k}
  BY <1>1, KeysInAdd
<1>4. CASE todo[r] # {k}
  <2>1. todo'[r] = todo[r] \ {k} /\ seen'[r] = all /\ at'[r] = "read"
    BY <1>0, <1>1, <1>4 DEF ReadNext, MetaTyped, MetaTypeOK
  <2>2. Existing' \ since'[r] \subseteq todo'[r] \cup KeysIn(seen'[r])
    BY <1>0, <1>3, <2>1
  <2>3. KeysIn(seen[r])' = KeysIn(seen'[r])
    BY DEF KeysIn
  <2>4. QED
    BY <1>2, <2>1, <2>2, <2>3 DEF PruneOK
<1>5. CASE todo[r] = {k}
  <2>1. PICK old \in Oldest(all) :
          /\ todo' = [todo EXCEPT ![r] = KeysIn(old)]
          /\ Goto(r, IF old = {} THEN "unlink" ELSE "remove")
    BY <1>1, <1>5 DEF ReadNext, KeysIn
  <2>2. /\ todo'[r] = KeysIn(old) /\ seen'[r] = {}
        /\ at'[r] = IF old = {} THEN "unlink" ELSE "remove"
    BY <1>0, <1>1, <1>5, <2>1 DEF ReadNext, Goto, MetaTyped, MetaTypeOK
  <2>3. Existing \ since[r] \subseteq KeysIn(all)
    BY <1>0, <1>3, <1>5
  <2>4. KeysIn(all) \ KeysIn(old) \subseteq KeysIn(all \ old)
    BY DEF KeysIn
  <2>5. IsFiniteSet(KeysIn(all \ old)) /\ Cardinality(KeysIn(all \ old)) <= MetaMax
    <3>1. IsFiniteSet(all \ old) /\ Cardinality(all \ old) <= MetaMax
      BY <1>2, OldestLeaves
    <3>2. IsFiniteSet(KeysIn(all \ old))
          /\ Cardinality(KeysIn(all \ old)) <= Cardinality(all \ old)
      BY <3>1, KeysInBound
    <3>3. Cardinality(all \ old) \in Nat /\ Cardinality(KeysIn(all \ old)) \in Nat
      BY <3>1, <3>2, FS_CardinalityType
    <3>4. QED
      BY <3>1, <3>2, <3>3, MetaFacts
  <2>6. Cardinality(Existing \ (since[r] \cup KeysIn(old))) <= MetaMax
    <3>1. Existing \ (since[r] \cup KeysIn(old)) \subseteq KeysIn(all \ old)
      BY <2>3, <2>4
    <3>2. QED
      BY <3>1, <2>5, BoundKept
  <2>7. old = {} => Existing \ (since[r] \cup KeysIn(old)) = Existing \ since[r]
    BY DEF KeysIn
  <2>8. QED
    BY <1>0, <2>2, <2>6, <2>7, FS_EmptySet DEF PruneOK
<1>6. QED
  BY <1>4, <1>5

\* One meta file unlinked, or not.
LEMMA RemovePruneOK ==
  ASSUME MetaInv, NEW r \in Requests, RemoveMeta(r) \/ RemoveMetaFails(r)
  PROVE  PruneOK(r)'
<1>0. /\ MetaTyped /\ at[r] = "remove" /\ IsFiniteSet(seen[r])
      /\ Cardinality(Existing \ (since[r] \cup todo[r])) <= MetaMax
  BY DEF MetaInv, PruneOK, RemoveMeta, RemoveMetaFails
<1>1. PICK k, gone :
        /\ k \in todo[r]
        /\ RemoveNext(r, k, gone)
        /\ \/ Unlink(k) /\ since' = since
           \/ meta' = meta /\ since' = [since EXCEPT ![r] = @ \cup {k}]
  BY DEF RemoveMeta, RemoveMetaFails, RemoveOne
<1>2. /\ seen' = seen
      /\ \/ Existing' = Existing \ {k} /\ since'[r] = since[r]
         \/ Existing' = Existing /\ since'[r] = since[r] \cup {k}
  BY <1>0, <1>1 DEF RemoveNext, Unlink, Existing, Exists, MetaTyped, MetaTypeOK
<1>3. CASE todo[r] # {k}
  <2>1. todo'[r] = todo[r] \ {k} /\ at'[r] = "remove"
    BY <1>0, <1>1, <1>3 DEF RemoveNext, MetaTyped, MetaTypeOK
  <2>2. Existing' \ (since'[r] \cup todo'[r]) = Existing \ (since[r] \cup todo[r])
    BY <1>1, <1>2, <2>1
  <2>3. QED
    BY <1>0, <1>2, <2>1, <2>2 DEF PruneOK
<1>4. CASE todo[r] = {k}
  <2>1. at'[r] = "unlink"
    BY <1>0, <1>1, <1>4 DEF RemoveNext, Goto, MetaTyped, MetaTypeOK
  <2>2. Existing' \ since'[r] = Existing \ (since[r] \cup todo[r])
    BY <1>2, <1>4
  <2>3. QED
    BY <1>0, <1>2, <2>1, <2>2 DEF PruneOK
<1>5. QED
  BY <1>3, <1>4

\* Every step keeps the bound each prune works towards.
LEMMA PruneNext ==
  ASSUME MetaInv, Next
  PROVE  \A r \in Requests : PruneOK(r)'
<1>0. MetaTyped /\ \A r \in Requests : PruneOK(r)
  BY DEF MetaInv
<1>1. ASSUME Restart, NEW r \in Requests
      PROVE  PruneOK(r)'
  <2>1. at'[r] \in {"new", "done"} /\ seen'[r] = {}
    BY <1>1 DEF Restart
  <2>2. QED
    BY <2>1, FS_EmptySet DEF PruneOK
<1>2. ASSUME NEW r \in Requests, List(r)
      PROVE  PruneOK(r)'
  <2>1. /\ todo'[r] = Existing /\ since'[r] = {} /\ Existing' = Existing
        /\ seen' = seen /\ at'[r] \in {"read", "done"}
    BY <1>0, <1>2 DEF List, Goto, fileVars, Existing, Exists, MetaTyped, MetaTypeOK
  <2>2. QED
    BY <1>0, <2>1 DEF PruneOK
<1>3. ASSUME NEW r \in Requests, UnlinkKv(r) \/ Pruned(r) \/ UnlinkKvFails(r)
      PROVE  PruneOK(r)'
  <2>1. /\ Existing' = Existing /\ seen' = seen /\ at[r] = "unlink"
        /\ at'[r] = "done" \/ (at'[r] = "unlink" /\ since'[r] = since[r])
    BY <1>0, <1>3 DEF UnlinkKv, Pruned, UnlinkKvFails, UnlinkNext, Goto, fileVars,
                      Existing, Exists, MetaTyped, MetaTypeOK
  <2>2. QED
    BY <1>0, <2>1 DEF PruneOK
<1>4. ASSUME NEW r \in Requests, Step(r),
             ~(List(r) \/ Read(r) \/ RemoveMeta(r) \/ RemoveMetaFails(r)
               \/ UnlinkKv(r) \/ Pruned(r) \/ UnlinkKvFails(r))
      PROVE  PruneOK(r)'
  <2>1. at'[r] \notin {"read", "remove", "unlink"} /\ seen' = seen
    <3>1. CASE TouchFill(r) \/ WriteFill(r) \/ TouchFillFails(r) \/ WriteFillFails(r)
      BY <1>0, <3>1, WriteCloses DEF Close, Goto, Rest, MetaTyped, MetaTypeOK
    <3>2. CASE ~(TouchFill(r) \/ WriteFill(r) \/ TouchFillFails(r) \/ WriteFillFails(r))
      BY <1>0, <1>4, <3>2
         DEF Step, Lookup, Restore, TouchRead, TouchOpen, StaleCheck, Discard, Chat, Saved,
             SaveLost, WriteOpen, GiveUp, WriteOpenFails, Dropped, Goto, Rest, Open,
             MetaTyped, MetaTypeOK
    <3> QED BY <3>1, <3>2
  <2>2. QED
    BY <1>0, <2>1 DEF PruneOK
<1>5. QED
  BY <1>1, <1>2, <1>3, <1>4, OtherPruneOK, ReadPruneOK, RemovePruneOK DEF Next

--------------------------------------------------------------------------------
(* KV files.                                                                 *)

\* r is at work on k's KV file without a meta file.
Works(r, k) ==
  \/ at[r] = "write" /\ KeyOf[r] = k
  \/ at[r] = "remove" /\ k \in removed[r]
  \/ at[r] = "unlink" /\ k \in todo[r]

\* A step of one request leaves the others at their work.
LEMMA OthersWork ==
  ASSUME MetaTyped, NEW r \in Requests, Step(r), NEW q \in Requests, q # r, NEW k
  PROVE  Works(q, k)' <=> Works(q, k)
BY OthersStay DEF Works, Others

\* A KV file that has lost its entry has somebody at work on it, or is a stray.
LEMMA KvStep ==
  ASSUME MetaInv, NEW r \in Requests, Step(r), NEW k \in kv', ~Exists(k)'
  PROVE  k \in strays' \/ \E q \in Requests : Works(q, k)'
<1>0. MetaTyped /\ FilesOK(r) /\ KeyOf[r] \in Keys
  BY MetaFacts DEF MetaInv
<1>1. k \in kv /\ ~Exists(k) => k \in strays \/ \E q \in Requests : Works(q, k)
  BY DEF MetaInv, KvAccounted, Works
<1>2. ASSUME NEW q \in Requests, Works(q, k), q # r \/ ~Works(r, k)
      PROVE  \E p \in Requests : Works(p, k)'
  BY <1>0, <1>2, OthersWork
<1>3. CASE Lookup(r) \/ Restore(r) \/ TouchRead(r) \/ StaleCheck(r) \/ Chat(r) \/ List(r)
           \/ Read(r) \/ Dropped(r) \/ GiveUp(r)
  <2>1. UNCHANGED <<meta, kv, strays>> /\ ~Works(r, k)
    BY <1>3 DEF Lookup, Restore, TouchRead, StaleCheck, Chat, List, Read, Dropped, GiveUp,
                fileVars, Works
  <2>2. QED
    BY <1>1, <1>2, <2>1 DEF Exists
<1>4. CASE TouchOpen(r) \/ WriteOpen(r)
  <2>1. PICK j \in Keys :
          /\ meta' = [meta EXCEPT ![j] = Torn] /\ strays' = strays \ {j} /\ kv' = kv
          /\ at[r] = "reopen" \/ (at[r] = "write" /\ j = KeyOf[r])
    BY <1>0, <1>4 DEF TouchOpen, WriteOpen, Open, FilesOK
  <2>2. k # j /\ k \in kv /\ ~Exists(k)
    BY <1>0, <2>1 DEF Exists, Torn, NoFile, MetaTyped, MetaTypeOK
  <2>3. ~Works(r, k)
    BY <2>1, <2>2 DEF Works
  <2>4. QED
    BY <1>1, <1>2, <2>1, <2>2, <2>3
<1>5. CASE TouchFill(r) \/ WriteFill(r) \/ TouchFillFails(r) \/ WriteFillFails(r)
  <2>1. at[r] \in {"refill", "fill"} /\ kv' = kv /\ strays' = strays
    BY <1>0, <1>5, WriteCloses DEF Close
  <2>2. ~Works(r, k)
    BY <2>1 DEF Works
  <2>3. k \in Keys /\ ~Exists(k)
    <3>1. Existing' = Existing \/ UNCHANGED meta
      BY <2>1, FileSteps DEF Existing, Exists
    <3>2. k \in Keys
      BY <1>0, <2>1 DEF MetaTyped, MetaTypeOK
    <3>3. QED
      BY <3>1, <3>2 DEF Existing, Exists
  <2>4. QED
    BY <1>1, <1>2, <2>1, <2>2, <2>3
<1>6. CASE Discard(r)
  <2>1. /\ at[r] = "discard" /\ cand[r] \in Keys /\ kv' = kv
        /\ meta' = [meta EXCEPT ![cand[r]] = NoFile]
        /\ strays' = IF Exists(cand[r]) THEN strays \cup (kv \cap {cand[r]}) ELSE strays
    BY <1>0, <1>6 DEF Discard, Unlink, FilesOK
  <2>2. ~Works(r, k)
    BY <2>1 DEF Works
  <2>3. CASE ~Exists(k)
    BY <1>1, <1>2, <2>1, <2>2, <2>3
  <2>4. CASE Exists(k)
    <3>1. k = cand[r]
      BY <1>0, <2>1, <2>4 DEF Exists, MetaTyped, MetaTypeOK
    <3>2. QED
      BY <2>1, <2>4, <3>1
  <2>5. QED
    BY <2>3, <2>4
<1>7. CASE Saved(r)
  <2>1. at[r] = "save" /\ meta' = meta /\ strays' = strays /\ ~Works(r, k)
    BY <1>7 DEF Saved, Works
  <2>2. CASE k \in kv
    BY <1>1, <1>2, <2>1, <2>2 DEF Exists
  <2>3. CASE k \notin kv
    <3>1. k = KeyOf[r] /\ at'[r] = "write"
      BY <1>0, <1>7, <2>3 DEF Saved, Goto, MetaTyped, MetaTypeOK
    <3>2. Works(r, k)'
      BY <3>1 DEF Works
    <3>3. QED
      BY <3>2
  <2>4. QED
    BY <2>2, <2>3
<1>8. CASE SaveLost(r)
  <2>1. at[r] = "save" /\ meta' = meta /\ strays \subseteq strays' /\ ~Works(r, k)
    BY <1>8 DEF SaveLost, Works
  <2>2. CASE k \in kv
    BY <1>1, <1>2, <2>1, <2>2 DEF Exists
  <2>3. CASE k \notin kv
    BY <1>8, <2>1, <2>3 DEF SaveLost, Exists
  <2>4. QED
    BY <2>2, <2>3
<1>9. CASE RemoveMeta(r)
  <2>1. PICK j \in todo[r] : RemoveOne(r, j, Exists(j))
    BY <1>9 DEF RemoveMeta
  <2>2. /\ at[r] = "remove" /\ j \in Keys /\ kv' = kv /\ strays' = strays
        /\ meta' = [meta EXCEPT ![j] = NoFile]
    BY <1>0, <1>9, <2>1 DEF RemoveMeta, RemoveOne, RemoveNext, Unlink, MetaTyped, MetaTypeOK
  <2>3. \/ at'[r] = "remove" /\ removed[r] \subseteq removed'[r]
                             /\ (Exists(j) => j \in removed'[r])
        \/ at'[r] = "unlink" /\ removed[r] \subseteq todo'[r]
                             /\ (Exists(j) => j \in todo'[r])
    BY <1>0, <2>1, <2>2 DEF RemoveOne, RemoveNext, Goto, MetaTyped, MetaTypeOK
  <2>4. CASE Exists(k)
    <3>1. k = j
      BY <1>0, <2>2, <2>4 DEF Exists, MetaTyped, MetaTypeOK
    <3>2. Works(r, k)'
      BY <2>3, <2>4, <3>1 DEF Works
    <3>3. QED
      BY <3>2
  <2>5. CASE ~Exists(k)
    <3>1. Works(r, k) => Works(r, k)'
      BY <2>2, <2>3 DEF Works
    <3>2. QED
      BY <1>1, <1>2, <2>2, <2>5, <3>1
  <2>6. QED
    BY <2>4, <2>5
<1>10. CASE UnlinkKv(r)
  <2>1. /\ at[r] = "unlink" /\ meta' = meta /\ k \in kv
        /\ \E j \in todo[r] : /\ k # j /\ strays' = strays \ {j} /\ at' = at
                              /\ todo'[r] = todo[r] \ {j}
    BY <1>0, <1>10 DEF UnlinkKv, UnlinkNext, MetaTyped, MetaTypeOK
  <2>2. k \in strays => k \in strays'
    BY <2>1
  <2>3. Works(r, k) => Works(r, k)'
    BY <2>1 DEF Works
  <2>4. QED
    BY <1>1, <1>2, <2>1, <2>2, <2>3 DEF Exists
<1>11. CASE Pruned(r)
  <2>1. UNCHANGED <<meta, kv, strays>> /\ ~Works(r, k)
    BY <1>11 DEF Pruned, fileVars, Works
  <2>2. QED
    BY <1>1, <1>2, <2>1 DEF Exists
<1>12. CASE WriteOpenFails(r)
  <2>1. meta' = meta /\ kv' = kv /\ strays' = StrayWith(KeyOf[r])
    BY <1>12 DEF WriteOpenFails, fileVars
  <2>2. CASE k = KeyOf[r]
    BY <2>1, <2>2 DEF StrayWith, Exists
  <2>3. CASE k # KeyOf[r]
    <3>1. ~Works(r, k)
      BY <1>12, <2>3 DEF WriteOpenFails, Works
    <3> QED BY <1>1, <1>2, <2>1, <3>1 DEF StrayWith, Exists
  <2> QED BY <2>2, <2>3
<1>13. CASE RemoveMetaFails(r)
  <2>1. PICK j \in todo[r] : RemoveNext(r, j, removed[r])
    BY <1>13 DEF RemoveMetaFails
  <2>2. at[r] = "remove" /\ meta' = meta /\ kv' = kv /\ strays' = strays
    BY <1>13, <2>1 DEF RemoveMetaFails, RemoveNext
  <2>3. Works(r, k) => Works(r, k)'
    BY <1>0, <2>1, <2>2 DEF RemoveNext, Goto, Works, MetaTyped, MetaTypeOK
  <2> QED BY <1>1, <1>2, <2>2, <2>3 DEF Exists
<1>14. CASE UnlinkKvFails(r)
  <2>1. PICK j \in todo[r] : strays' = StrayWith(j) /\ UnlinkNext(r, j)
    BY <1>14 DEF UnlinkKvFails
  <2>2. at[r] = "unlink" /\ at' = at /\ meta' = meta /\ kv' = kv
    BY <1>14, <2>1 DEF UnlinkKvFails, UnlinkNext
  <2>3. CASE k = j
    BY <2>1, <2>2, <2>3 DEF StrayWith, Exists
  <2>4. CASE k # j
    <3>1. Works(r, k) => Works(r, k)'
      BY <1>0, <2>1, <2>2, <2>4 DEF UnlinkNext, Works, MetaTyped, MetaTypeOK
    <3> QED BY <1>1, <1>2, <2>1, <2>2, <3>1 DEF StrayWith, Exists
  <2> QED BY <2>3, <2>4
<1>15. QED
  BY <1>3, <1>4, <1>5, <1>6, <1>7, <1>8, <1>9, <1>10, <1>11, <1>12, <1>13, <1>14 DEF Step

\* At the start nobody works.
LEMMA MetaInvInit == Init => MetaInv
<1>1. ASSUME Init
      PROVE  MetaInv
  <2>1. MetaTyped
    BY <1>1, MetaTypedInit
  <2>2. \A r \in Requests : FilesOK(r) /\ PruneOK(r)
    BY <1>1, FS_EmptySet DEF Init, FilesOK, PruneOK
  <2>3. KvAccounted
    <3>1. PICK old \in SetToAllKPermutations(Keys) :
            /\ meta = [k \in Keys |-> IF k \in Range(old)
                         THEN CHOOSE i \in DOMAIN old : old[i] = k ELSE NoFile]
            /\ kv \in SUBSET Range(old)
      BY <1>1 DEF Init
    <3>2. ASSUME NEW k \in kv
          PROVE  Exists(k)
      <4>1. k \in Keys /\ meta[k] = CHOOSE i \in DOMAIN old : old[i] = k
        BY <2>1, <3>1, <3>2 DEF MetaTyped, MetaTypeOK
      <4>2. \E i \in DOMAIN old : old[i] = k
        BY <3>1, <3>2 DEF Range
      <4>3. meta[k] \in DOMAIN old
        BY <4>1, <4>2
      <4>4. DOMAIN old \subseteq Nat
        <5>1. PICK s \in SUBSET Keys : old \in [1..Cardinality(s) -> s]
          BY <3>1 DEF SetToAllKPermutations, SetToSeqs
        <5>2. QED
          BY <5>1
      <4>5. QED
        BY <4>3, <4>4 DEF Exists, NoFile
    <3>3. QED
      BY <3>2 DEF KvAccounted
  <2>4. QED
    BY <2>1, <2>2, <2>3 DEF MetaInv
<1>2. QED
  BY <1>1

\* Every step, and a restart, keeps the invariant.
LEMMA MetaInvNext == MetaInv /\ [Next]_vars => MetaInv'
<1>1. ASSUME MetaInv, Next
      PROVE  MetaInv'
  <2>1. MetaTyped' /\ \A r \in Requests : FilesOK(r)' /\ PruneOK(r)'
    BY <1>1, MetaTypedNext, FilesNext, PruneNext
  <2>2. KvAccounted'
    <3>1. CASE Restart
      BY <1>1, <3>1 DEF Restart, fileVars, KvAccounted, Exists
    <3>2. CASE \E r \in Requests : Step(r)
      BY <1>1, <3>2, KvStep DEF KvAccounted, Works
    <3>3. QED
      BY <1>1, <3>1, <3>2 DEF Next
  <2>3. QED
    BY <2>1, <2>2 DEF MetaInv
<1>2. ASSUME MetaInv, UNCHANGED vars
      PROVE  MetaInv'
  BY <1>2 DEF vars, fileVars, ownVars, MetaInv, MetaTyped, MetaTypeOK, FilesOK, PruneOK,
              OpenKey, Existing, Exists, KeysIn, KvAccounted
<1>3. QED
  BY <1>1, <1>2

\* However the file operations of all requests interleave, and across restarts.
THEOREM MetaInvariant == Spec => []MetaInv
<1>1. QED
  BY MetaInvInit, MetaInvNext, PTL DEF Spec

\* Every value stays in its range; timestamps never run ahead of the clock.
THEOREM MetaTypeCorrect == Spec => []MetaTypeOK
<1>1. MetaInv => MetaTypeOK
  BY DEF MetaInv, MetaTyped
<1>2. QED
  BY <1>1, MetaInvariant, PTL

\* The cache is bounded: when a prune has unlinked its victims there are at most
\* META_MAX entries besides those created since it listed them.
THEOREM PruneIsBounded == Spec => []PruneBounds
<1>1. MetaInv => PruneBounds
  BY DEF MetaInv, PruneOK, PruneBounds, Existing
<1>2. QED
  BY <1>1, MetaInvariant, PTL

\* A KV file without a meta file has somebody at work on it, or was left by one of
\* the known accidents.
THEOREM NoKvForgotten == Spec => []KvAccounted
<1>1. MetaInv => KvAccounted
  BY DEF MetaInv
<1>2. QED
  BY <1>1, MetaInvariant, PTL

--------------------------------------------------------------------------------
(* The lookup of a restore candidate.                                         *)

\* A set of numbers has a smallest one.
LEMMA LeastOf ==
  ASSUME NEW S \in SUBSET Nat, S # {}
  PROVE  \E x \in S : \A y \in S : x <= y
<1> DEFINE R == {p \in Nat \X Nat : p[1] < p[2]}
<1>1. IsWellFoundedOn(R, Nat)
  BY NatLessThanWellFounded DEF OpToRel
<1>2. PICK x \in S : \A y \in S : <<y, x>> \notin R
  <2> HIDE DEF R
  <2> QED BY <1>1, WFMin
<1>3. ASSUME NEW y \in S
      PROVE  x <= y
  <2>1. x \in Nat /\ y \in Nat
    OBVIOUS
  <2>2. y < x => <<y, x>> \in R
    BY <2>1
  <2> QED BY <1>2, <2>1, <2>2
<1> QED BY <1>3

\* A bounded one has a largest.
LEMMA LargestOf ==
  ASSUME NEW n \in Nat, NEW S \in SUBSET (0..n), S # {}
  PROVE  \E x \in S : \A y \in S : y <= x
<1> DEFINE T == {n - x : x \in S}
<1>0. ASSUME NEW x \in S
      PROVE  x \in 0..n /\ n - x \in Nat
  <2>1. x \in 0..n
    OBVIOUS
  <2> QED BY <2>1
<1>1. T \in SUBSET Nat /\ T # {}
  BY <1>0
<1>2. PICK t \in T : \A u \in T : t <= u
  <2> HIDE DEF T
  <2> QED BY <1>1, LeastOf
<1>3. PICK x \in S : t = n - x
  BY <1>2
<1>4. ASSUME NEW y \in S
      PROVE  y <= x
  <2>1. n - y \in T
    OBVIOUS
  <2>2. n - x <= n - y
    BY <1>2, <1>3, <2>1
  <2> QED BY <2>2
<1> QED BY <1>4

\* The ratio of an entry is a fraction.
LEMMA RatioType ==
  ASSUME NEW r \in Requests, NEW k \in Keys
  PROVE  Ratio(r, k) \in Nat \X (Nat \ {0})
<1> DEFINE a == Blocks[KeyOf[r]]
           b == Blocks[k]
           common == CommonPrefixes({a, b})
<1>1. a \in Seq(Nat) /\ b \in Seq(Nat) /\ Len(a) \in Nat /\ Len(b) \in Nat
  BY MetaAssumption
<1>2. <<>> \in common
  <2>1. SubSeq(a, 1, 0) = <<>> /\ SubSeq(b, 1, 0) = <<>>
    BY <1>1
  <2>2. <<>> \in Prefixes(a)
    BY <1>1, <2>1 DEF Prefixes
  <2>3. IsPrefix(<<>>, a) /\ IsPrefix(<<>>, b)
    BY <1>1, <2>1 DEF IsPrefix
  <2> QED BY <2>2, <2>3 DEF CommonPrefixes
<1>3. ASSUME NEW p \in common
      PROVE  Len(p) \in 0..Len(a)
  <2>1. PICK s \in {a, b} : p \in Prefixes(s)
    BY DEF CommonPrefixes
  <2>2. PICK l \in 0..Len(s) : p = SubSeq(s, 1, l)
    BY <2>1 DEF Prefixes
  <2>3. s \in Seq(Nat) /\ l \in Nat /\ l <= Len(s)
    BY <1>1, <2>1, <2>2
  <2>4. Len(p) = l
    BY <2>2, <2>3
  <2>5. Len(p) <= Len(a)
    BY DEF CommonPrefixes, IsPrefix
  <2> QED BY <2>3, <2>4, <2>5
<1>4. PICK p \in common : \A q \in common : Len(q) <= Len(p)
  <2> DEFINE lengths == {Len(q) : q \in common}
  <2>1. lengths \in SUBSET (0..Len(a)) /\ lengths # {}
    BY <1>2, <1>3
  <2>2. PICK x \in lengths : \A y \in lengths : y <= x
    <3> HIDE DEF lengths
    <3> QED BY <1>1, <2>1, LargestOf
  <2> QED BY <2>2
<1>5. LongestCommonPrefix({a, b}) \in common
  <2> HIDE DEF common
  <2>1. LongestCommonPrefix({a, b}) =
          CHOOSE longest \in common : \A other \in common : Len(other) <= Len(longest)
    BY DEF LongestCommonPrefix, common
  <2> QED BY <1>4, <2>1
<1>6. LcpBlocks(a, b) \in Nat
  BY <1>1, <1>3, <1>5 DEF LcpBlocks
<1> QED BY <1>1, <1>6 DEF Ratio

\* Fractions are compared by products.
LEMMA Times ==
  ASSUME NEW a \in Int, NEW b \in Int, NEW c \in Nat \ {0}
  PROVE  a <= b <=> a * c <= b * c
OBVIOUS

\* What is not more than p is not more than something that is more than p.
LEMMA StillNotLess ==
  ASSUME NEW p \in Nat \X (Nat \ {0}), NEW q \in Nat \X (Nat \ {0}), NEW s \in Nat \X (Nat \ {0}),
         Less(p, q), ~Less(p, s)
  PROVE  ~Less(q, s)
<1> DEFINE p1 == p[1]  p2 == p[2]  q1 == q[1]  q2 == q[2]  s1 == s[1]  s2 == s[2]
<1>1. p1 \in Nat /\ q1 \in Nat /\ s1 \in Nat /\ p2 \in Nat \ {0} /\ q2 \in Nat \ {0} /\ s2 \in Nat \ {0}
  OBVIOUS
<1>2. p1 * q2 <= q1 * p2 /\ s1 * p2 <= p1 * s2
  BY DEF Less
<1> SUFFICES s1 * q2 <= q1 * s2
  BY DEF Less
<1> HIDE DEF p1, p2, q1, q2, s1, s2
<1>3. (p1 * q2) * s2 <= (q1 * p2) * s2
  BY <1>1, <1>2, Times
<1>4. (s1 * p2) * q2 <= (p1 * s2) * q2
  BY <1>1, <1>2, Times
<1>5. (s1 * p2) * q2 = (s1 * q2) * p2 /\ (q1 * p2) * s2 = (q1 * s2) * p2
      /\ (p1 * q2) * s2 = (p1 * s2) * q2
  BY <1>1
<1>6. (s1 * q2) * p2 <= (q1 * s2) * p2
  <2> DEFINE u == (p1 * s2) * q2  v == (s1 * q2) * p2  w == (q1 * s2) * p2
  <2>1. u \in Int /\ v \in Int /\ w \in Int
    BY <1>1
  <2>2. v <= u /\ u <= w
    BY <1>3, <1>4, <1>5
  <2> HIDE DEF u, v, w
  <2>3. v <= w
    BY <2>1, <2>2
  <2> QED BY <2>3 DEF v, w
<1> QED
  <2>1. s1 * q2 \in Int /\ q1 * s2 \in Int
    BY <1>1
  <2> DEFINE x == s1 * q2  y == q1 * s2
  <2> HIDE DEF x, y
  <2>2. x <= y
    BY <1>1, <1>6, <2>1, Times DEF x, y
  <2> QED BY <2>2 DEF x, y

\* Whatever is more than a fraction is positive.
LEMMA MoreIsPositive ==
  ASSUME NEW p \in Nat \X (Nat \ {0}), NEW q \in Nat \X (Nat \ {0}), Less(p, q)
  PROVE  q[1] > 0
<1>1. q[1] = 0 => q[1] * p[2] = 0
  OBVIOUS
<1>2. p[1] * q[2] >= 0
  OBVIOUS
<1> QED BY <1>1, <1>2 DEF Less

\* The last of an initial piece.
LEMMA LargestOfUpto ==
  ASSUME NEW m \in Nat, NEW s \in SUBSET (1..m), m \in s
  PROVE  Max(s) = m
<1>1. \A y \in s : m >= y
  OBVIOUS
<1>2. \A x \in s : (\A y \in s : x >= y) => x = m
  OBVIOUS
<1> QED BY <1>1, <1>2 DEF Max

\* The scan is a fold: f has what it makes of each set of places in the order.  That
\* there is such a function, and what it makes of the whole order, is shown by the
\* least number of places for which it would be otherwise.
Scans(f, n, r, order) ==
  f = [s \in SUBSET (1..n) |->
         IF s = {} THEN NoKey ELSE Prefer(r, f[s \ {Max(s)}], order[Max(s)])]

\* One place more.
LEMMA ScanExtends ==
  ASSUME NEW r, NEW order, NEW m \in Nat,
         NEW f, Scans(f, m, r, order)
  PROVE  \E g : Scans(g, m + 1, r, order)
<1> DEFINE big == SUBSET (1..m + 1)
           g == [s \in big |-> IF m + 1 \in s THEN Prefer(r, f[s \ {m + 1}], order[m + 1]) ELSE f[s]]
<1>1. ASSUME NEW s \in big, m + 1 \in s
      PROVE  g[s] = Prefer(r, g[s \ {Max(s)}], order[Max(s)]) /\ s # {}
  <2>1. Max(s) = m + 1
    BY <1>1, LargestOfUpto
  <2>2. s \ {m + 1} \in big /\ m + 1 \notin s \ {m + 1}
    OBVIOUS
  <2> QED BY <1>1, <2>1, <2>2
<1>2. ASSUME NEW s \in big, m + 1 \notin s, s # {}
      PROVE  g[s] = Prefer(r, g[s \ {Max(s)}], order[Max(s)])
  <2>0. \A i \in s : i \in 1..m
    <3>1. ASSUME NEW i \in s
          PROVE  i \in 1..m
      <4>1. i \in 1..m + 1 /\ i # m + 1
        BY <1>2
      <4> QED BY <4>1
    <3> QED BY <3>1
  <2>1. s \in SUBSET (1..m) /\ s \ {Max(s)} \in big /\ s \ {Max(s)} \in SUBSET (1..m)
    BY <2>0
  <2>2. g[s] = f[s] /\ g[s \ {Max(s)}] = f[s \ {Max(s)}]
    BY <1>2, <2>1
  <2>3. f[s] = Prefer(r, f[s \ {Max(s)}], order[Max(s)])
    BY <1>2, <2>1 DEF Scans
  <2> QED BY <2>2, <2>3
<1>3. {} \in SUBSET (1..m) /\ f[{}] = NoKey
  BY DEF Scans
<1>4. ASSUME NEW s \in big
      PROVE  g[s] = IF s = {} THEN NoKey ELSE Prefer(r, g[s \ {Max(s)}], order[Max(s)])
  <2>1. CASE s = {}
    BY <1>3, <2>1
  <2>2. CASE s # {}
    BY <1>1, <1>2, <2>2
  <2> QED BY <2>1, <2>2
<1>5. Scans(g, m + 1, r, order)
  <2> DEFINE h == [s \in big |-> IF s = {} THEN NoKey ELSE Prefer(r, g[s \ {Max(s)}], order[Max(s)])]
  <2>1. DOMAIN g = big /\ DOMAIN h = big /\ g = [s \in big |-> g[s]]
    OBVIOUS
  <2>2. \A s \in big : g[s] = h[s]
    BY <1>4
  <2> HIDE DEF g
  <2>3. g = h
    BY <2>1, <2>2
  <2> QED BY <2>3 DEF Scans
<1> QED BY <1>5

\* Any number of places.
LEMMA ScanExists ==
  ASSUME NEW n \in Nat, NEW r, NEW order
  PROVE  \E f : Scans(f, n, r, order)
<1> DEFINE missing == {m \in Nat : ~ \E f : Scans(f, m, r, order)}
<1> SUFFICES missing = {}
  OBVIOUS
<1> SUFFICES ASSUME missing # {} PROVE FALSE
  OBVIOUS
<1>1. PICK m \in missing : \A k \in missing : m <= k
  <2>1. missing \in SUBSET Nat
    OBVIOUS
  <2> HIDE DEF missing
  <2> QED BY <2>1, LeastOf
<1>2. m # 0
  <2> DEFINE f == [s \in SUBSET (1..0) |-> NoKey]
  <2>1. SUBSET (1..0) = {{}}
    OBVIOUS
  <2>2. Scans(f, 0, r, order)
    BY <2>1 DEF Scans
  <2> QED BY <2>2
<1>3. m - 1 \in Nat /\ m - 1 \notin missing
  BY <1>1, <1>2
<1>4. PICK f : Scans(f, m - 1, r, order)
  BY <1>3
<1>5. \E g : Scans(g, (m - 1) + 1, r, order)
  BY <1>3, <1>4, ScanExtends
<1>6. (m - 1) + 1 = m
  BY <1>1
<1> QED BY <1>1, <1>5, <1>6

\* What the scan of the files in an order returns, after the first i of them.
LEMMA ScanOfOrder ==
  ASSUME NEW r \in Requests, NEW n \in Nat, NEW order \in [1..n -> Keys]
  PROVE  \E best \in [0..n -> Keys \cup {NoKey}] :
           /\ best[0] = NoKey
           /\ \A i \in 1..n : best[i] = Prefer(r, best[i - 1], order[i])
           /\ best[n] = FoldLeft(LAMBDA b, k : Prefer(r, b, k), NoKey, order)
<1> DEFINE f == CHOOSE g : Scans(g, n, r, order)
           best == [i \in 0..n |-> f[1..i]]
<1>1. Scans(f, n, r, order)
  BY ScanExists
<1>2. FoldLeft(LAMBDA b, k : Prefer(r, b, k), NoKey, order) = f[1..n]
  <2>1. DOMAIN order = 1..n
    OBVIOUS
  <2> QED BY <2>1, Zenon DEF FoldLeft, MapThenFoldSet, Scans
<1>3. best[0] = NoKey
  <2>1. 1..0 = {} /\ {} \in SUBSET (1..n)
    OBVIOUS
  <2> HIDE DEF f
  <2>2. f[{}] = NoKey
    BY <1>1, <2>1 DEF Scans
  <2> QED BY <2>1, <2>2
<1>4. ASSUME NEW i \in 1..n
      PROVE  best[i] = Prefer(r, best[i - 1], order[i])
  <2>1. 1..i \in SUBSET (1..n) /\ i \in 1..i /\ i \in Nat /\ i - 1 \in 0..n
    OBVIOUS
  <2>2. (1..i) \ {i} = 1..i - 1
    OBVIOUS
  <2>3. Max(1..i) = i
    BY <2>1, LargestOfUpto
  <2> HIDE DEF f
  <2>4. f[1..i] = Prefer(r, f[(1..i) \ {i}], order[i])
    BY <1>1, <2>1, <2>3 DEF Scans
  <2>5. best[i] = f[1..i] /\ best[i - 1] = f[1..i - 1]
    BY <2>1
  <2> HIDE DEF best
  <2> QED BY <2>2, <2>4, <2>5
<1> HIDE DEF f, best
<1>5. \A i \in 0..n : best[i] \in Keys \cup {NoKey}
  <2> DEFINE bad == {i \in 0..n : best[i] \notin Keys \cup {NoKey}}
  <2> SUFFICES ASSUME bad # {} PROVE FALSE
    OBVIOUS
  <2>1. PICK i \in bad : \A j \in bad : i <= j
    <3>1. bad \in SUBSET Nat
      OBVIOUS
    <3> HIDE DEF bad
    <3> QED BY <3>1, LeastOf
  <2>2. i \in 1..n /\ i - 1 \in 0..n /\ i - 1 \notin bad
    BY <1>3, <2>1
  <2>3. best[i - 1] \in Keys \cup {NoKey} /\ order[i] \in Keys
    BY <2>2
  <2>4. best[i] \in Keys \cup {NoKey}
    BY <1>4, <2>2, <2>3 DEF Prefer
  <2> QED BY <2>1, <2>4
<1>6. best \in [0..n -> Keys \cup {NoKey}] /\ best[n] = f[1..n]
  BY <1>5 DEF best
<1> QED BY <1>2, <1>3, <1>4, <1>6

\* The entries that r's lookup may return.
Fits(r) ==
  {k \in Keys : /\ meta[k] > Torn
                /\ ModelOf[k] = ModelOf[KeyOf[r]]
                /\ ~Less(Ratio(r, k), Threshold)
                /\ Ratio(r, k)[1] > 0}

\* What it returns, if these are the entries that it may return.
IsBest(r, found, among) ==
  IF among = {} THEN found = NoKey
  ELSE found \in among /\ \A k \in among : ~Less(Ratio(r, found), Ratio(r, k))

\* One turn of the loop: the best so far and one more entry.
LEMMA PreferKeepsBest ==
  ASSUME NEW r \in Requests, NEW among \in SUBSET Fits(r), NEW b, IsBest(r, b, among),
         NEW k \in Keys, meta[k] > Torn
  PROVE  IsBest(r, Prefer(r, b, k), among \cup (Fits(r) \cap {k}))
<1>1. Ratio(r, k) \in Nat \X (Nat \ {0})
  BY RatioType
<1>2. \A j \in among : j \in Keys /\ Ratio(r, j) \in Nat \X (Nat \ {0}) /\ j # NoKey
  BY RatioType, MetaAssumption DEF Fits
<1>3. ~Less(Ratio(r, k), Ratio(r, k))
  BY <1>1 DEF Less
<1>4. CASE among = {}
  <2>1. b = NoKey
    BY <1>4 DEF IsBest
  <2>2. Less(<<0, 1>>, Ratio(r, k)) <=> Ratio(r, k)[1] > 0
    BY <1>1 DEF Less
  <2>3. CASE k \in Fits(r)
    <3>1. Prefer(r, b, k) = k
      BY <2>1, <2>2, <2>3 DEF Prefer, Fits
    <3> QED BY <1>3, <1>4, <2>3, <3>1 DEF IsBest
  <2>4. CASE k \notin Fits(r)
    <3>1. Prefer(r, b, k) = NoKey
      BY <2>1, <2>2, <2>4 DEF Prefer, Fits
    <3> QED BY <1>4, <2>4, <3>1 DEF IsBest
  <2> QED BY <2>3, <2>4
<1>5. CASE among # {}
  <2>1. b \in among /\ b # NoKey /\ \A j \in among : ~Less(Ratio(r, b), Ratio(r, j))
    BY <1>2, <1>5 DEF IsBest
  <2>2. Ratio(r, b) \in Nat \X (Nat \ {0})
    BY <1>2, <2>1
  <2>3. CASE Prefer(r, b, k) = b
    <3>1. k \in Fits(r) => ~Less(Ratio(r, b), Ratio(r, k))
      <4>1. CASE k = b
        BY <1>3, <4>1
      <4>2. CASE k # b
        BY <2>1, <2>3, <4>2 DEF Prefer, Fits
      <4> QED BY <4>1, <4>2
    <3> QED BY <2>1, <2>3, <3>1 DEF IsBest
  <2>4. CASE Prefer(r, b, k) # b
    <3>1. /\ Prefer(r, b, k) = k /\ Less(Ratio(r, b), Ratio(r, k))
          /\ ModelOf[k] = ModelOf[KeyOf[r]] /\ ~Less(Ratio(r, k), Threshold)
      BY <2>1, <2>4 DEF Prefer
    <3>2. Ratio(r, k)[1] > 0
      BY <1>1, <2>2, <3>1, MoreIsPositive
    <3>3. k \in Fits(r)
      BY <3>1, <3>2 DEF Fits
    <3>4. ASSUME NEW j \in among
          PROVE  ~Less(Ratio(r, k), Ratio(r, j))
      BY <1>1, <1>2, <2>1, <2>2, <3>1, StillNotLess
    <3> QED BY <1>3, <3>1, <3>3, <3>4 DEF IsBest
  <2> QED BY <2>3, <2>4
<1> QED BY <1>4, <1>5

\* The lookup returns the best of the entries, in whichever order it finds them.
LEMMA LookupFindsBest ==
  ASSUME NEW r \in Requests, NEW found \in Candidates(r)
  PROVE  IsBest(r, found, Fits(r))
<1> DEFINE all == {k \in Keys : meta[k] > Torn}
           n == Cardinality(all)
<1>1. PICK order \in SetToSeqs(all) :
        found = FoldLeft(LAMBDA b, k : Prefer(r, b, k), NoKey, order)
  BY DEF Candidates
<1>2. IsFiniteSet(all) /\ n \in Nat
  BY MetaAssumption, FS_Subset, FS_CardinalityType
<1>3. /\ order \in [1..n -> all]
      /\ \A i, j \in 1..n : i # j => order[i] # order[j]
  BY <1>1 DEF SetToSeqs
<1>4. \A k \in all : \E i \in 1..n : order[i] = k
  <2> HIDE DEF all
  <2>1. Cardinality(1..n) = n
    BY <1>2, FS_Interval
  <2>2. order \in Injection(1..n, all)
    BY <1>3, Fun_IsInj
  <2>3. order \in Surjection(1..n, all)
    BY <1>2, <2>1, <2>2, FS_Injection
  <2> QED BY <2>3 DEF Surjection
<1> HIDE DEF n
<1>5. PICK best \in [0..n -> Keys \cup {NoKey}] :
        /\ best[0] = NoKey
        /\ \A i \in 1..n : best[i] = Prefer(r, best[i - 1], order[i])
        /\ best[n] = FoldLeft(LAMBDA b, k : Prefer(r, b, k), NoKey, order)
  <2>1. order \in [1..n -> Keys]
    BY <1>3
  <2> QED BY <1>2, <2>1, ScanOfOrder
<1> DEFINE first(i) == Fits(r) \cap {order[j] : j \in 1..i}
           wrong == {i \in 0..n : ~IsBest(r, best[i], first(i))}
<1>6. wrong = {}
  <2> SUFFICES ASSUME wrong # {} PROVE FALSE
    OBVIOUS
  <2>1. PICK i \in wrong : \A j \in wrong : i <= j
    <3>1. wrong \in SUBSET Nat
      BY <1>2
    <3> HIDE DEF wrong
    <3> QED BY <3>1, LeastOf
  <2>2. i # 0
    <3>1. first(0) = {}
      OBVIOUS
    <3> HIDE DEF first
    <3> QED BY <1>2, <1>5, <2>1, <3>1 DEF IsBest
  <2>3. i \in 1..n /\ i - 1 \in 0..n /\ i - 1 \notin wrong
    BY <1>2, <2>1, <2>2
  <2>4. IsBest(r, best[i - 1], first(i - 1))
    BY <2>3
  <2>5. first(i) = first(i - 1) \cup (Fits(r) \cap {order[i]})
    <3>1. 1..i = (1..i - 1) \cup {i}
      BY <2>3
    <3> QED BY <3>1
  <2>6. order[i] \in Keys /\ meta[order[i]] > Torn /\ first(i - 1) \in SUBSET Fits(r)
    BY <1>3, <2>3
  <2>7. best[i] = Prefer(r, best[i - 1], order[i])
    BY <1>5, <2>3
  <2> HIDE DEF first
  <2>8. IsBest(r, best[i], first(i))
    BY <2>4, <2>5, <2>6, <2>7, PreferKeepsBest
  <2> QED BY <2>1, <2>8
<1>7. IsBest(r, best[n], first(n))
  <2>1. n \in 0..n
    BY <1>2
  <2> HIDE DEF first
  <2> QED BY <1>6, <2>1
<1>8. first(n) = Fits(r)
  BY <1>4 DEF Fits
<1> QED BY <1>1, <1>5, <1>7, <1>8

\* The restore candidate (find_best_restore_candidate of hashing.rs) is an entry of
\* the request's model with the largest share of common blocks, in whichever order
\* the directory lists the files.
THEOREM CandidateIsTheBest == Spec => CandidateIsBest
<1>1. ASSUME MetaInv, NEW r \in Requests, Lookup(r)
      PROVE  IsBest(r, cand'[r], Fits(r))
  <2>1. PICK k \in Candidates(r) : cand' = [cand EXCEPT ![r] = k]
    BY <1>1 DEF Lookup
  <2>2. cand'[r] = k
    BY <1>1, <2>1 DEF MetaInv, MetaTyped, MetaTypeOK
  <2> QED BY <2>2, LookupFindsBest
<1>2. MetaInv /\ [Next]_vars =>
        [\A r \in Requests : Lookup(r) =>
           LET fits == {k \in Keys : /\ meta[k] > Torn
                                     /\ ModelOf[k] = ModelOf[KeyOf[r]]
                                     /\ ~Less(Ratio(r, k), Threshold)
                                     /\ Ratio(r, k)[1] > 0}
           IN  IF fits = {} THEN cand'[r] = NoKey
               ELSE cand'[r] \in fits /\ \A k \in fits : ~Less(Ratio(r, cand'[r]), Ratio(r, k))]_vars
  BY <1>1 DEF IsBest, Fits
<1> QED BY <1>2, MetaInvariant, PTL DEF Spec, CandidateIsBest
================================================================================
