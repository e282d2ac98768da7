-------------------------------- MODULE Pipeline --------------------------------
(***************************************************************************)
(* The chat pipeline over the slot pool: run_pipeline of src/src/app.rs    *)
(* with the helpers it calls, and the reader task it spawns for a stream.  *)
(* SlotManager.tla says what each call of the pool does; this module says  *)
(* which calls a request makes, in which order, on every outcome of every  *)
(* backend call, and what a dropped handler leaves behind.                 *)
(*                                                                         *)
(* Backend calls are the only awaits apart from the wait for a permit, so  *)
(* what the code does between two of them is one action.  The one          *)
(* exception is a failed attempt: giving the slot back and picking another *)
(* one are two actions, because other threads pick in between.             *)
(*                                                                         *)
(* `kv' is what the llama.cpp slot holds: the prompt of a request, or      *)
(* Nobody for anything else (an older prompt, a restored file, unknown     *)
(* content after a failure).                                               *)
(***************************************************************************)
EXTENDS SlotManager

CONSTANTS
  Workload,     \* the kinds of requests that arrive
  SaveRetries,  \* save_retries
  Inline        \* the pipeline runs in the handler (coalescing disabled)

\* A request: streaming or not, above the big threshold or not, and whether the
\* meta scan finds a restore candidate for it (it scans for big requests only,
\* and only if some backend has kv_cache).
Kinds ==
  {k \in [stream : BOOLEAN, big : BOOLEAN, candidate : BOOLEAN] :
     k.candidate => k.big /\ KvBackends # {}}

NoKind == [stream |-> FALSE, big |-> FALSE, candidate |-> FALSE]

ASSUME PipelineAssumption ==
  /\ Workload \subseteq Kinds
  /\ SaveRetries \in Nat
  /\ Inline \in BOOLEAN

VARIABLES
  phase,   \* what each request is doing
  kind,    \* its kind
  failed,  \* the backend its first attempt failed on, Nobody before that
  tries,   \* retries of the save so far
  kv       \* whose prompt each slot's KV cache holds

requestVars == <<phase, kind, failed, tries>>
vars == <<poolVars, phase, kind, failed, tries, kv>>

\* "chat" lasts from the pick to the backend's answer, "retry" from a failed
\* attempt to the next pick.
Phases == {"idle", "chat", "retry", "stream", "save"}

PipelineTypeOK ==
  /\ phase \in [Requests -> Phases]
  /\ kind \in [Requests -> Kinds]
  /\ failed \in [Requests -> Backends \cup {Nobody}]
  /\ tries \in [Requests -> 0..SaveRetries]
  /\ kv \in [Slots -> Requests \cup {Nobody}]

Init ==
  /\ PoolInit
  /\ phase = [r \in Requests |-> "idle"]
  /\ kind = [r \in Requests |-> NoKind]
  /\ failed = [r \in Requests |-> Nobody]
  /\ tries = [r \in Requests |-> 0]
  /\ kv = [s \in Slots |-> Nobody]

--------------------------------------------------------------------------------
(* Helpers.                                                                  *)

Backend(r) == BackendOf[slot[r]]
SavesKv(r) == Backend(r) \in KvBackends

\* The backend's first answer to r's chat request is awaited.
Dispatched(r) == phase[r] = "chat" /\ stage[r] = "held"

\* r is answered: its prompt is from now on an old one.
End(r) ==
  /\ phase' = [phase EXCEPT ![r] = "idle"]
  /\ kind' = [kind EXCEPT ![r] = NoKind]
  /\ failed' = [failed EXCEPT ![r] = Nobody]
  /\ tries' = [tries EXCEPT ![r] = 0]
  /\ kv' = [s \in Slots |-> IF kv[s] = r THEN Nobody ELSE kv[s]]

--------------------------------------------------------------------------------
(* From the arrival to the dispatch.                                         *)

\* A request passes the prefilter and asks for a slot.
Arrive(r, k) ==
  /\ phase[r] = "idle"
  /\ Acquire(r, Slots, k.candidate)
  /\ phase' = [phase EXCEPT ![r] = "chat"]
  /\ kind' = [kind EXCEPT ![r] = k]
  /\ UNCHANGED <<failed, tries, kv>>

TakeOrQueue(r) ==
  /\ Enter(r)
  /\ UNCHANGED <<requestVars, kv>>

\* restore_slot answers; on success the slot holds the restored prompt.
Restored(r) ==
  /\ RestoreDone(r)
  /\ kv' = [kv EXCEPT ![slot[r]] = Nobody]
  /\ UNCHANGED requestVars

\* Mutant of SlotTimeout: acquire_timeout is not applied.
NoTimeout(r) == r \in Requests /\ FALSE /\ UNCHANGED vars

\* No permit in time: 503 on the first attempt, 500 on the retry.
SlotTimeout(r) ==
  /\ Timeout(r)
  /\ End(r)

--------------------------------------------------------------------------------
(* The answer to the chat request.                                           *)

\* Connection-level failure: retry_after_failure trips the breaker, marks the
\* slot used and releases it.  The second failure ends the request (500).
ChatFailed(r) ==
  /\ Dispatched(r)
  /\ GiveBack(r, "failure", TRUE)
  /\ IF failed[r] = Nobody
       THEN /\ phase' = [phase EXCEPT ![r] = "retry"]
            /\ failed' = [failed EXCEPT ![r] = Backend(r)]
            /\ kv' = [kv EXCEPT ![slot[r]] = Nobody]
            /\ UNCHANGED <<kind, tries>>
       ELSE End(r)

\* Mutant of Retry: the failed backend is not excluded.
RetryAnywhere(r) ==
  /\ phase[r] = "retry"
  /\ \/ /\ Acquire(r, Slots, kind[r].candidate)
        /\ phase' = [phase EXCEPT ![r] = "chat"]
        /\ UNCHANGED <<kind, failed, tries, kv>>
     \/ /\ PickFiltered(Slots) = {}
        /\ End(r)
        /\ UNCHANGED poolVars

\* retry_after_failure goes on to acquire_excluding: another backend's slot,
\* or a 500 at once when none is eligible.
Retry(r) ==
  /\ phase[r] = "retry"
  /\ LET others == SlotsOf(Backends \ {failed[r]})
     IN  \/ /\ Acquire(r, others, kind[r].candidate)
            /\ phase' = [phase EXCEPT ![r] = "chat"]
            /\ UNCHANGED <<kind, failed, tries, kv>>
         \/ /\ PickFiltered(others) = {}
            /\ End(r)
            /\ UNCHANGED poolVars

\* Mutant of ChatRejected: the slot is not marked used.
RejectedUnmarked(r) ==
  /\ Dispatched(r)
  /\ GiveBack(r, "success", FALSE)
  /\ End(r)

\* The backend answers with an error status or a body that is no JSON object:
\* it is reachable, and the slot is marked used.
ChatRejected(r) ==
  /\ Dispatched(r)
  /\ GiveBack(r, "success", TRUE)
  /\ End(r)

\* chat_stream fails other than by connection: the breaker hears nothing.  The
\* client of llama.rs never does so, another backend plugin may.
StreamRefused(r) ==
  /\ Dispatched(r)
  /\ kind[r].stream
  /\ GiveBack(r, "none", TRUE)
  /\ End(r)

\* Mutant of JsonAnswered: every big request goes on to save.
JsonSavesAnywhere(r) ==
  /\ Dispatched(r)
  /\ ~kind[r].stream
  /\ IF kind[r].big
       THEN /\ Answered(r)
            /\ phase' = [phase EXCEPT ![r] = "save"]
            /\ kv' = [kv EXCEPT ![slot[r]] = r]
            /\ UNCHANGED <<kind, failed, tries>>
       ELSE /\ GiveBack(r, "success", FALSE)
            /\ End(r)

\* A JSON result (or a 200 that is not JSON).  Only a big request on a backend
\* with kv_cache goes on to save; any other one is done, its slot not marked.
JsonAnswered(r) ==
  /\ Dispatched(r)
  /\ ~kind[r].stream
  /\ IF kind[r].big /\ SavesKv(r)
       THEN /\ Answered(r)
            /\ phase' = [phase EXCEPT ![r] = "save"]
            /\ kv' = [kv EXCEPT ![slot[r]] = r]
            /\ UNCHANGED <<kind, failed, tries>>
       ELSE /\ GiveBack(r, "success", FALSE)
            /\ End(r)

\* The backend starts to stream: the reader task now owns the slot.
StreamStarted(r) ==
  /\ Dispatched(r)
  /\ kind[r].stream
  /\ phase' = [phase EXCEPT ![r] = "stream"]
  /\ kv' = [kv EXCEPT ![slot[r]] = r]
  /\ UNCHANGED <<poolVars, kind, failed, tries>>

\* Mutant of StreamEnded: no release on a backend without kv_cache.
StreamEndLeaks(r) ==
  /\ phase[r] = "stream"
  /\ IF SavesKv(r)
       THEN /\ phase' = [phase EXCEPT ![r] = "save"]
            /\ UNCHANGED <<poolVars, kind, failed, tries, kv>>
       ELSE /\ End(r)
            /\ UNCHANGED poolVars

\* The reader stops pumping: end of the stream, upstream error, or the client
\* is gone.  It saves on a backend with kv_cache, for small requests as well.
StreamEnded(r) ==
  /\ phase[r] = "stream"
  /\ IF SavesKv(r)
       THEN /\ phase' = [phase EXCEPT ![r] = "save"]
            /\ UNCHANGED <<poolVars, kind, failed, tries, kv>>
       ELSE /\ GiveBack(r, "success", FALSE)
            /\ End(r)

--------------------------------------------------------------------------------
(* save_after and what follows it.                                           *)

\* Ok(true), Ok(false), Err(HttpStatus), Err(Other) of save_slot.
SaveAnswers == {"saved", "refused", "status", "unreachable"}

\* What the caller of save_after tells the breaker: the reader reports on every
\* outcome, save_big has reported the chat answer before.
SaveVerdict(answer, stream) ==
  IF answer = "unreachable" THEN "failure"
  ELSE IF stream /\ answer \in {"saved", "refused"} THEN "success"
  ELSE "none"

\* Mutant of SaveAnswered: one retry too many.
SaveOnceMore(r, answer) ==
  /\ phase[r] = "save"
  /\ IF answer # "saved" /\ tries[r] <= SaveRetries
       THEN /\ tries' = [tries EXCEPT ![r] = @ + 1]
            /\ UNCHANGED <<poolVars, phase, kind, failed, kv>>
       ELSE /\ GiveBack(r, SaveVerdict(answer, kind[r].stream), TRUE)
            /\ End(r)

\* Mutant of SaveAnswered: the count of the retries starts again at its end.
SaveForEver(r, answer) ==
  /\ phase[r] = "save"
  /\ IF answer # "saved"
       THEN /\ tries' = [tries EXCEPT ![r] = IF @ < SaveRetries THEN @ + 1 ELSE 0]
            /\ UNCHANGED <<poolVars, phase, kind, failed, kv>>
       ELSE /\ GiveBack(r, SaveVerdict(answer, kind[r].stream), TRUE)
            /\ End(r)

\* One answer to save_slot: anything but a success is retried while retries are
\* left; the last answer decides.  The slot is marked used on every path.
SaveAnswered(r, answer) ==
  /\ phase[r] = "save"
  /\ IF answer # "saved" /\ tries[r] < SaveRetries
       THEN /\ tries' = [tries EXCEPT ![r] = @ + 1]
            /\ UNCHANGED <<poolVars, phase, kind, failed, kv>>
       ELSE /\ GiveBack(r, SaveVerdict(answer, kind[r].stream), TRUE)
            /\ End(r)

--------------------------------------------------------------------------------
\* Mutant of Cancelled: a dropped handler leaves its permit behind.
CancelLeaks(r) ==
  /\ Inline
  /\ phase[r] = "chat" \/ (phase[r] = "save" /\ ~kind[r].stream)
  /\ stage[r] \in {"restoring", "held"}
  /\ stage' = [stage EXCEPT ![r] = "out"]
  /\ Forget(r)
  /\ End(r)
  /\ UNCHANGED <<holder, queue, last_used, down, streak, probing>>

\* The client disconnects while the pipeline runs in its handler: hyper drops
\* the future at its await.  A reader task is not part of the handler.
Cancelled(r) ==
  /\ Inline
  /\ phase[r] = "chat" \/ (phase[r] = "save" /\ ~kind[r].stream)
  /\ Abandon(r)
  /\ End(r)

\* The background probe and the passing of time.
Environment ==
  /\ \/ \E b \in Backends : ProbeStart(b)
     \/ ProbeAnswer
     \/ Tick
  /\ UNCHANGED <<requestVars, kv>>

Step(r) ==
  \/ TakeOrQueue(r)
  \/ Restored(r)
  \/ SlotTimeout(r)
  \/ ChatFailed(r)
  \/ Retry(r)
  \/ ChatRejected(r)
  \/ StreamRefused(r)
  \/ JsonAnswered(r)
  \/ StreamStarted(r)
  \/ \E answer \in SaveAnswers : SaveAnswered(r, answer)

Next ==
  \/ \E r \in Requests :
       \/ \E k \in Workload : Arrive(r, k)
       \/ Step(r)
       \/ StreamEnded(r)
       \/ Cancelled(r)
  \/ Environment

Spec == Init /\ [][Next]_vars

\* Every backend call ends (reqwest's timeout) and every permit wait does
\* (acquire_timeout), so each request's own steps are fair.  The end of a
\* stream is not: tx.send waits for a client that may neither read nor leave.
FairSpec == Spec /\ \A r \in Requests : WF_vars(Step(r))

--------------------------------------------------------------------------------
(* Properties.                                                               *)

\* While a request saves, its slot still holds the prompt whose key names the
\* file: no other request has used the slot since the chat, so a KV file never
\* holds another conversation than its meta file describes.
SavesOwnPrompt ==
  \A r \in Requests : phase[r] = "save" => kv[slot[r]] = r /\ holder[slot[r]] = r

\* The retry after a connection-level failure never goes back to the backend
\* that failed, however long it queues and whatever else fails meanwhile.
RetryElsewhere ==
  \A r \in Requests :
    failed[r] # Nobody /\ stage[r] # "out" => Backend(r) # failed[r]

\* The slot endpoints (save, restore) are only called on kv_cache backends.
SlotCallsNeedKv ==
  \A r \in Requests :
    stage[r] = "restoring" \/ phase[r] = "save" => SavesKv(r)

\* A request is in the pool exactly while it waits for or works on an answer:
\* every path of the pipeline gives its slot back, and none gives it back early.
PoolUseMatchesPhase ==
  \A r \in Requests :
    /\ phase[r] \in {"idle", "retry"} <=> stage[r] = "out"
    /\ phase[r] \in {"stream", "save"} => stage[r] = "held"

\* A request only uses the pool as SlotManager.tla allows its callers.
UsesPoolAsSpecified == PoolSpec

\* A slot on which a request just failed is not the next choice while another
\* eligible slot is idle: neither a dead backend nor one that rejects every
\* request intercepts all traffic (mark_used, report_failure).
FailureYieldsSlot ==
  [][\A r \in Requests :
       (ChatFailed(r) \/ ChatRejected(r) \/ StreamRefused(r))
       /\ (\E t \in Eligible(Slots)' : t # slot[r] /\ holder'[t] = Nobody)
         => slot[r] \notin PickFiltered(Slots)']_vars

\* Every waiter is served or answered, even if clients that stream stop reading
\* for good and keep their slots.
WaitersAnswered ==
  \A r \in Requests : stage[r] = "waiting" ~> stage[r] # "waiting"

\* Every request ends: the retries of chat and of save are bounded, no permit is
\* waited for twice, and no slot is kept, except by a stream whose client neither
\* reads nor leaves.
RequestsEnd ==
  \A r \in Requests : phase[r] # "idle" ~> phase[r] \in {"idle", "stream"}
================================================================================
