-------------------------------- MODULE Coalesce --------------------------------
(***************************************************************************)
(* Coalescing of concurrent requests with one cache key: the groups of     *)
(* src/src/coalesce.rs, and the tasks of src/src/app.rs that use them.     *)
(*                                                                         *)
(* The first request of a key leads.  Its handler spawns a task that runs  *)
(* the pipeline and waits for it; a pipeline that gets a stream spawns a   *)
(* reader task of its own.  Whoever ends the flight (the handler, or the   *)
(* reader of a stream) publishes the outcome, wakes the followers and      *)
(* takes the flight out of the map, in three steps of its own thread.      *)
(* Followers wait in a loop: create a Notified, look at the flight, await. *)
(* notify_waiters reaches every Notified created before it, polled or not, *)
(* and is not remembered for those created later: `notified' is that flag. *)
(*                                                                         *)
(* A flight is named by its leader: a client asks once, hence leads at     *)
(* most one.  Stream chunks are numbered; a whole stream has `Chunks' of   *)
(* them.  Slots, saves and meta files are the business of Pipeline.tla.    *)
(***************************************************************************)
EXTENDS Integers, SequencesExt

CONSTANTS
  Clients,   \* the clients, one request each
  None,      \* no flight
  Keys,      \* the cache keys
  KeyOf,     \* the key of each client's request
  Chunks     \* number of chunks of a whole stream

ASSUME CoalesceAssumption ==
  /\ None \notin Clients
  /\ KeyOf \in [Clients -> Keys]
  /\ Chunks \in Nat

VARIABLES
  map,       \* SingleFlight.map: the flight of each key, or None
  client,    \* each client: not there yet, connected, gone, or answered
  stream,    \* whether its request asks for a stream
  flight,    \* the flight it leads or follows
  work,      \* how far the leader's task, reader or handler has come
  sse,       \* Flight.sse: the chunks produced so far
  outcome,   \* Flight.outcome
  started,   \* Flight.stream_started
  at,        \* where a follower's loop stands
  tailing,   \* whether a follower tails the live stream
  notified,  \* whether its current Notified has fired
  got,       \* the chunks sent to each client
  reply      \* the complete reply a client received

flightVars == <<work, sse, outcome, started>>
followerVars == <<at, tailing, notified>>
vars == <<map, client, stream, flight, flightVars, followerVars, got, reply>>

\* SharedOutcome.  "json" is a completion, "error" an error in any form.
NoOutcome == [kind |-> "none", bytes |-> <<>>]
Answer(kind) == [kind |-> kind, bytes |-> <<>>]
Sse(bytes) == [kind |-> "sse", bytes |-> bytes]

Streams == {[i \in 1..n |-> i] : n \in 0..Chunks}
Outcomes == {Answer("json"), Answer("error")} \cup {Sse(s) : s \in Streams}

\* "call": the backend is asked.  "json", "error": the task has returned that
\* outcome.  "mark" to "cleanup": a stream.  Then the end of the flight.
WorkStates == {"none", "call", "json", "error", "mark", "pump", "send",
               "cleanup", "published", "woken", "over"}

TypeOK ==
  /\ map \in [Keys -> Clients \cup {None}]
  /\ client \in [Clients -> {"new", "connected", "gone", "answered"}]
  /\ stream \in [Clients -> BOOLEAN]
  /\ flight \in [Clients -> Clients \cup {None}]
  /\ work \in [Clients -> WorkStates]
  /\ sse \in [Clients -> Streams]
  /\ outcome \in [Clients -> Outcomes \cup {NoOutcome}]
  /\ started \in [Clients -> BOOLEAN]
  /\ at \in [Clients -> {"none", "register", "drain", "check", "started",
                         "await", "last", "over"}]
  /\ tailing \in [Clients -> BOOLEAN]
  /\ notified \in [Clients -> BOOLEAN]
  /\ got \in [Clients -> Seq(1..Chunks)]
  /\ reply \in [Clients -> Outcomes \cup {NoOutcome}]

Init ==
  /\ map = [k \in Keys |-> None]
  /\ client = [c \in Clients |-> "new"]
  /\ stream = [c \in Clients |-> FALSE]
  /\ flight = [c \in Clients |-> None]
  /\ work = [c \in Clients |-> "none"]
  /\ sse = [c \in Clients |-> <<>>]
  /\ outcome = [c \in Clients |-> NoOutcome]
  /\ started = [c \in Clients |-> FALSE]
  /\ at = [c \in Clients |-> "none"]
  /\ tailing = [c \in Clients |-> FALSE]
  /\ notified = [c \in Clients |-> FALSE]
  /\ got = [c \in Clients |-> <<>>]
  /\ reply = [c \in Clients |-> NoOutcome]

--------------------------------------------------------------------------------
(* Arrival and departure.                                                    *)

\* SingleFlight::enter: lead the key's flight if there is none, else follow.
Enter(c, wantsStream) ==
  LET k == KeyOf[c]
  IN  /\ client[c] = "new"
      /\ client' = [client EXCEPT ![c] = "connected"]
      /\ stream' = [stream EXCEPT ![c] = wantsStream]
      /\ \/ /\ map[k] = None
            /\ map' = [map EXCEPT ![k] = c]
            /\ flight' = [flight EXCEPT ![c] = c]
            /\ work' = [work EXCEPT ![c] = "call"]
            /\ UNCHANGED at
         \/ /\ map[k] # None
            /\ flight' = [flight EXCEPT ![c] = map[k]]
            /\ at' = [at EXCEPT ![c] = "register"]
            /\ UNCHANGED <<map, work>>
      /\ UNCHANGED <<sse, outcome, started, tailing, notified, got, reply>>

\* Mutant of Disconnect: the leader's handler takes the flight out of the map
\* when it is dropped, while the task still runs.
DisconnectForgets(c) ==
  /\ client[c] = "connected"
  /\ client' = [client EXCEPT ![c] = "gone"]
  /\ map' = IF map[KeyOf[c]] = c THEN [map EXCEPT ![KeyOf[c]] = None] ELSE map
  /\ at' = IF at[c] # "none" /\ ~tailing[c] THEN [at EXCEPT ![c] = "over"] ELSE at
  /\ UNCHANGED <<stream, flight, flightVars, tailing, notified, got, reply>>

\* A client disconnects: hyper drops its handler, or the body of its response.
\* That ends a follower that does not tail yet; every task goes on.
Disconnect(c) ==
  /\ client[c] = "connected"
  /\ client' = [client EXCEPT ![c] = "gone"]
  /\ at' = IF at[c] # "none" /\ ~tailing[c] THEN [at EXCEPT ![c] = "over"] ELSE at
  /\ UNCHANGED <<map, stream, flight, flightVars, tailing, notified, got, reply>>

\* c has its complete reply, if it is still there to receive it.
Receive(c, what) ==
  IF client[c] = "connected"
    THEN /\ client' = [client EXCEPT ![c] = "answered"]
         /\ reply' = [reply EXCEPT ![c] = what]
    ELSE UNCHANGED <<client, reply>>

--------------------------------------------------------------------------------
(* The leader's pipeline task and reader task.                               *)

Goto(f, state) == work' = [work EXCEPT ![f] = state]

\* Notify::notify_waiters of flight f.
NotifyWaiters(f) ==
  notified' = [c \in Clients |-> notified[c] \/ (flight[c] = f /\ c # f)]

Unmoved == UNCHANGED <<map, stream, flight>>

\* The task returns an outcome: a JSON leader any, a stream leader only an error
\* met before the stream started.
TaskReturns(f, result) ==
  /\ work[f] = "call"
  /\ result = "json" => ~stream[f]
  /\ Goto(f, result)
  /\ Unmoved
  /\ UNCHANGED <<client, sse, outcome, started, followerVars, got, reply>>

\* The backend accepts the stream: mark_stream_started, the store first ...
StreamStarts(f) ==
  /\ work[f] = "call" /\ stream[f]
  /\ started' = [started EXCEPT ![f] = TRUE]
  /\ Goto(f, "mark")
  /\ Unmoved
  /\ UNCHANGED <<client, sse, outcome, followerVars, got, reply>>

\* ... then the wakeup.
StreamMarked(f) ==
  /\ work[f] = "mark"
  /\ NotifyWaiters(f)
  /\ Goto(f, "pump")
  /\ Unmoved
  /\ UNCHANGED <<client, sse, outcome, started, at, tailing, got, reply>>

\* Mutant of Chunk: each chunk is appended twice.
ChunkTwice(f) ==
  /\ work[f] = "pump"
  /\ Len(sse[f]) < Chunks
  /\ sse' = [sse EXCEPT ![f] = @ \o <<Len(@) + 1, Len(@) + 1>>]
  /\ NotifyWaiters(f)
  /\ Goto(f, "send")
  /\ Unmoved
  /\ UNCHANGED <<client, outcome, started, at, tailing, got, reply>>

\* append_sse (which notifies under the lock of the buffer), before the chunk
\* is offered to the leader's own client.
Chunk(f) ==
  /\ work[f] = "pump"
  /\ Len(sse[f]) < Chunks
  /\ sse' = [sse EXCEPT ![f] = Append(@, Len(@) + 1)]
  /\ NotifyWaiters(f)
  /\ Goto(f, "send")
  /\ Unmoved
  /\ UNCHANGED <<client, outcome, started, at, tailing, got, reply>>

\* tx.send returns: there was room in the channel.  It may still be taken by a
\* chunk that a client just gone will not read.
Sent(f) ==
  /\ work[f] = "send"
  /\ client[f] \in {"connected", "gone"}
  /\ got' = IF client[f] = "connected"
              THEN [got EXCEPT ![f] = Append(@, Last(sse[f]))] ELSE got
  /\ Goto(f, "pump")
  /\ Unmoved
  /\ UNCHANGED <<client, sse, outcome, started, followerVars, reply>>

\* The upstream ends the stream, or fails in it, or the leader's client is gone:
\* the reader stops pumping and cleans up (saves, releases the slot).
PumpEnds(f) ==
  /\ \/ work[f] = "pump"
     \/ work[f] = "send" /\ client[f] = "gone"
  /\ Goto(f, "cleanup")
  /\ Unmoved
  /\ UNCHANGED <<client, sse, outcome, started, followerVars, got, reply>>

--------------------------------------------------------------------------------
(* The end of a flight: finish (publish, then wake) and forget.              *)

\* The outcome, and who may publish it: the reader of a stream, or the handler
\* the task has returned to, if its client has not disconnected meanwhile.
Ready(f, result) ==
  \/ work[f] = "cleanup" /\ result = Sse(sse[f])
  \/ work[f] \in {"json", "error"} /\ client[f] = "connected" /\ result = Answer(work[f])

Publish(f) ==
  /\ \E result \in Outcomes :
       /\ Ready(f, result)
       /\ outcome' = [outcome EXCEPT ![f] = result]
  /\ Goto(f, "published")
  /\ Unmoved
  /\ UNCHANGED <<client, sse, started, followerVars, got, reply>>

\* Mutant of Wake: finish publishes the outcome and wakes nobody.
WakeNobody(f) ==
  /\ work[f] = "published"
  /\ Goto(f, "woken")
  /\ Unmoved
  /\ UNCHANGED <<client, sse, outcome, started, followerVars, got, reply>>

\* Mutant of Wake: the flight is over without forget.
WakeOnly(f) ==
  /\ work[f] = "published"
  /\ NotifyWaiters(f)
  /\ Goto(f, "over")
  /\ Unmoved
  /\ UNCHANGED <<client, sse, outcome, started, at, tailing, got, reply>>

Wake(f) ==
  /\ work[f] = "published"
  /\ NotifyWaiters(f)
  /\ Goto(f, "woken")
  /\ Unmoved
  /\ UNCHANGED <<client, sse, outcome, started, at, tailing, got, reply>>

\* forget removes whatever flight the map has for the key.  The leader's client
\* then has its reply: the handler's, or the end of its stream.
Forget(f) ==
  /\ work[f] = "woken"
  /\ map' = [map EXCEPT ![KeyOf[f]] = None]
  /\ Receive(f, IF outcome[f].kind = "sse" THEN Sse(got[f]) ELSE outcome[f])
  /\ Goto(f, "over")
  /\ UNCHANGED <<stream, flight, sse, outcome, started, followerVars, got>>

--------------------------------------------------------------------------------
(* The followers.                                                            *)

MoveTo(c, place) == at' = [at EXCEPT ![c] = place]

Outcome(c) == outcome[flight[c]]
Finished(c) == Outcome(c) # NoOutcome

\* flight.notified(), before anything is looked at.
Register(c) ==
  /\ at[c] = "register"
  /\ notified' = [notified EXCEPT ![c] = FALSE]
  /\ MoveTo(c, IF tailing[c] THEN "drain" ELSE "check")
  /\ Unmoved
  /\ UNCHANGED <<client, flightVars, tailing, got, reply>>

\* drain_sse_from and the send of what it returned (a follower that does not
\* read delays nobody but itself).
DrainTo(c) ==
  got' = [got EXCEPT ![c] = @ \o SubSeq(sse[flight[c]], Len(@) + 1, Len(sse[flight[c]]))]

Drain(c) ==
  /\ at[c] = "drain"
  /\ IF client[c] = "gone" /\ Len(got[c]) < Len(sse[flight[c]])
       THEN MoveTo(c, "over") /\ UNCHANGED got
       ELSE MoveTo(c, "check") /\ DrainTo(c)
  /\ Unmoved
  /\ UNCHANGED <<client, flightVars, tailing, notified, reply>>

\* Mutant of Check: the Notified is created after the look.
CheckThenRegister(c) ==
  /\ at[c] = "check"
  /\ IF ~Finished(c)
       THEN /\ MoveTo(c, IF stream[c] /\ ~tailing[c] THEN "started" ELSE "await")
            /\ notified' = [notified EXCEPT ![c] = FALSE]
            /\ UNCHANGED <<client, reply>>
       ELSE /\ UNCHANGED notified
            /\ IF tailing[c]
                 THEN MoveTo(c, "last") /\ UNCHANGED <<client, reply>>
                 ELSE MoveTo(c, "over") /\ Receive(c, Outcome(c))
  /\ Unmoved
  /\ UNCHANGED <<flightVars, tailing, got>>

\* The look at the outcome.  A follower that does not tail is answered with it,
\* one that tails drains once more.
Check(c) ==
  /\ at[c] = "check"
  /\ IF ~Finished(c)
       THEN /\ MoveTo(c, IF stream[c] /\ ~tailing[c] THEN "started" ELSE "await")
            /\ UNCHANGED <<client, reply>>
       ELSE IF tailing[c]
       THEN MoveTo(c, "last") /\ UNCHANGED <<client, reply>>
       ELSE MoveTo(c, "over") /\ Receive(c, Outcome(c))
  /\ Unmoved
  /\ UNCHANGED <<flightVars, tailing, notified, got>>

\* The look at stream_started: commit to a stream, or keep waiting.
CheckStarted(c) ==
  /\ at[c] = "started"
  /\ tailing' = [tailing EXCEPT ![c] = started[flight[c]]]
  /\ MoveTo(c, IF started[flight[c]] THEN "register" ELSE "await")
  /\ Unmoved
  /\ UNCHANGED <<client, flightVars, notified, got, reply>>

Awake(c) ==
  /\ at[c] = "await"
  /\ notified[c]
  /\ MoveTo(c, "register")
  /\ Unmoved
  /\ UNCHANGED <<client, flightVars, tailing, notified, got, reply>>

\* Mutant of LastDrain: no final drain.
LastNoDrain(c) ==
  /\ at[c] = "last"
  /\ Receive(c, Sse(got[c]))
  /\ MoveTo(c, "over")
  /\ Unmoved
  /\ UNCHANGED <<flightVars, tailing, notified, got>>

\* The final drain, and the end of the follower's stream.
LastDrain(c) ==
  /\ at[c] = "last"
  /\ DrainTo(c)
  /\ Receive(c, Sse(got'[c]))
  /\ MoveTo(c, "over")
  /\ Unmoved
  /\ UNCHANGED <<flightVars, tailing, notified>>

--------------------------------------------------------------------------------
LeaderStep(f) ==
  \/ \E result \in {"json", "error"} : TaskReturns(f, result)
  \/ StreamStarts(f)
  \/ StreamMarked(f)
  \/ Chunk(f)
  \/ PumpEnds(f)
  \/ Publish(f)
  \/ Wake(f)
  \/ Forget(f)

FollowerStep(c) ==
  \/ Register(c)
  \/ Drain(c)
  \/ Check(c)
  \/ CheckStarted(c)
  \/ Awake(c)
  \/ LastDrain(c)

Next ==
  \E c \in Clients :
    \/ \E wantsStream \in BOOLEAN : Enter(c, wantsStream)
    \/ Disconnect(c)
    \/ LeaderStep(c)
    \/ Sent(c)
    \/ FollowerStep(c)

Spec == Init /\ [][Next]_vars

\* The runtime polls every task that can go on, and every backend call ends
\* (reqwest's timeout; Pipeline.tla shows that the pipeline then ends).  Sent is
\* fair as long as the leader's client keeps reading or disconnects.
FairSpec ==
  Spec /\ \A c \in Clients :
            WF_vars(LeaderStep(c)) /\ WF_vars(FollowerStep(c)) /\ WF_vars(Sent(c))
--------------------------------------------------------------------------------
(* Properties.                                                               *)

\* A key's requests cause one backend call at a time, whoever disconnects.
OneCallPerKey ==
  LET Calling(f) == work[f] \in {"call", "mark", "pump", "send", "cleanup"}
  IN  \A f, g \in Clients :
        Calling(f) /\ Calling(g) /\ KeyOf[f] = KeyOf[g] => f = g

\* A follower that sleeps with its Notified unfired has seen all there is, or the
\* wakeup is still to come: no wakeup falls between its look and its sleep.
NoLostWakeup ==
  \A c \in Clients : at[c] = "await" /\ ~notified[c] =>
    LET f == flight[c]
    IN  /\ outcome[f] # NoOutcome => work[f] = "published"
        /\ tailing[c] => got[c] = sse[f]
        /\ ~tailing[c] /\ stream[c] /\ started[f] => work[f] = "mark"

Shared == INSTANCE SharedAnswer WITH
  Answers  <- Outcomes,
  NoAnswer <- NoOutcome,
  group    <- flight,
  open     <- {f \in Clients : flight[f] = f /\ work[f] # "over"},
  result   <- outcome

\* Coalescing keeps its promise: one answer per group, computed once, and every
\* member that is replied to gets that answer, a stream chunk by chunk.
SharesOneAnswer == Shared!Spec

Waiting(c) == client[c] = "connected" /\ flight[c] \notin {None, c}

\* The leader's handler, which has to end the flight, was dropped.
Stranded(f) == work[f] \in {"json", "error"} /\ client[f] = "gone"

\* Every follower that stays is answered, unless its flight is stranded.
FollowersServed ==
  \A c \in Clients : Waiting(c) ~> (~Waiting(c) \/ Stranded(flight[c]))

\* Every flight leaves the map, unless it is stranded: later requests for the
\* key are computed afresh.
KeysReleased ==
  \A f \in Clients : flight[f] = f ~> (map[KeyOf[f]] # f \/ Stranded(f))

--------------------------------------------------------------------------------
(* What a comment says and the code does not do.                             *)

\* "A disconnect of the leader's own client cannot strand the group's followers."
FollowersAnswered == \A c \in Clients : Waiting(c) ~> ~Waiting(c)
================================================================================
