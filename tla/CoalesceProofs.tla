----------------------------- MODULE CoalesceProofs -----------------------------
(***************************************************************************)
(* Proofs about request coalescing, for every set of clients and keys and  *)
(* streams of every length.                                                *)
(***************************************************************************)
EXTENDS Coalesce, SequenceTheorems, TLAPS

--------------------------------------------------------------------------------
(* Streams.                                                                  *)

Upto(n) == [i \in 1..n |-> i]

\* There is a stream of every length up to Chunks.
LEMMA StreamOfLength ==
  ASSUME NEW n \in 0..Chunks
  PROVE  /\ Upto(n) \in Streams
         /\ Upto(n) \in Seq(1..Chunks)
         /\ Len(Upto(n)) = n
<1>1. Chunks \in Nat
  BY CoalesceAssumption
<1>2. Upto(n) \in [1..n -> 1..Chunks]
  BY <1>1 DEF Upto
<1>3. QED
  BY <1>1, <1>2 DEF Upto, Streams

\* A stream is its chunks in their order: its length determines it.
LEMMA StreamIsUpto ==
  ASSUME NEW s \in Streams
  PROVE  /\ Len(s) \in 0..Chunks
         /\ s = Upto(Len(s))
         /\ s \in Seq(1..Chunks)
<1>1. PICK n \in 0..Chunks : s = Upto(n)
  BY DEF Streams, Upto
<1>2. QED
  BY <1>1, StreamOfLength

\* Nothing sent is a stream.
LEMMA EmptyStream == <<>> \in Streams /\ Len(<<>>) = 0
<1>1. Chunks \in Nat
  BY CoalesceAssumption
<1>2. Upto(0) = <<>>
  BY DEF Upto
<1>3. QED
  BY <1>1, <1>2, StreamOfLength

\* What Chunk appends, and what Sent sends.
LEMMA StreamGrows ==
  ASSUME NEW s \in Streams, Len(s) < Chunks
  PROVE  /\ Append(s, Len(s) + 1) \in Streams
         /\ Len(Append(s, Len(s) + 1)) = Len(s) + 1
         /\ Append(s, Len(s) + 1) = Upto(Len(s) + 1)
<1>1. Len(s) \in 0..Chunks /\ s = Upto(Len(s)) /\ s \in Seq(1..Chunks) /\ Chunks \in Nat
  BY StreamIsUpto, CoalesceAssumption
<1> DEFINE n == Len(s)
<1>2. n \in Nat /\ n + 1 \in 0..Chunks
  BY <1>1
<1>3. Append(s, n + 1) = Upto(n + 1)
  <2>1. s \in Seq(Nat) /\ \A i \in 1..n : s[i] = i
    BY <1>1, <1>2 DEF Upto
  <2>2. Append(s, n + 1) = [i \in 1..(n + 1) |-> IF i = n + 1 THEN n + 1 ELSE s[i]]
    BY <2>1, <1>2
  <2>3. QED
    BY <2>1, <2>2, <1>2 DEF Upto
<1>4. QED
  BY <1>2, <1>3, StreamOfLength

\* The stream with one more chunk ends in that chunk.
LEMMA NextChunkSent ==
  ASSUME NEW s \in Streams, NEW t \in Streams, Len(t) + 1 = Len(s)
  PROVE  Append(t, Last(s)) = s
<1>1. /\ Len(s) \in 0..Chunks /\ s = Upto(Len(s))
      /\ Len(t) \in 0..Chunks /\ t = Upto(Len(t)) /\ Chunks \in Nat
  BY StreamIsUpto, CoalesceAssumption
<1>2. Last(s) = Len(t) + 1
  BY <1>1 DEF Last, Upto
<1>3. Len(t) < Chunks
  BY <1>1
<1>4. QED
  BY <1>1, <1>2, <1>3, StreamGrows

\* What a drain returns is what is missing.
LEMMA DrainCompletes ==
  ASSUME NEW s \in Streams, NEW t \in Streams, Len(t) <= Len(s)
  PROVE  t \o SubSeq(s, Len(t) + 1, Len(s)) = s
<1> DEFINE m == Len(t)
           n == Len(s)
           rest == SubSeq(s, m + 1, n)
<1>1. /\ m \in Nat /\ n \in Nat /\ m <= n
      /\ s \in Seq(Nat) /\ t \in Seq(Nat)
      /\ s = Upto(n) /\ t = Upto(m)
  <2>1. /\ n \in 0..Chunks /\ s = Upto(n) /\ s \in Seq(1..Chunks)
        /\ m \in 0..Chunks /\ t = Upto(m) /\ t \in Seq(1..Chunks)
    BY StreamIsUpto
  <2>2. Chunks \in Nat
    BY CoalesceAssumption
  <2>3. QED
    BY <2>1, <2>2
<1>. HIDE DEF m, n
<1>2. /\ rest \in Seq(Nat)
      /\ Len(rest) = n - m
      /\ \A i \in 1..(n - m) : rest[i] = s[m + i]
  BY <1>1 DEF n
<1>. HIDE DEF rest
<1>3. /\ t \o rest \in Seq(Nat)
      /\ Len(t \o rest) = n
      /\ \A i \in 1..n : (t \o rest)[i] = IF i <= m THEN t[i] ELSE rest[i - m]
  BY <1>1, <1>2 DEF m
<1>4. \A i \in 1..n : (t \o rest)[i] = s[i]
  <2>1. ASSUME NEW i \in 1..n
        PROVE  (t \o rest)[i] = s[i]
    <3>1. CASE i <= m
      BY <1>1, <1>3, <3>1 DEF Upto
    <3>2. CASE ~(i <= m)
      <4>1. i - m \in 1..(n - m) /\ m + (i - m) = i
        BY <1>1, <3>2
      <4>2. QED
        BY <1>2, <1>3, <3>2, <4>1
    <3>3. QED
      BY <3>1, <3>2
  <2>2. QED
    BY <2>1
<1>5. t \o rest = s
  BY <1>1, <1>3, <1>4, SeqEqual DEF n
<1>6. QED
  BY <1>5 DEF m, n, rest

--------------------------------------------------------------------------------
(* The inductive invariant.                                                  *)

\* Who leads and who follows.  A client that is there has a flight: its own, and
\* then it has a task, or that of a leader with the same key, and then it loops.
RolesOK ==
  \A c \in Clients :
    /\ flight[c] = None <=> client[c] = "new"
    /\ at[c] # "none" <=> flight[c] \notin {None, c}
    /\ work[c] # "none" <=> flight[c] = c
    /\ flight[c] # None => flight[flight[c]] = flight[c] /\ KeyOf[flight[c]] = KeyOf[c]
    /\ flight[c] = None => sse[c] = <<>> /\ got[c] = <<>> /\ ~tailing[c]
    /\ client[c] # "answered" => reply[c] = NoOutcome

\* The map has exactly the flights that are not over, each under its key.
MapOK ==
  \A f \in Clients :
    /\ flight[f] = f /\ work[f] # "over" => map[KeyOf[f]] = f
    /\ \A k \in Keys : map[k] = f => flight[f] = f /\ work[f] # "over" /\ KeyOf[f] = k

Ended == {"published", "woken", "over"}
Streaming == {"mark", "pump", "send", "cleanup"}

\* A flight that has streamed ends with its stream as the outcome, and the
\* leader's own client, as long as it is there, has got that stream.
FlightOK(f) ==
  /\ outcome[f] # NoOutcome <=> work[f] \in Ended
  /\ work[f] \in Streaming => started[f]
  /\ started[f] => work[f] \in Streaming \cup Ended
  /\ started[f] /\ work[f] \in Ended => outcome[f] = Sse(sse[f])
  /\ outcome[f].kind = "sse" => outcome[f] = Sse(sse[f])
  /\ client[f] = "connected" /\ flight[f] = f =>
       IF work[f] = "send" THEN Len(got[f]) + 1 = Len(sse[f]) ELSE got[f] = sse[f]

\* What a follower knows of its flight, and what it may rely on as long as the
\* Notified it has created has not fired.
FollowerOK(c) ==
  LET f == flight[c]
  IN  at[c] # "none" =>
        /\ at[c] \in {"drain", "last"} => tailing[c]
        /\ at[c] = "started" => ~tailing[c] /\ stream[c]
        /\ at[c] = "last" => outcome[f] # NoOutcome
        /\ tailing[c] => started[f]
        /\ Len(got[c]) <= Len(sse[f])
        /\ ~notified[c] =>
             /\ at[c] \in {"check", "await"} /\ tailing[c] => got[c] = sse[f]
             /\ at[c] \in {"started", "await"} /\ outcome[f] # NoOutcome => work[f] = "published"
             /\ at[c] = "await" /\ ~tailing[c] /\ stream[c] /\ started[f] => work[f] = "mark"

\* Every client has got a first part of a stream.
GotOK == got \in [Clients -> Streams]

CoalesceInv ==
  /\ TypeOK
  /\ GotOK
  /\ RolesOK
  /\ MapOK
  /\ \A c \in Clients : FlightOK(c) /\ FollowerOK(c)

\* At the start there is no flight and nobody waits.
LEMMA CoalesceInvInit == Init => CoalesceInv
<1>1. ASSUME Init
      PROVE  CoalesceInv
  <2>1. <<>> \in Streams /\ <<>> \in Seq(1..Chunks)
    BY EmptyStream, StreamIsUpto
  <2>2. TypeOK /\ GotOK
    BY <1>1, <2>1 DEF Init, TypeOK, GotOK, WorkStates
  <2>3. RolesOK /\ MapOK
    BY <1>1, CoalesceAssumption DEF Init, RolesOK, MapOK
  <2>4. \A c \in Clients : FlightOK(c) /\ FollowerOK(c)
    BY <1>1 DEF Init, FlightOK, FollowerOK, Ended, Streaming, NoOutcome
  <2>5. QED
    BY <2>2, <2>3, <2>4 DEF CoalesceInv
<1>2. QED
  BY <1>1

\* A leader's flight is its own, and it does not loop.
LEMMA LeaderFacts ==
  ASSUME CoalesceInv, NEW f \in Clients, work[f] # "none"
  PROVE  flight[f] = f /\ at[f] = "none" /\ client[f] # "new"
BY CoalesceAssumption DEF CoalesceInv, RolesOK

\* A follower's flight is a leader's, with a task.
LEMMA FollowerFacts ==
  ASSUME CoalesceInv, NEW c \in Clients, at[c] # "none"
  PROVE  /\ flight[c] \in Clients /\ flight[c] # c
         /\ flight[flight[c]] = flight[c]
         /\ work[flight[c]] # "none" /\ work[c] = "none"
         /\ client[c] # "new"
BY CoalesceAssumption DEF CoalesceInv, RolesOK, TypeOK

\* What a drain leaves its client with: all there is.
LEMMA DrainGetsAll ==
  ASSUME CoalesceInv, NEW c \in Clients, at[c] # "none", DrainTo(c)
  PROVE  got' = [got EXCEPT ![c] = sse[flight[c]]] /\ sse[flight[c]] \in Streams
<1>1. flight[c] \in Clients /\ TypeOK /\ GotOK /\ Len(got[c]) <= Len(sse[flight[c]])
  BY FollowerFacts DEF CoalesceInv, FollowerOK
<1>2. sse[flight[c]] \in Streams /\ got[c] \in Streams
  BY <1>1 DEF TypeOK, GotOK
<1>3. QED
  BY <1>1, <1>2, DrainCompletes DEF DrainTo

\* What the leader's client has after a chunk was sent to it: all there is.
LEMMA SentGetsAll ==
  ASSUME CoalesceInv, NEW f \in Clients, work[f] = "send", client[f] = "connected",
         got' = [got EXCEPT ![f] = Append(@, Last(sse[f]))]
  PROVE  got' = [got EXCEPT ![f] = sse[f]] /\ sse[f] \in Streams
<1>1. sse[f] \in Streams /\ got[f] \in Streams /\ Len(got[f]) + 1 = Len(sse[f])
  BY LeaderFacts DEF CoalesceInv, TypeOK, GotOK, FlightOK
<1>2. QED
  BY <1>1, NextChunkSent DEF CoalesceInv, GotOK

\* Types.
LEMMA CoalesceTypesNext ==
  ASSUME CoalesceInv, Next
  PROVE  TypeOK' /\ GotOK'
<1>0. TypeOK /\ GotOK
  BY DEF CoalesceInv
<1>1. ASSUME NEW c \in Clients, NEW wantsStream \in BOOLEAN, Enter(c, wantsStream)
      PROVE  TypeOK' /\ GotOK'
  <2>1. KeyOf[c] \in Keys /\ map[KeyOf[c]] \in Clients \cup {None}
    BY <1>0, CoalesceAssumption DEF TypeOK
  <2>2. /\ map' \in [Keys -> Clients \cup {None}]
        /\ flight' \in [Clients -> Clients \cup {None}]
    <3>1. CASE map[KeyOf[c]] = None
      <4>1. /\ map' = [map EXCEPT ![KeyOf[c]] = c]
            /\ flight' = [flight EXCEPT ![c] = c]
        BY <1>1, <3>1 DEF Enter
      <4>2. QED
        BY <1>0, <2>1, <4>1 DEF TypeOK
    <3>2. CASE map[KeyOf[c]] # None
      BY <1>0, <1>1, <2>1, <3>2 DEF Enter, TypeOK
    <3>3. QED
      BY <3>1, <3>2
  <2>3. work' \in [Clients -> WorkStates]
    BY <1>0, <1>1 DEF Enter, TypeOK, WorkStates
  <2>4. QED
    BY <1>0, <1>1, <2>2, <2>3 DEF Enter, TypeOK, GotOK
<1>2. ASSUME NEW c \in Clients, Disconnect(c)
      PROVE  TypeOK' /\ GotOK'
  BY <1>0, <1>2 DEF Disconnect, flightVars, TypeOK, GotOK
<1>3. ASSUME NEW f \in Clients, NEW result \in {"json", "error"}, TaskReturns(f, result)
      PROVE  TypeOK' /\ GotOK'
  BY <1>0, <1>3 DEF TaskReturns, Goto, Unmoved, followerVars, TypeOK, GotOK, WorkStates
<1>4. ASSUME NEW f \in Clients, StreamStarts(f) \/ StreamMarked(f) \/ PumpEnds(f) \/ Wake(f)
      PROVE  TypeOK' /\ GotOK'
  <2>1. CASE StreamStarts(f)
    BY <1>0, <2>1 DEF StreamStarts, Goto, Unmoved, followerVars, TypeOK, GotOK, WorkStates
  <2>2. CASE StreamMarked(f)
    BY <1>0, <2>2 DEF StreamMarked, Goto, NotifyWaiters, Unmoved, TypeOK, GotOK, WorkStates
  <2>3. CASE PumpEnds(f)
    BY <1>0, <2>3 DEF PumpEnds, Goto, Unmoved, followerVars, TypeOK, GotOK, WorkStates
  <2>4. CASE Wake(f)
    BY <1>0, <2>4 DEF Wake, Goto, NotifyWaiters, Unmoved, TypeOK, GotOK, WorkStates
  <2>5. QED
    BY <1>4, <2>1, <2>2, <2>3, <2>4
<1>5. ASSUME NEW f \in Clients, Chunk(f)
      PROVE  TypeOK' /\ GotOK'
  <2>1. Append(sse[f], Len(sse[f]) + 1) \in Streams
    BY <1>0, <1>5, StreamGrows DEF Chunk, TypeOK
  <2>2. QED
    BY <1>0, <1>5, <2>1 DEF Chunk, Goto, NotifyWaiters, Unmoved, TypeOK, GotOK, WorkStates
<1>6. ASSUME NEW f \in Clients, Publish(f)
      PROVE  TypeOK' /\ GotOK'
  BY <1>0, <1>6 DEF Publish, Goto, Unmoved, followerVars, TypeOK, GotOK, WorkStates
<1>7. ASSUME NEW f \in Clients, Forget(f)
      PROVE  TypeOK' /\ GotOK'
  <2>1. Sse(got[f]) \in Outcomes
    BY <1>0 DEF GotOK, Outcomes
  <2>2. KeyOf[f] \in Keys /\ outcome[f] \in Outcomes \cup {NoOutcome}
    BY <1>0, CoalesceAssumption DEF TypeOK
  <2>3. QED
    BY <1>0, <1>7, <2>1, <2>2
       DEF Forget, Receive, Goto, followerVars, TypeOK, GotOK, WorkStates
<1>8. ASSUME NEW f \in Clients, Sent(f)
      PROVE  TypeOK' /\ GotOK'
  <2>1. got' \in [Clients -> Streams]
    BY <1>0, <1>8, SentGetsAll DEF Sent, GotOK
  <2>2. got' \in [Clients -> Seq(1..Chunks)]
    BY <2>1, StreamIsUpto
  <2>3. QED
    BY <1>0, <1>8, <2>1, <2>2 DEF Sent, Goto, Unmoved, followerVars, TypeOK, GotOK, WorkStates
<1>9. ASSUME NEW c \in Clients, Register(c) \/ CheckStarted(c) \/ Awake(c)
      PROVE  TypeOK' /\ GotOK'
  <2>1. at[c] # "none"
    BY <1>9 DEF Register, CheckStarted, Awake
  <2>2. flight[c] \in Clients
    BY <2>1, FollowerFacts
  <2>3. started[flight[c]] \in BOOLEAN
    BY <1>0, <2>2 DEF TypeOK
  <2>4. CASE Register(c)
    BY <1>0, <2>4 DEF Register, MoveTo, Unmoved, flightVars, TypeOK, GotOK
  <2>5. CASE CheckStarted(c)
    BY <1>0, <2>3, <2>5 DEF CheckStarted, MoveTo, Unmoved, flightVars, TypeOK, GotOK
  <2>6. CASE Awake(c)
    BY <1>0, <2>6 DEF Awake, MoveTo, Unmoved, flightVars, TypeOK, GotOK
  <2>7. QED
    BY <1>9, <2>4, <2>5, <2>6
<1>10. ASSUME NEW c \in Clients, Drain(c)
       PROVE  TypeOK' /\ GotOK'
  <2>1. got' \in [Clients -> Streams]
    BY <1>0, <1>10, DrainGetsAll DEF Drain, GotOK
  <2>2. got' \in [Clients -> Seq(1..Chunks)]
    BY <2>1, StreamIsUpto
  <2>3. QED
    BY <1>0, <1>10, <2>1, <2>2 DEF Drain, MoveTo, Unmoved, flightVars, TypeOK, GotOK
<1>11. ASSUME NEW c \in Clients, Check(c)
       PROVE  TypeOK' /\ GotOK'
  <2>1. at[c] # "none"
    BY <1>11 DEF Check
  <2>2. Outcome(c) \in Outcomes \cup {NoOutcome}
    BY <1>0, <2>1, FollowerFacts DEF Outcome, TypeOK
  <2>3. /\ client' \in [Clients -> {"new", "connected", "gone", "answered"}]
        /\ reply' \in [Clients -> Outcomes \cup {NoOutcome}]
    BY <1>0, <1>11, <2>2 DEF Check, Receive, TypeOK
  <2>4. at' \in [Clients -> {"none", "register", "drain", "check", "started",
                              "await", "last", "over"}]
    <3>1. PICK place \in {"started", "await", "last", "over"} : at' = [at EXCEPT ![c] = place]
      BY <1>11 DEF Check, MoveTo
    <3> QED BY <1>0, <3>1 DEF TypeOK
  <2>5. UNCHANGED <<map, stream, flight, work, sse, outcome, started, tailing, notified, got>>
    BY <1>11 DEF Check, Unmoved, flightVars
  <2>6. QED
    BY <1>0, <2>3, <2>4, <2>5 DEF TypeOK, GotOK
<1>12. ASSUME NEW c \in Clients, LastDrain(c)
       PROVE  TypeOK' /\ GotOK'
  <2>1. got' \in [Clients -> Streams]
    BY <1>0, <1>12, DrainGetsAll DEF LastDrain, GotOK
  <2>2. got' \in [Clients -> Seq(1..Chunks)]
    BY <2>1, StreamIsUpto
  <2>3. Sse(got'[c]) \in Outcomes
    BY <2>1 DEF Outcomes
  <2>4. QED
    BY <1>0, <1>12, <2>1, <2>2, <2>3
       DEF LastDrain, MoveTo, Receive, Unmoved, flightVars, TypeOK, GotOK
<1>13. QED
  BY <1>1, <1>2, <1>3, <1>4, <1>5, <1>6, <1>7, <1>8, <1>9, <1>10, <1>11, <1>12
     DEF Next, LeaderStep, FollowerStep

\* A step that takes no flight out of the map, and brings none, keeps the roles.
LEMMA RolesKept ==
  ASSUME TypeOK, RolesOK, MapOK, TypeOK', Unmoved,
         \A c \in Clients :
           /\ client'[c] = "new" <=> client[c] = "new"
           /\ at'[c] # "none" <=> at[c] # "none"
           /\ work'[c] # "none" <=> work[c] # "none"
           /\ work'[c] # "over" <=> work[c] # "over"
           /\ flight[c] = None =>
                sse'[c] = sse[c] /\ got'[c] = got[c] /\ tailing'[c] = tailing[c]
           /\ client'[c] # "answered" => client[c] # "answered" /\ reply'[c] = reply[c]
  PROVE  RolesOK' /\ MapOK'
<1>1. map' = map /\ flight' = flight
  BY DEF Unmoved
<1>2. RolesOK'
  BY <1>1 DEF RolesOK
<1>3. MapOK'
  BY <1>1 DEF MapOK
<1>4. QED
  BY <1>2, <1>3

\* Roles and the map.
LEMMA RolesNext ==
  ASSUME CoalesceInv, TypeOK', Next
  PROVE  RolesOK' /\ MapOK'
<1>0. TypeOK /\ RolesOK /\ MapOK
  BY DEF CoalesceInv
<1>1. ASSUME NEW c \in Clients, NEW wantsStream \in BOOLEAN, Enter(c, wantsStream)
      PROVE  RolesOK' /\ MapOK'
  <2>1. /\ KeyOf[c] \in Keys /\ c # None
        /\ flight[c] = None /\ at[c] = "none" /\ work[c] = "none"
        /\ \A d \in Clients : flight[d] # c
        /\ \A k \in Keys : map[k] # c
    BY <1>0, <1>1, CoalesceAssumption DEF Enter, RolesOK, MapOK
  <2>2. CASE map[KeyOf[c]] = None
    <3>1. /\ map' = [map EXCEPT ![KeyOf[c]] = c]
          /\ flight' = [flight EXCEPT ![c] = c]
          /\ work' = [work EXCEPT ![c] = "call"]
          /\ client' = [client EXCEPT ![c] = "connected"]
          /\ UNCHANGED <<at, sse, got, tailing, reply>>
      BY <1>1, <2>2 DEF Enter
    <3>2. RolesOK'
      BY <1>0, <1>1, <2>1, <3>1 DEF RolesOK, TypeOK
    <3>3. MapOK'
      BY <1>0, <2>1, <2>2, <3>1, CoalesceAssumption DEF MapOK, TypeOK
    <3>4. QED
      BY <3>2, <3>3
  <2>3. CASE map[KeyOf[c]] # None
    <3>1. PICK f \in Clients : f = map[KeyOf[c]]
      BY <1>0, <2>1, <2>3 DEF TypeOK
    <3>2. /\ map' = map /\ work' = work
          /\ flight' = [flight EXCEPT ![c] = f]
          /\ at' = [at EXCEPT ![c] = "register"]
          /\ client' = [client EXCEPT ![c] = "connected"]
          /\ UNCHANGED <<sse, got, tailing, reply>>
      BY <1>1, <2>3, <3>1 DEF Enter
    <3>3. flight[f] = f /\ KeyOf[f] = KeyOf[c] /\ f # c
      BY <1>0, <2>1, <3>1 DEF MapOK
    <3>4. RolesOK'
      BY <1>0, <1>1, <2>1, <3>2, <3>3, CoalesceAssumption DEF RolesOK, TypeOK, Enter
    <3>5. MapOK'
      BY <1>0, <2>1, <3>2, <3>3 DEF MapOK, TypeOK
    <3>6. QED
      BY <3>4, <3>5
  <2>4. QED
    BY <2>2, <2>3
<1>2. ASSUME NEW c \in Clients, Disconnect(c)
      PROVE  RolesOK' /\ MapOK'
  <2>1. Unmoved
    BY <1>2 DEF Disconnect, Unmoved
  <2>2. QED
    BY <1>0, <1>2, <2>1, RolesKept DEF Disconnect, flightVars, TypeOK, RolesOK
<1>3. ASSUME NEW f \in Clients, NEW result \in {"json", "error"}, TaskReturns(f, result)
      PROVE  RolesOK' /\ MapOK'
  BY <1>0, <1>3, RolesKept DEF TaskReturns, Goto, followerVars, TypeOK
<1>4. ASSUME NEW f \in Clients, StreamStarts(f) \/ StreamMarked(f) \/ PumpEnds(f) \/ Wake(f)
      PROVE  RolesOK' /\ MapOK'
  BY <1>0, <1>4, RolesKept
     DEF StreamStarts, StreamMarked, PumpEnds, Wake, Goto, followerVars, TypeOK
<1>5. ASSUME NEW f \in Clients, Chunk(f) \/ Sent(f)
      PROVE  RolesOK' /\ MapOK'
  <2>1. flight[f] # None
    BY <1>5, LeaderFacts, CoalesceAssumption DEF Chunk, Sent
  <2>2. QED
    BY <1>0, <1>5, <2>1, RolesKept DEF Chunk, Sent, Goto, followerVars, TypeOK
<1>6. ASSUME NEW f \in Clients, Publish(f)
      PROVE  RolesOK' /\ MapOK'
  BY <1>0, <1>6, RolesKept DEF Publish, Ready, Goto, followerVars, TypeOK
<1>7. ASSUME NEW f \in Clients, Forget(f)
      PROVE  RolesOK' /\ MapOK'
  <2>1. /\ KeyOf[f] \in Keys /\ flight[f] = f /\ work[f] = "woken"
        /\ map[KeyOf[f]] = f /\ f # None /\ None \notin Clients
    BY <1>0, <1>7, LeaderFacts, CoalesceAssumption DEF Forget, MapOK
  <2>2. /\ map' = [map EXCEPT ![KeyOf[f]] = None]
        /\ work' = [work EXCEPT ![f] = "over"]
        /\ UNCHANGED <<flight, at, sse, got, tailing>>
    BY <1>7 DEF Forget, Goto, followerVars
  <2>3. RolesOK'
    BY <1>0, <1>7, <2>1, <2>2 DEF Forget, Receive, RolesOK, TypeOK
  <2>4. MapOK'
    BY <1>0, <2>1, <2>2 DEF MapOK, TypeOK
  <2>5. QED
    BY <2>3, <2>4
<1>8. ASSUME NEW c \in Clients, Register(c) \/ CheckStarted(c) \/ Awake(c)
      PROVE  RolesOK' /\ MapOK'
  <2>1. flight[c] # None
    BY <1>8, FollowerFacts, CoalesceAssumption DEF Register, CheckStarted, Awake
  <2>2. QED
    BY <1>0, <1>8, <2>1, RolesKept
       DEF Register, CheckStarted, Awake, MoveTo, flightVars, TypeOK
<1>9. ASSUME NEW c \in Clients, Drain(c) \/ Check(c) \/ LastDrain(c)
      PROVE  RolesOK' /\ MapOK'
  <2>1. flight[c] # None /\ client[c] # "new"
    BY <1>9, FollowerFacts, CoalesceAssumption DEF Drain, Check, LastDrain
  <2>2. /\ Unmoved /\ work' = work /\ sse' = sse /\ tailing' = tailing
        /\ \A d \in Clients : d # c => got'[d] = got[d]
        /\ \A d \in Clients : at'[d] # "none" <=> at[d] # "none"
    BY <1>0, <1>9 DEF Drain, DrainTo, Check, LastDrain, MoveTo, flightVars, TypeOK
  <2>3. \A d \in Clients :
          /\ client'[d] = "new" <=> client[d] = "new"
          /\ client'[d] # "answered" => client[d] # "answered" /\ reply'[d] = reply[d]
    BY <1>0, <1>9, <2>1 DEF Drain, Check, LastDrain, Receive, TypeOK
  <2>4. QED
    BY <1>0, <2>1, <2>2, <2>3, RolesKept
<1>10. QED
  BY <1>1, <1>2, <1>3, <1>4, <1>5, <1>6, <1>7, <1>8, <1>9 DEF Next, LeaderStep, FollowerStep

\* A flight that no step ends, starts or extends, and whose leader keeps what it
\* has, stays as it is.
LEMMA FlightKept ==
  ASSUME NEW f \in Clients, FlightOK(f),
         work'[f] = work[f], sse'[f] = sse[f], outcome'[f] = outcome[f],
         started'[f] = started[f], got'[f] = got[f],
         client'[f] = "connected" /\ flight'[f] = f => client[f] = "connected" /\ flight[f] = f
  PROVE  FlightOK(f)'
BY DEF FlightOK

\* Flights.
LEMMA FlightNext ==
  ASSUME CoalesceInv, TypeOK', GotOK', Next, NEW g \in Clients
  PROVE  FlightOK(g)'
<1>0. TypeOK /\ RolesOK /\ FlightOK(g) /\ None \notin Clients
  BY CoalesceAssumption DEF CoalesceInv
<1>1. ASSUME NEW c \in Clients, NEW wantsStream \in BOOLEAN, Enter(c, wantsStream)
      PROVE  FlightOK(g)'
  <2>1. /\ flight[c] = None /\ work[c] = "none" /\ sse[c] = <<>> /\ got[c] = <<>>
        /\ UNCHANGED <<sse, outcome, started, got>>
    BY <1>0, <1>1, CoalesceAssumption DEF Enter, RolesOK
  <2>2. CASE g = c
    <3>1. work'[c] \in {"none", "call"}
      BY <1>0, <1>1, <2>1 DEF Enter, TypeOK
    <3>2. QED
      BY <1>0, <2>1, <2>2, <3>1 DEF FlightOK, Ended, Streaming
  <2>3. CASE g # c
    <3>1. work'[g] = work[g] /\ client'[g] = client[g] /\ flight'[g] = flight[g]
      BY <1>0, <1>1, <2>3 DEF Enter, TypeOK
    <3>2. QED
      BY <1>0, <2>1, <3>1, FlightKept
  <2>4. QED
    BY <2>2, <2>3
<1>2. ASSUME NEW c \in Clients, Disconnect(c)
      PROVE  FlightOK(g)'
  BY <1>0, <1>2, FlightKept DEF Disconnect, flightVars, TypeOK
<1>3. ASSUME NEW f \in Clients, f # g, LeaderStep(f) \/ Sent(f)
      PROVE  FlightOK(g)'
  BY <1>0, <1>3, FlightKept
     DEF LeaderStep, TaskReturns, StreamStarts, StreamMarked, Chunk, PumpEnds, Publish, Wake,
         Forget, Sent, Receive, Goto, Unmoved, followerVars, TypeOK
<1>4. ASSUME LeaderStep(g) \/ Sent(g)
      PROVE  FlightOK(g)'
  <2>0. flight[g] = g /\ at[g] = "none"
    BY <1>4, LeaderFacts
       DEF LeaderStep, TaskReturns, StreamStarts, StreamMarked, Chunk, PumpEnds, Publish,
           Ready, Wake, Forget, Sent
  <2>1. ASSUME NEW result \in {"json", "error"}, TaskReturns(g, result)
        PROVE  FlightOK(g)'
    BY <1>0, <2>1 DEF TaskReturns, Goto, Unmoved, TypeOK, FlightOK, Ended, Streaming
  <2>2. CASE StreamStarts(g)
    BY <1>0, <2>2 DEF StreamStarts, Goto, Unmoved, TypeOK, FlightOK, Ended, Streaming
  <2>3. CASE StreamMarked(g)
    BY <1>0, <2>3 DEF StreamMarked, Goto, Unmoved, TypeOK, FlightOK, Ended, Streaming
  <2>4. CASE Chunk(g)
    <3>1. /\ work[g] = "pump" /\ work'[g] = "send"
          /\ sse'[g] = Append(sse[g], Len(sse[g]) + 1)
          /\ client' = client /\ outcome' = outcome /\ started' = started /\ got' = got
          /\ flight' = flight
      BY <1>0, <2>4 DEF Chunk, Goto, Unmoved, TypeOK
    <3>2. Len(sse'[g]) = Len(sse[g]) + 1
      BY <1>0, <2>4, <3>1, StreamGrows DEF Chunk, TypeOK
    <3>3. outcome[g] = NoOutcome
      BY <1>0, <3>1 DEF FlightOK, Ended
    <3>4. QED
      BY <1>0, <2>0, <3>1, <3>2, <3>3 DEF FlightOK, Ended, Streaming, NoOutcome
  <2>5. CASE PumpEnds(g)
    BY <1>0, <2>5 DEF PumpEnds, Goto, Unmoved, TypeOK, FlightOK, Ended, Streaming
  <2>6. CASE Publish(g)
    <3>1. PICK result \in Outcomes :
            Ready(g, result) /\ outcome' = [outcome EXCEPT ![g] = result]
      BY <2>6 DEF Publish
    <3>2. /\ work'[g] = "published" /\ outcome'[g] = result
          /\ client' = client /\ sse' = sse /\ started' = started /\ got' = got
          /\ flight' = flight
      BY <1>0, <2>6, <3>1 DEF Publish, Goto, Unmoved, TypeOK
    <3>3. result # NoOutcome
      BY <3>1 DEF Ready, NoOutcome, Sse, Answer
    <3>4. started[g] => result = Sse(sse[g])
      BY <1>0, <3>1 DEF Ready, FlightOK, Ended, Streaming
    <3>5. result.kind = "sse" => result = Sse(sse[g])
      BY <3>1 DEF Ready, Answer
    <3>6. work[g] # "send" /\ work[g] # "published"
      BY <3>1 DEF Ready
    <3>7. QED
      BY <1>0, <3>2, <3>3, <3>4, <3>5, <3>6 DEF FlightOK, Ended, Streaming
  <2>7. CASE Wake(g)
    BY <1>0, <2>7 DEF Wake, Goto, Unmoved, TypeOK, FlightOK, Ended, Streaming
  <2>8. CASE Forget(g)
    BY <1>0, <2>8 DEF Forget, Receive, Goto, TypeOK, FlightOK, Ended, Streaming
  <2>9. CASE Sent(g)
    <3>1. client[g] = "connected" => got'[g] = sse[g]
      <4>1. ASSUME client[g] = "connected"
            PROVE  got'[g] = sse[g]
        <5>1. got' = [got EXCEPT ![g] = sse[g]]
          BY <2>9, <4>1, SentGetsAll DEF Sent
        <5>2. QED
          BY <5>1 DEF CoalesceInv, GotOK
      <4>2. QED
        BY <4>1
    <3>2. QED
      BY <1>0, <2>9, <3>1 DEF Sent, Goto, Unmoved, TypeOK, FlightOK, Ended, Streaming
  <2>10. QED
    BY <1>4, <2>1, <2>2, <2>3, <2>4, <2>5, <2>6, <2>7, <2>8, <2>9 DEF LeaderStep
<1>5. ASSUME NEW c \in Clients, FollowerStep(c)
      PROVE  FlightOK(g)'
  <2>1. flight[c] # c
    BY <1>5, FollowerFacts
       DEF FollowerStep, Register, Drain, Check, CheckStarted, Awake, LastDrain
  <2>2. /\ UNCHANGED <<work, sse, outcome, started, flight>>
        /\ g # c => got'[g] = got[g] /\ client'[g] = client[g]
    BY <1>0, <1>5
       DEF FollowerStep, Register, Drain, DrainTo, Check, CheckStarted, Awake, LastDrain,
           Receive, Unmoved, flightVars, TypeOK
  <2>3. CASE g = c
    BY <1>0, <2>1, <2>2, <2>3 DEF FlightOK
  <2>4. QED
    BY <1>0, <2>2, <2>3, FlightKept
<1>6. QED
  BY <1>1, <1>2, <1>3, <1>4, <1>5 DEF Next

\* What a follower knows survives a step that leaves its flight alone, and its
\* own place; its Notified may fire.
LEMMA FollowerKept ==
  ASSUME NEW c \in Clients, FollowerOK(c),
         at'[c] = "none" \/ at'[c] = "over" \/ at'[c] = at[c],
         notified'[c] \/ notified'[c] = notified[c],
         tailing'[c] = tailing[c], stream'[c] = stream[c], got'[c] = got[c],
         flight'[c] = flight[c],
         at[c] # "none" =>
           /\ work'[flight[c]] = work[flight[c]]
           /\ sse'[flight[c]] = sse[flight[c]]
           /\ outcome'[flight[c]] = outcome[flight[c]]
           /\ started'[flight[c]] = started[flight[c]],
         at[c] = "none" => at'[c] = "none"
  PROVE  FollowerOK(c)'
BY DEF FollowerOK

\* It also survives a step of its flight that wakes it.
LEMMA FollowerWoken ==
  ASSUME TypeOK, NEW c \in Clients, FollowerOK(c), NEW f \in Clients,
         at[c] # "none", flight[c] = f, c # f, NotifyWaiters(f),
         UNCHANGED <<flight, stream, at, tailing, got, outcome, started>>,
         Len(sse'[f]) >= Len(sse[f]),
         Len(got[c]) \in Nat, Len(sse[f]) \in Nat, Len(sse'[f]) \in Nat
  PROVE  FollowerOK(c)'
<1>1. notified'[c]
  BY DEF NotifyWaiters
<1>2. QED
  BY <1>1 DEF FollowerOK

\* Followers.
LEMMA FollowerNext ==
  ASSUME CoalesceInv, TypeOK', GotOK', Next, NEW d \in Clients
  PROVE  FollowerOK(d)'
<1>0. /\ TypeOK /\ RolesOK /\ GotOK /\ FollowerOK(d) /\ None \notin Clients
      /\ \A f \in Clients : FlightOK(f)
  BY CoalesceAssumption DEF CoalesceInv
<1>1. at[d] # "none" => flight[d] \in Clients /\ flight[d] # d /\ work[flight[d]] # "none"
  BY FollowerFacts
<1>2. ASSUME NEW c \in Clients, NEW wantsStream \in BOOLEAN, Enter(c, wantsStream)
      PROVE  FollowerOK(d)'
  <2>1. /\ client[c] = "new" /\ flight[c] = None /\ at[c] = "none" /\ work[c] = "none"
        /\ got[c] = <<>> /\ ~tailing[c]
        /\ UNCHANGED <<sse, outcome, started, tailing, notified, got>>
    BY <1>0, <1>2, CoalesceAssumption DEF Enter, RolesOK
  <2>2. CASE d = c /\ map[KeyOf[c]] = None
    BY <1>0, <1>2, <2>1, <2>2 DEF Enter, TypeOK, FollowerOK
  <2>3. CASE d = c /\ map[KeyOf[c]] # None
    <3>1. at'[c] = "register"
      BY <1>0, <1>2, <2>1, <2>3 DEF Enter, TypeOK
    <3>2. ~tailing'[c]
      BY <2>1
    <3>3. Len(got'[d]) <= Len(sse'[flight'[d]])
      <4>1. flight'[d] \in Clients
        BY <1>0, <1>2, <2>3, CoalesceAssumption DEF Enter, TypeOK
      <4>2. sse'[flight'[d]] \in Streams
        BY <4>1 DEF TypeOK
      <4>3. Len(sse'[flight'[d]]) \in 0..Chunks
        BY <4>2, StreamIsUpto
      <4>4. got'[d] = <<>>
        BY <2>1, <2>3
      <4>5. QED
        BY <4>3, <4>4, EmptyStream
    <3>4. QED
      BY <2>3, <3>1, <3>2, <3>3 DEF FollowerOK
  <2>4. CASE d # c
    <3>1. /\ at'[d] = at[d] /\ stream'[d] = stream[d] /\ flight'[d] = flight[d]
          /\ at[d] # "none" => work'[flight[d]] = work[flight[d]]
      BY <1>0, <1>1, <1>2, <2>1, <2>4 DEF Enter, TypeOK
    <3>2. QED
      BY <1>0, <2>1, <3>1, FollowerKept
  <2>5. QED
    BY <2>2, <2>3, <2>4
<1>3. ASSUME NEW c \in Clients, Disconnect(c)
      PROVE  FollowerOK(d)'
  BY <1>0, <1>3, FollowerKept DEF Disconnect, flightVars, TypeOK
<1>4. ASSUME NEW f \in Clients, LeaderStep(f) \/ Sent(f)
      PROVE  FollowerOK(d)'
  <2>1. flight[f] = f /\ at[f] = "none"
    BY <1>4, LeaderFacts
       DEF LeaderStep, TaskReturns, StreamStarts, StreamMarked, Chunk, PumpEnds, Publish,
           Ready, Wake, Forget, Sent
  <2>2. /\ at' = at /\ tailing' = tailing /\ stream' = stream /\ flight' = flight
        /\ d # f => got'[d] = got[d]
        /\ notified'[d] \/ notified'[d] = notified[d]
    BY <1>0, <1>4
       DEF LeaderStep, TaskReturns, StreamStarts, StreamMarked, Chunk, PumpEnds, Publish, Wake,
           Forget, Sent, Unmoved, followerVars, NotifyWaiters, TypeOK
  <2>3. CASE at[d] = "none"
    BY <2>2, <2>3 DEF FollowerOK
  <2>4. CASE at[d] # "none" /\ flight[d] # f
    <3>1. /\ work'[flight[d]] = work[flight[d]] /\ sse'[flight[d]] = sse[flight[d]]
          /\ outcome'[flight[d]] = outcome[flight[d]]
          /\ started'[flight[d]] = started[flight[d]]
      <4>1. flight[d] \in Clients
        BY <1>1, <2>4
      <4>2. CASE LeaderStep(f)
        BY <1>0, <2>4, <4>1, <4>2
           DEF LeaderStep, TaskReturns, StreamStarts, StreamMarked, Chunk, PumpEnds, Publish,
               Wake, Forget, Goto, Unmoved, followerVars, TypeOK
      <4>3. CASE Sent(f)
        BY <1>0, <2>4, <4>1, <4>3 DEF Sent, Goto, Unmoved, followerVars, TypeOK
      <4> QED BY <1>4, <4>2, <4>3
    <3>2. d # f
      BY <2>1, <2>4
    <3>3. QED
      BY <1>0, <2>2, <3>1, <3>2, FollowerKept
  <2>5. CASE at[d] # "none" /\ flight[d] = f
    <3>0. /\ d # f /\ got'[d] = got[d] /\ FlightOK(f)
          /\ Len(got[d]) \in Nat /\ Len(sse[f]) \in Nat /\ Len(sse'[f]) \in Nat
      <4>1. got[d] \in Streams /\ sse[f] \in Streams /\ sse'[f] \in Streams
        BY <1>0 DEF TypeOK, GotOK
      <4>2. QED
        BY <1>0, <2>1, <2>2, <2>5, <4>1, StreamIsUpto
    <3>1. ASSUME NEW result \in {"json", "error"}, TaskReturns(f, result)
          PROVE  FollowerOK(d)'
      BY <1>0, <2>2, <2>5, <3>0, <3>1
         DEF TaskReturns, Goto, followerVars, TypeOK, FlightOK, FollowerOK, Ended, Streaming
    <3>2. CASE StreamStarts(f)
      BY <1>0, <2>2, <2>5, <3>0, <3>2
         DEF StreamStarts, Goto, followerVars, TypeOK, FlightOK, FollowerOK, Ended, Streaming
    <3>3. CASE StreamMarked(f) \/ Wake(f)
      BY <1>0, <2>2, <2>5, <3>0, <3>3, FollowerWoken DEF StreamMarked, Wake, Unmoved
    <3>4. CASE Chunk(f)
      <4>1. Len(sse'[f]) = Len(sse[f]) + 1
        BY <1>0, <3>4, StreamGrows DEF Chunk, TypeOK
      <4>2. QED
        BY <1>0, <2>2, <2>5, <3>0, <3>4, <4>1, FollowerWoken DEF Chunk, Unmoved
    <3>5. CASE PumpEnds(f) \/ Sent(f)
      BY <1>0, <2>2, <2>5, <3>0, <3>5
         DEF PumpEnds, Sent, Goto, followerVars, TypeOK, FlightOK, FollowerOK, Ended, Streaming
    <3>6. CASE Publish(f)
      <4>1. /\ work'[f] = "published" /\ outcome'[f] # NoOutcome /\ outcome[f] = NoOutcome
            /\ work[f] # "mark" /\ UNCHANGED <<sse, started, notified>>
        BY <1>0, <3>0, <3>6
           DEF Publish, Ready, Goto, followerVars, TypeOK, FlightOK, Ended, NoOutcome, Answer, Sse
      <4>2. QED
        BY <1>0, <2>2, <2>5, <3>0, <4>1 DEF FollowerOK
    <3>7. CASE Forget(f)
      BY <1>0, <2>2, <2>5, <3>0, <3>7
         DEF Forget, Goto, followerVars, TypeOK, FollowerOK
    <3>8. QED
      BY <1>4, <3>1, <3>2, <3>3, <3>4, <3>5, <3>6, <3>7 DEF LeaderStep
  <2>6. QED
    BY <2>3, <2>4, <2>5
<1>5. ASSUME NEW c \in Clients, c # d, FollowerStep(c)
      PROVE  FollowerOK(d)'
  <2>1. UNCHANGED flightVars /\ flight' = flight /\ stream' = stream
    BY <1>5 DEF FollowerStep, Register, Drain, Check, CheckStarted, Awake, LastDrain, Unmoved
  <2>2. /\ at'[d] = at[d] /\ notified'[d] = notified[d] /\ tailing'[d] = tailing[d]
        /\ got'[d] = got[d]
    BY <1>0, <1>5
       DEF FollowerStep, Register, Drain, DrainTo, Check, CheckStarted, Awake, LastDrain,
           MoveTo, TypeOK
  <2>3. QED
    BY <1>0, <2>1, <2>2, FollowerKept DEF flightVars
<1>6. ASSUME FollowerStep(d)
      PROVE  FollowerOK(d)'
  <2>0. at[d] # "none"
    BY <1>6 DEF FollowerStep, Register, Drain, Check, CheckStarted, Awake, LastDrain
  <2>1. PICK f \in Clients : f = flight[d] /\ f # d /\ FlightOK(f)
    BY <1>0, <1>1, <2>0
  <2>2. flight' = flight /\ stream' = stream /\ UNCHANGED flightVars
    BY <1>6 DEF FollowerStep, Register, Drain, Check, CheckStarted, Awake, LastDrain, Unmoved
  <2>3. CASE Register(d)
    BY <1>0, <2>0, <2>1, <2>2, <2>3 DEF Register, MoveTo, flightVars, TypeOK, FollowerOK
  <2>4. CASE Drain(d)
    <3>1. CASE MoveTo(d, "over") /\ UNCHANGED got
      BY <1>0, <2>0, <2>1, <2>2, <2>4, <3>1
         DEF Drain, MoveTo, flightVars, TypeOK, FollowerOK
    <3>2. CASE DrainTo(d) /\ MoveTo(d, "check")
      <4>1. got'[d] = sse'[f] /\ sse[f] \in Streams
        BY <1>0, <2>0, <2>1, <2>2, <3>2, DrainGetsAll DEF flightVars, GotOK
      <4>2. Len(got'[d]) <= Len(sse'[f])
        BY <2>2, <4>1, StreamIsUpto DEF flightVars
      <4>3. QED
        BY <1>0, <2>0, <2>1, <2>2, <2>4, <3>2, <4>1, <4>2
           DEF Drain, MoveTo, flightVars, TypeOK, FollowerOK
    <3>3. QED
      BY <2>4, <3>1, <3>2 DEF Drain
  <2>5. CASE Check(d)
    BY <1>0, <2>0, <2>1, <2>2, <2>5
       DEF Check, Finished, Outcome, MoveTo, flightVars, TypeOK, FollowerOK
  <2>6. CASE CheckStarted(d)
    BY <1>0, <2>0, <2>1, <2>2, <2>6 DEF CheckStarted, MoveTo, flightVars, TypeOK, FollowerOK
  <2>7. CASE Awake(d)
    BY <1>0, <2>0, <2>1, <2>2, <2>7 DEF Awake, MoveTo, flightVars, TypeOK, FollowerOK
  <2>8. CASE LastDrain(d)
    <3>1. got'[d] = sse'[f] /\ sse[f] \in Streams
      BY <1>0, <2>0, <2>1, <2>2, <2>8, DrainGetsAll DEF LastDrain, flightVars, GotOK
    <3>2. Len(got'[d]) <= Len(sse'[f])
      BY <2>2, <3>1, StreamIsUpto DEF flightVars
    <3>3. QED
      BY <1>0, <2>0, <2>1, <2>2, <2>8, <3>1, <3>2
         DEF LastDrain, MoveTo, flightVars, TypeOK, FollowerOK
  <2>9. QED
    BY <1>6, <2>3, <2>4, <2>5, <2>6, <2>7, <2>8 DEF FollowerStep
<1>7. QED
  BY <1>2, <1>3, <1>4, <1>5, <1>6 DEF Next

\* Every step of leader, reader and followers keeps the invariant.
LEMMA CoalesceInvNext == CoalesceInv /\ [Next]_vars => CoalesceInv'
<1>1. ASSUME CoalesceInv, Next
      PROVE  CoalesceInv'
  BY <1>1, CoalesceTypesNext, RolesNext, FlightNext, FollowerNext DEF CoalesceInv
<1>2. ASSUME CoalesceInv, UNCHANGED vars
      PROVE  CoalesceInv'
  BY <1>2 DEF vars, flightVars, followerVars, CoalesceInv, TypeOK, GotOK, RolesOK, MapOK,
              FlightOK, FollowerOK
<1>3. QED
  BY <1>1, <1>2

\* However the tasks, the clients' departures and the wakeups interleave.
THEOREM CoalesceInvariant == Spec => []CoalesceInv
<1>1. QED
  BY CoalesceInvInit, CoalesceInvNext, PTL DEF Spec

\* Every value stays in its range, the chunks a client gets included.
THEOREM CoalesceTypeCorrect == Spec => []TypeOK
<1>1. CoalesceInv => TypeOK
  BY DEF CoalesceInv
<1>2. QED
  BY <1>1, CoalesceInvariant, PTL

\* A key's requests cause one backend call at a time, whoever disconnects: a
\* flight that computes is the one the map has for its key.
THEOREM OneCallAtATime == Spec => []OneCallPerKey
<1>1. CoalesceInv => OneCallPerKey
  BY DEF CoalesceInv, RolesOK, MapOK, OneCallPerKey
<1>2. QED
  BY <1>1, CoalesceInvariant, PTL

\* No wakeup falls between a follower's look at its flight and its sleep.
THEOREM WakeupsReach == Spec => []NoLostWakeup
<1>1. CoalesceInv => NoLostWakeup
  BY DEF CoalesceInv, FollowerOK, NoLostWakeup
<1>2. QED
  BY <1>1, CoalesceInvariant, PTL

--------------------------------------------------------------------------------
(* Coalescing implements SharedAnswer.                                       *)

Open == {f \in Clients : flight[f] = f /\ work[f] # "over"}

\* The start maps to the start of SharedAnswer.
LEMMA SharedInit == Init => Shared!Init
<1>1. ASSUME Init
      PROVE  Open = {}
  BY <1>1, CoalesceAssumption DEF Init, Open
<1>2. QED
  BY <1>1 DEF Init, Shared!Init, Open

\* A step that starts no flight and ends none leaves the open groups alone.
LEMMA OpenKept ==
  ASSUME flight' = flight, \A c \in Clients : work'[c] = "over" <=> work[c] = "over"
  PROVE  Open' = Open
BY DEF Open

\* Every step maps to a step of SharedAnswer, or leaves its variables alone.
LEMMA SharedStep ==
  ASSUME CoalesceInv, CoalesceInv', Next
  PROVE  Shared!Next \/ UNCHANGED Shared!sharedVars
<1>0. TypeOK /\ TypeOK' /\ RolesOK /\ MapOK /\ None \notin Clients
  BY CoalesceAssumption DEF CoalesceInv
<1>. USE DEF Open
<1>1. ASSUME NEW c \in Clients, NEW wantsStream \in BOOLEAN, Enter(c, wantsStream)
      PROVE  Shared!Next
  <2>1. /\ flight[c] = None /\ work[c] = "none" /\ KeyOf[c] \in Keys
        /\ outcome' = outcome /\ reply' = reply
    BY <1>0, <1>1, CoalesceAssumption DEF Enter, RolesOK
  <2>2. CASE map[KeyOf[c]] = None
    <3>1. /\ flight' = [flight EXCEPT ![c] = c]
          /\ work' = [work EXCEPT ![c] = "call"]
      BY <1>1, <2>2 DEF Enter
    <3>2. \A f \in Open : KeyOf[f] # KeyOf[c]
      BY <1>0, <2>2 DEF MapOK
    <3>3. Open' = Open \cup {c}
      BY <1>0, <2>1, <3>1 DEF TypeOK
    <3>4. Shared!Found(c)
      BY <2>1, <3>1, <3>2, <3>3 DEF Shared!Found
    <3>5. QED
      BY <3>4 DEF Shared!Next
  <2>3. CASE map[KeyOf[c]] # None
    <3>1. PICK f \in Clients : f = map[KeyOf[c]]
      BY <1>0, <2>1, <2>3 DEF TypeOK
    <3>2. flight' = [flight EXCEPT ![c] = f] /\ work' = work
      BY <1>1, <2>3, <3>1 DEF Enter
    <3>3. f \in Open /\ KeyOf[f] = KeyOf[c]
      BY <1>0, <2>1, <3>1 DEF MapOK
    <3>4. Open' = Open
      BY <1>0, <2>1, <3>2, <3>3 DEF TypeOK
    <3>5. Shared!Join(c, f)
      BY <2>1, <3>2, <3>3, <3>4 DEF Shared!Join
    <3>6. QED
      BY <3>5 DEF Shared!Next
  <2>4. QED
    BY <2>2, <2>3
<1>2. ASSUME NEW f \in Clients, Publish(f)
      PROVE  Shared!Next
  <2>1. PICK result \in Outcomes :
          Ready(f, result) /\ outcome' = [outcome EXCEPT ![f] = result]
    BY <1>2 DEF Publish
  <2>2. /\ flight[f] = f /\ work[f] \notin {"over", "none"} /\ outcome[f] = NoOutcome
        /\ reply' = reply /\ flight' = flight
        /\ work' = [work EXCEPT ![f] = "published"]
    <3>1. work[f] \in {"cleanup", "json", "error"}
      BY <2>1 DEF Ready
    <3>2. QED
      BY <1>2, <3>1, LeaderFacts
         DEF Publish, Goto, Unmoved, CoalesceInv, FlightOK, Ended
  <2>3. Open' = Open
    BY <1>0, <2>2 DEF TypeOK
  <2>4. Shared!Compute(f, result)
    BY <2>1, <2>2, <2>3 DEF Shared!Compute
  <2>5. QED
    BY <2>4 DEF Shared!Next
<1>3. ASSUME NEW f \in Clients, Forget(f)
      PROVE  Shared!Next
  <2>1. /\ flight[f] = f /\ work[f] = "woken" /\ outcome[f] # NoOutcome
        /\ flight' = flight /\ outcome' = outcome
        /\ work' = [work EXCEPT ![f] = "over"]
    BY <1>3, LeaderFacts
       DEF Forget, Goto, CoalesceInv, FlightOK, Ended
  <2>2. Open' = Open \ {f}
    BY <1>0, <2>1 DEF TypeOK
  <2>3. reply' \in {reply, [reply EXCEPT ![f] = outcome[f]]}
    <3>1. CASE client[f] = "connected"
      <4>1. outcome[f].kind = "sse" => outcome[f] = Sse(got[f])
        BY <2>1, <3>1 DEF CoalesceInv, FlightOK
      <4>2. QED
        BY <1>3, <3>1, <4>1 DEF Forget, Receive
    <3>2. CASE client[f] # "connected"
      BY <1>3, <3>2 DEF Forget, Receive
    <3>3. QED
      BY <3>1, <3>2
  <2>4. Shared!Close(f)
    BY <2>1, <2>2, <2>3 DEF Shared!Close
  <2>5. QED
    BY <2>4 DEF Shared!Next
<1>4. ASSUME NEW c \in Clients, NEW answer, at[c] # "none", Finished(c), answer = Outcome(c),
             Receive(c, answer), UNCHANGED <<flight, work, outcome>>
      PROVE  Shared!Next \/ UNCHANGED Shared!sharedVars
  <2>1. flight[c] # None /\ outcome[flight[c]] # NoOutcome /\ Open' = Open
    BY <1>0, <1>4, FollowerFacts DEF Finished, Outcome
  <2>2. CASE client[c] = "connected"
    <3>1. reply[c] = NoOutcome /\ reply' = [reply EXCEPT ![c] = outcome[flight[c]]]
      BY <1>0, <1>4, <2>2 DEF Receive, Outcome, RolesOK
    <3>2. Shared!Reply(c)
      BY <1>4, <2>1, <3>1 DEF Shared!Reply
    <3>3. QED
      BY <3>2 DEF Shared!Next
  <2>3. CASE client[c] # "connected"
    BY <1>4, <2>1, <2>3 DEF Receive, Shared!sharedVars
  <2>4. QED
    BY <2>2, <2>3
<1>5. ASSUME NEW c \in Clients, Check(c)
      PROVE  Shared!Next \/ UNCHANGED Shared!sharedVars
  <2>1. at[c] # "none" /\ UNCHANGED <<flight, work, outcome>>
    BY <1>5 DEF Check, Unmoved, flightVars
  <2>2. CASE Finished(c) /\ ~tailing[c]
    BY <1>4, <1>5, <2>1, <2>2 DEF Check
  <2>3. CASE ~(Finished(c) /\ ~tailing[c])
    BY <1>5, <2>1, <2>3 DEF Check, Shared!sharedVars
  <2>4. QED
    BY <2>2, <2>3
<1>6. ASSUME NEW c \in Clients, LastDrain(c)
      PROVE  Shared!Next \/ UNCHANGED Shared!sharedVars
  <2>1. at[c] = "last" /\ DrainTo(c) /\ UNCHANGED <<flight, work, outcome>>
    BY <1>6 DEF LastDrain, Unmoved, flightVars
  <2>2. got'[c] = sse[flight[c]]
    BY <1>0, <2>1, DrainGetsAll DEF CoalesceInv, GotOK
  <2>3. flight[c] \in Clients /\ Finished(c) /\ started[flight[c]]
    BY <2>1, FollowerFacts DEF CoalesceInv, FollowerOK, Finished, Outcome
  <2>4. outcome[flight[c]] = Sse(sse[flight[c]])
    BY <2>3 DEF CoalesceInv, FlightOK, Finished, Outcome
  <2>5. QED
    BY <1>4, <1>6, <2>1, <2>2, <2>3, <2>4 DEF LastDrain, Outcome
<1>7. ASSUME NEW c \in Clients, NEW result \in {"json", "error"},
             \/ Disconnect(c)
             \/ TaskReturns(c, result) \/ StreamStarts(c) \/ StreamMarked(c)
             \/ Chunk(c) \/ PumpEnds(c) \/ Wake(c) \/ Sent(c)
             \/ Register(c) \/ Drain(c) \/ CheckStarted(c) \/ Awake(c)
      PROVE  UNCHANGED Shared!sharedVars
  <2>1. flight' = flight /\ outcome' = outcome /\ reply' = reply
    BY <1>7 DEF Disconnect, TaskReturns, StreamStarts, StreamMarked, Chunk, PumpEnds, Wake, Sent,
                Register, Drain, CheckStarted, Awake, Unmoved, flightVars
  <2>2. \A d \in Clients : work'[d] = "over" <=> work[d] = "over"
    BY <1>0, <1>7
       DEF Disconnect, TaskReturns, StreamStarts, StreamMarked, Chunk, PumpEnds, Wake, Sent,
           Register, Drain, CheckStarted, Awake, Goto, flightVars, TypeOK
  <2>3. Open' = Open
    BY <2>1, <2>2, OpenKept
  <2>4. QED
    BY <2>1, <2>3 DEF Shared!sharedVars
<1>8. QED
  BY <1>1, <1>2, <1>3, <1>5, <1>6, <1>7 DEF Next, LeaderStep, FollowerStep

\* Coalescing keeps its promise: a group computes one answer, and whoever of it is
\* replied to, its leader included, gets that answer, a stream chunk by chunk.
THEOREM CoalesceKeepsPromise == Spec => SharesOneAnswer
<1>1. CoalesceInv /\ CoalesceInv' /\ [Next]_vars => [Shared!Next]_(Shared!sharedVars)
  <2>1. ASSUME UNCHANGED vars
        PROVE  UNCHANGED Shared!sharedVars
    BY <2>1 DEF vars, flightVars, Shared!sharedVars
  <2>2. QED
    BY <2>1, SharedStep
<1>2. QED
  BY <1>1, SharedInit, CoalesceInvariant, PTL DEF Spec, SharesOneAnswer, Shared!Spec
================================================================================
