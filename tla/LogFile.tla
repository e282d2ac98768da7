--------------------------------- MODULE LogFile ---------------------------------
(***************************************************************************)
(* The request log's file and its rotated generations (RequestLog in       *)
(* src/plugins/src/builtin/request_log.rs).  Everything runs under one     *)
(* mutex, so a record is appended in one step; but a rotation is a series  *)
(* of system calls, each of which may fail and between any two of which    *)
(* the process may be killed.                                              *)
(*                                                                         *)
(* A file is the sequence of its lines, the header block being one; sizes  *)
(* count lines.  Generation 0 is the log itself, g is <path>.<g>.  A write *)
(* that fails writes nothing.                                              *)
(***************************************************************************)
EXTENDS SequencesExt, FiniteSetsExt, Integers

CONSTANTS
  Nobody,  \* not a writer
  Logs     \* the logs the proxy may be configured with

\* directory: the path names one; a bare file name has the empty path for parent.
ASSUME LogFileAssumption == Logs \subseteq [directory : BOOLEAN, max_bytes : Nat, keep : Nat]

VARIABLES
  log,     \* the log's settings: where it is, max_bytes, keep
  files,   \* the existing files, by generation
  file,    \* Inner: the file is open
  size,    \* Inner: the tracked size
  holder,  \* who holds the mutex, rotating
  todo     \* what the rotation still has to do

logVars == <<log, files, file, size, holder, todo>>

Header == 0

LogInit ==
  /\ log \in Logs
  /\ files = [g \in {} |-> <<>>]
  /\ file = FALSE /\ size = 0
  /\ holder = Nobody /\ todo = <<>>
--------------------------------------------------------------------------------
Without(g) == Restrict(files, DOMAIN files \ {g})
With(fs, g, lines) == [h \in DOMAIN fs \union {g} |-> IF h = g THEN lines ELSE fs[h]]

\* ensure_open: what the log holds once it is open, with the header if it was empty.
OnDisk == IF 0 \in DOMAIN files THEN files[0] ELSE <<>>
SizeWhenOpen == IF file THEN size ELSE Len(OnDisk)
Opened == IF SizeWhenOpen = 0 THEN Append(OnDisk, Header) ELSE OnDisk

\* Mutant of OpenedSize: the header is not counted.
OpenedSizeBare == SizeWhenOpen

OpenedSize == IF SizeWhenOpen = 0 THEN 1 ELSE SizeWhenOpen

(***************************************************************************)
(* rotate: the listing sees the generations at its start; those that would *)
(* exceed keep are removed, the rest moved up, the highest first, and then *)
(* the log becomes generation 1.  The parent of a bare file name is the    *)
(* empty path, whose listing fails: no generation is seen.                 *)
(***************************************************************************)
Generations == IF log.directory THEN DOMAIN files \ {0} ELSE {}
Task(op, gen) == [op |-> op, gen |-> gen]

\* The generations in the order of the loops: a set of one sequence.
HighestFirst(gens) ==
  {order \in SetToSeqs(gens) : \A i, j \in DOMAIN order : i < j => order[i] > order[j]}
Tasks(op, gens) == [i \in 1..Len(gens) |-> Task(op, gens[i])]

\* Mutant of TooOld: a generation that will exceed keep stays.
TooOldByOne(gens) == {g \in gens : log.keep > 0 /\ g > log.keep}

TooOld(gens) == {g \in gens : log.keep > 0 /\ g >= log.keep}

Rotations(gens) ==
  {Append(Tasks("unlink", removals) \o Tasks("rename", shifts), Task("rename", 0)) :
     removals \in HighestFirst(TooOld(gens)), shifts \in HighestFirst(gens)}

\* log: append the line, and begin the rotation when the file has outgrown its limit.
AppendLine(w, line) ==
  /\ holder = Nobody
  /\ UNCHANGED log
  /\ files' = With(files, 0, Append(Opened, line))
  /\ size' = OpenedSize + 1
  /\ IF log.max_bytes > 0 /\ OpenedSize + 1 > log.max_bytes
     THEN holder' = w /\ file' = FALSE /\ todo' \in Rotations(Generations)
     ELSE file' = TRUE /\ UNCHANGED <<holder, todo>>

\* log fails: the file cannot be opened, or the header or the line not written.
CannotOpen == holder = Nobody /\ ~file /\ UNCHANGED logVars
CannotWriteHeader ==
  /\ holder = Nobody /\ SizeWhenOpen = 0
  /\ files' = With(files, 0, OnDisk) /\ size' = 0 /\ file' = TRUE
  /\ UNCHANGED <<log, holder, todo>>
CannotWriteLine ==
  /\ holder = Nobody
  /\ files' = With(files, 0, Opened) /\ size' = OpenedSize /\ file' = TRUE
  /\ UNCHANGED <<log, holder, todo>>

Current == Head(todo)
Doing(op) == todo # <<>> /\ Current.op = op
Goes == todo' = Tail(todo) /\ UNCHANGED <<log, file, holder>>
Returns == todo' = <<>> /\ holder' = Nobody /\ UNCHANGED <<log, file>>

Unlink == Doing("unlink") /\ files' = Without(Current.gen) /\ UNCHANGED size /\ Goes
CannotUnlink == Doing("unlink") /\ UNCHANGED <<files, size>> /\ Goes   \* ignored

Renamed ==
  IF Current.gen \in DOMAIN files
  THEN With(Without(Current.gen), Current.gen + 1, files[Current.gen])
  ELSE files

Shift == Doing("rename") /\ Current.gen > 0 /\ files' = Renamed /\ UNCHANGED size /\ Goes
Finish == Doing("rename") /\ Current.gen = 0 /\ files' = Renamed /\ size' = 0 /\ Returns

\* A rename fails: log returns the error, the file stays closed.
CannotRename == Doing("rename") /\ UNCHANGED <<files, size>> /\ Returns

\* The process is killed; the next one's prepare opens the file.
Reopened ==
  /\ files' = With(files, 0, IF OnDisk = <<>> THEN <<Header>> ELSE OnDisk)
  /\ size' = IF OnDisk = <<>> THEN 1 ELSE Len(OnDisk)
  /\ file' = TRUE
  /\ holder' = Nobody /\ todo' = <<>>
  /\ UNCHANGED log

\* The lines on disk, without the headers.
LinesOf(g) == {files[g][i] : i \in DOMAIN files[g]} \ {Header}
Lines == UNION {LinesOf(g) : g \in DOMAIN files}
================================================================================
