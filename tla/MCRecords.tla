------------------------------- MODULE MCRecords -------------------------------
(***************************************************************************)
(* Small instances of Records for TLC: a log that is rotated with every    *)
(* line or every other, in a directory or not, beside the dashboard.       *)
(***************************************************************************)
EXTENDS Records, TLC

CONSTANTS r1, r2

Log(directory, max, keep) == [directory |-> directory, max_bytes |-> max, keep |-> keep]
RotatesEach == Log(TRUE, 1, 2)
RotatesPairs == Log(TRUE, 2, 0)
BarePath == Log(FALSE, 1, 2)
Unrotated == Log(TRUE, 0, 1)
MCLogs == {RotatesEach, RotatesPairs, BarePath, Unrotated}
MCSinksOf ==
  [l \in MCLogs |->
     CASE l = RotatesPairs -> {{"log", "dashboard"}}
       [] l = Unrotated -> {{"dashboard"}, {}}
       [] OTHER -> {{"log"}}]

MCOutcome ==
  [n \in 1..4 |->
     IF n % 2 = 1
     THEN [status |-> 200, cache_hit |-> TRUE, completion_tokens |-> 2]
     ELSE [status |-> 503, cache_hit |-> FALSE, completion_tokens |-> 0]]

MCSymmetry == Permutations(Requests)
================================================================================
