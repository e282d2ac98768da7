------------------------------ MODULE SharedAnswer ------------------------------
(***************************************************************************)
(* What request coalescing promises: concurrent requests for one key form  *)
(* a group, a group computes one answer, and every member that is replied  *)
(* to is replied with that answer.  A group is named by its first member.  *)
(***************************************************************************)
CONSTANTS
  Clients, KeyOf,
  None,      \* no group
  Answers,
  NoAnswer   \* not computed yet, or not told

VARIABLES
  group,   \* the group of each client, None before it arrives
  open,    \* the groups that still take members
  result,  \* the answer of each group, NoAnswer while it is computed
  reply    \* what each client was told, NoAnswer before

sharedVars == <<group, open, result, reply>>

Init ==
  /\ group = [c \in Clients |-> None]
  /\ open = {}
  /\ result = [c \in Clients |-> NoAnswer]
  /\ reply = [c \in Clients |-> NoAnswer]

\* A client founds a group: nobody computes the answer for its key.
Found(c) ==
  /\ group[c] = None
  /\ \A f \in open : KeyOf[f] # KeyOf[c]
  /\ group' = [group EXCEPT ![c] = c]
  /\ open' = open \cup {c}
  /\ UNCHANGED <<result, reply>>

\* A client joins the open group of its key.
Join(c, f) ==
  /\ group[c] = None
  /\ f \in open /\ KeyOf[f] = KeyOf[c]
  /\ group' = [group EXCEPT ![c] = f]
  /\ UNCHANGED <<open, result, reply>>

\* A group has its answer, once and for all.
Compute(f, answer) ==
  /\ f \in open
  /\ result[f] = NoAnswer
  /\ result' = [result EXCEPT ![f] = answer]
  /\ UNCHANGED <<group, open, reply>>

\* A group with an answer takes no more members.  Its founder may be replied
\* to by the same step.
Close(f) ==
  /\ f \in open
  /\ result[f] # NoAnswer
  /\ open' = open \ {f}
  /\ reply' \in {reply, [reply EXCEPT ![f] = result[f]]}
  /\ UNCHANGED <<group, result>>

\* A member is told the answer of its group.
Reply(c) ==
  /\ group[c] # None
  /\ reply[c] = NoAnswer
  /\ result[group[c]] # NoAnswer
  /\ reply' = [reply EXCEPT ![c] = result[group[c]]]
  /\ UNCHANGED <<group, open, result>>

Next ==
  \E c \in Clients :
    \/ Found(c)
    \/ \E f \in Clients : Join(c, f)
    \/ \E answer \in Answers : Compute(c, answer)
    \/ Close(c)
    \/ Reply(c)

Spec == Init /\ [][Next]_sharedVars
================================================================================
