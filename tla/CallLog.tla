------------------------------ MODULE CallLog ------------------------------
(***************************************************************************)
(* What the log promises of every call, without the policy, the hold, the  *)
(* session and the wire that lie behind it: a call acts at most once, and  *)
(* only while it may; it has at most one row, which never changes; the row *)
(* says "ok" of a call that has acted, and "refused" or "replayed" only of *)
(* one that never will.  "failed" promises nothing: the call may have      *)
(* acted, and while its request is under way it still may.                 *)
(***************************************************************************)
EXTENDS Naturals

CONSTANT Calls

VARIABLES
  leave,   \* leave[c]: "open" until it is decided, "armed" while c may act, "spent"
  acts,    \* how often it took effect
  row      \* row[c]: "none", "refused", "failed", "replayed" or "ok"

vars == <<leave, acts, row>>

Init == /\ leave = [c \in Calls |-> "open"]
        /\ acts = [c \in Calls |-> 0]
        /\ row = [c \in Calls |-> "none"]

Arm(c) == /\ leave[c] = "open"
          /\ leave' = [leave EXCEPT ![c] = "armed"]
          /\ UNCHANGED <<acts, row>>

\* Whether or not anybody still waits for it.
Act(c) == /\ leave[c] = "armed"
          /\ leave' = [leave EXCEPT ![c] = "spent"]
          /\ acts' = [acts EXCEPT ![c] = @ + 1]
          /\ UNCHANGED row

\* It is turned away, or repeats a call that acted before.
Close(c, before, r) == /\ leave[c] = before /\ row[c] = "none"
                       /\ leave' = [leave EXCEPT ![c] = "spent"]
                       /\ row' = [row EXCEPT ![c] = r]
                       /\ UNCHANGED acts

\* Something went wrong before it acted, or seemed to.
Fail(c) == /\ leave[c] = "armed" /\ row[c] = "none"
           /\ \E l \in {"armed", "spent"} : leave' = [leave EXCEPT ![c] = l]
           /\ row' = [row EXCEPT ![c] = "failed"]
           /\ UNCHANGED acts

\* It has acted, and is told so, or not.
Tell(c) == /\ acts[c] = 1 /\ row[c] = "none"
           /\ \E r \in {"ok", "failed"} : row' = [row EXCEPT ![c] = r]
           /\ UNCHANGED <<leave, acts>>

\* Clients leave, and requests nobody waits for are lost, several at a time.
Drop(S) == /\ leave' = [c \in Calls |-> IF c \in S THEN "spent" ELSE leave[c]]
           /\ UNCHANGED <<acts, row>>

Next == \/ \E c \in Calls : \/ Arm(c) \/ Act(c) \/ Fail(c) \/ Tell(c)
                            \/ Close(c, "open", "refused") \/ Close(c, "armed", "replayed")
        \/ \E S \in SUBSET Calls : Drop(S)

Spec == Init /\ [][Next]_vars
=============================================================================
