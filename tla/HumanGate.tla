----------------------------- MODULE HumanGate -----------------------------
(***************************************************************************)
(* What holding a call for a human promises, without the queue, the table  *)
(* and the channels that do it: a call is let through only on an allowing  *)
(* answer given to that very call while it was still being asked, one      *)
(* answer per call, and only an "always" answer to a client's call turns   *)
(* into a standing rule.                                                   *)
(***************************************************************************)
CONSTANTS
  Calls,      \* the calls that may be held
  Keys,       \* the (identity, tool) pairs a rule can be about
  KeyOf,      \* KeyOf[c]: the pair call c asks for
  ByHand      \* the calls the operator fired from the Debug tab

VARIABLES
  verdict,    \* verdict[c]: "unasked", "asked", "allowed" or "refused"
  said,       \* said[c]: the operator's answer to c, "none" until there is one
  rules       \* rules[k]: "none", "allow" or "deny"

vars == <<verdict, said, rules>>

Answers == {"allow_once", "allow_always", "reject", "reject_always"}
Allows  == {"allow_once", "allow_always"}
Lasting == [allow_always |-> "allow", reject_always |-> "deny"]

Init == /\ verdict = [c \in Calls |-> "unasked"]
        /\ said = [c \in Calls |-> "none"]
        /\ rules = [k \in Keys |-> "none"]

Ask(c) == /\ verdict[c] = "unasked"
          /\ verdict' = [verdict EXCEPT ![c] = "asked"]
          /\ UNCHANGED <<said, rules>>

Say(c, r) == /\ verdict[c] = "asked"
             /\ said[c] = "none"
             /\ said' = [said EXCEPT ![c] = r]
             /\ UNCHANGED <<verdict, rules>>

Remember(c) == /\ verdict[c] = "asked"
               /\ c \notin ByHand
               /\ said[c] \in DOMAIN Lasting
               /\ rules' = [rules EXCEPT ![KeyOf[c]] = Lasting[said[c]]]
               /\ UNCHANGED <<verdict, said>>

LetThrough(c) == /\ verdict[c] = "asked"
                 /\ said[c] \in Allows
                 /\ verdict' = [verdict EXCEPT ![c] = "allowed"]
                 /\ UNCHANGED <<said, rules>>

\* Any number of calls may be refused, or given up on, in one step: a crash
\* takes all of them.
Refuse(S) == /\ \A c \in S : verdict[c] \in {"unasked", "asked"}
             /\ verdict' = [c \in Calls |-> IF c \in S THEN "refused" ELSE verdict[c]]
             /\ UNCHANGED <<said, rules>>

Next == \/ \E c \in Calls : \/ Ask(c)
                            \/ Remember(c)
                            \/ LetThrough(c)
                            \/ \E r \in Answers : Say(c, r)
        \/ \E S \in SUBSET Calls : Refuse(S)

Spec == Init /\ [][Next]_vars
=============================================================================
