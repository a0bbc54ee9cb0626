----------------------------- MODULE KeyLedger -----------------------------
(***************************************************************************)
(* What idempotency keys promise, without the table, the locks, the        *)
(* limiter and the client's connection: a key is taken by one call at a    *)
(* time; only its owner may send a request; the key is spent by the fresh  *)
(* result of a request that took effect, which from then on is what every  *)
(* other call for the same thing is told; and a key whose owner died is    *)
(* taken for good.                                                         *)
(***************************************************************************)
CONSTANTS
  Calls, Keys,
  KeyOf,      \* KeyOf[c]: the key of call c
  WantOf,     \* WantOf[c]: what it asks for
  NoCall      \* whose result a key has that was spent before this run

VARIABLES
  request,    \* request[c]: "unsent", "sent", or "acted" on
  told,       \* told[c]: what the client is told, "none" until it is
  owners,     \* the calls that own their keys
  ledger,     \* ledger[k]: "free", "taken" or "spent"
  result      \* result[k]: the call that spent the key

vars == <<request, told, owners, ledger, result>>

Untold == {c \in Calls : told[c] = "none"}

Init == /\ request = [c \in Calls |-> "unsent"]
        /\ told = [c \in Calls |-> "none"]
        /\ owners = {}
        /\ ledger \in [Keys -> {"free", "taken", "spent"}]
        /\ result = [k \in Keys |-> NoCall]

Take(c) == /\ c \in Untold /\ ledger[KeyOf[c]] = "free"
           /\ ledger' = [ledger EXCEPT ![KeyOf[c]] = "taken"]
           /\ owners' = owners \cup {c}
           /\ UNCHANGED <<request, told, result>>

Send(c) == /\ c \in owners /\ request[c] = "unsent"
           /\ request' = [request EXCEPT ![c] = "sent"]
           /\ UNCHANGED <<told, owners, ledger, result>>

\* Whether or not its owner is still there.
Effect(c) == /\ request[c] = "sent"
             /\ request' = [request EXCEPT ![c] = "acted"]
             /\ UNCHANGED <<told, owners, ledger, result>>

Spend(c) == /\ c \in owners /\ request[c] = "acted"
            /\ ledger' = [ledger EXCEPT ![KeyOf[c]] = "spent"]
            /\ result' = [result EXCEPT ![KeyOf[c]] = c]
            /\ told' = [told EXCEPT ![c] = "fresh"]
            /\ owners' = owners \ {c}
            /\ UNCHANGED request

\* The owner fails or hangs up; its key is free again, unless it cannot be
\* given back and stays taken.
GiveUp(c) == /\ c \in owners
             /\ told' = [told EXCEPT ![c] = "failed"]
             /\ owners' = owners \ {c}
             /\ \E s \in {"free", "taken"} : ledger' = [ledger EXCEPT ![KeyOf[c]] = s]
             /\ UNCHANGED <<request, result>>

\* A call that never owned the key is told the result of one that asked for
\* the same thing, ...
Replay(c) == LET k == KeyOf[c] IN
  /\ c \in Untold \ owners /\ ledger[k] = "spent"
  /\ result[k] = NoCall \/ WantOf[result[k]] = WantOf[c]
  /\ told' = [told EXCEPT ![c] = "replay"]
  /\ UNCHANGED <<request, owners, ledger, result>>

\* ... or that the key is not to be had, ...
Refuse(c) == /\ c \in Untold \ owners /\ ledger[KeyOf[c]] # "free"
             /\ told' = [told EXCEPT ![c] = "refused"]
             /\ UNCHANGED <<request, owners, ledger, result>>

\* ... or that the store failed.
Fail(c) == /\ c \in Untold \ owners
           /\ told' = [told EXCEPT ![c] = "failed"]
           /\ UNCHANGED <<request, owners, ledger, result>>

\* The process dies with the calls in it; their keys stay taken.
Die(S) == /\ owners \subseteq S /\ S \subseteq Untold
          /\ told' = [c \in Calls |-> IF c \in S THEN "lost" ELSE told[c]]
          /\ owners' = {}
          /\ UNCHANGED <<request, ledger, result>>

Next == \/ \E c \in Calls : \/ Take(c) \/ Send(c) \/ Effect(c) \/ Spend(c)
                            \/ GiveUp(c) \/ Replay(c) \/ Refuse(c) \/ Fail(c)
        \/ \E S \in SUBSET Calls : Die(S)

Spec == Init /\ [][Next]_vars
=============================================================================
