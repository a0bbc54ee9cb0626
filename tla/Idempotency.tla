---------------------------- MODULE Idempotency ----------------------------
(***************************************************************************)
(* Idempotent calls: dispatch_idempotent (actions/mod.rs), the claim       *)
(* (actions/proxy.rs) and the `sends` table (store.rs).  Several calls,    *)
(* some of them retries of one another, carry idempotency keys; each looks *)
(* its key up, claims it, waits for the rate limiter, acts upstream and    *)
(* records the result.  A request that is on the wire may take effect      *)
(* upstream whether or not anyone still waits for the reply.               *)
(***************************************************************************)
EXTENDS Naturals

CONSTANTS
  Calls,      \* calls to idempotent tools
  Keys,       \* idempotency keys
  KeyOf,      \* KeyOf[c] \in Keys, trimmed and non-empty
  WantOf,     \* WantOf[c]: the tool and the digest of its arguments
  Wants,      \* the values of WantOf
  Legacy,     \* the want of a row from before the table had a tool column
  NoCall,     \* the result of a row this run did not complete
  MaxFaults   \* bound: store operations that fail

ASSUME IdempotencyAssumption == /\ KeyOf \in [Calls -> Keys]
                                /\ WantOf \in [Calls -> Wants]
                                /\ Legacy \notin Wants
                                /\ NoCall \notin Calls
                                /\ MaxFaults \in Nat

VARIABLES
  pc,        \* where the task of each call is
  answer,    \* what the call's client is told, "none" until it is
  wire,      \* the call's request: "unsent", "sent", or "acted" on upstream
  state,     \* state[k]: "free" (no row), "claimed" or "done"
  want,      \* want[k]: what the row was claimed for
  result,    \* result[k]: the call whose result the row replays
  faults     \* store failures so far

vars == <<pc, answer, wire, state, want, result, faults>>
rowVars == <<state, want, result>>

\* The call owns its key's claim (an IdempotencyClaim is alive).
Claiming == {"limiting", "acting", "replied", "releasing"}
PCs      == Claiming \cup {"idle", "looked", "done"}
Answers  == {"none", "fresh", "replay", "refused", "error", "gone", "lost"}

Holds(c)    == pc[c] \in Claiming
Rivals(c)   == {d \in Calls \ {c} : KeyOf[d] = KeyOf[c]}
GoTo(c, p)  == pc' = [pc EXCEPT ![c] = p]
Tell(c, a)  == answer' = [answer EXCEPT ![c] = a]
Fault       == faults < MaxFaults /\ faults' = faults + 1

\* An old database may hold rows from before this run, with no tool in them.
Init == /\ pc = [c \in Calls |-> "idle"]
        /\ answer = [c \in Calls |-> "none"]
        /\ wire = [c \in Calls |-> "unsent"]
        /\ state \in [Keys -> {"free", "claimed", "done"}]
        /\ want = [k \in Keys |-> Legacy]
        /\ result = [k \in Keys |-> NoCall]
        /\ faults = 0
-----------------------------------------------------------------------------
(* begin_idempotent: look the key up, then claim it, under two locks.      *)

\* Mutant: the tool and the arguments are not compared.
FindRowBlind(c) == LET k == KeyOf[c] IN
  /\ pc[c] = "idle" /\ state[k] # "free"
  /\ GoTo(c, "done")
  /\ Tell(c, IF state[k] = "done" THEN "replay" ELSE "refused")
  /\ UNCHANGED <<wire, rowVars, faults>>

\* find_call found a row: replay it when it is complete and was for the same
\* thing, refuse otherwise.
FindRow(c) == LET k == KeyOf[c] IN
  /\ pc[c] = "idle" /\ state[k] # "free"
  /\ GoTo(c, "done")
  /\ Tell(c, IF want[k] \in {Legacy, WantOf[c]} /\ state[k] = "done"
             THEN "replay" ELSE "refused")
  /\ UNCHANGED <<wire, rowVars, faults>>

FindNothing(c) == /\ pc[c] = "idle" /\ state[KeyOf[c]] = "free"
                  /\ GoTo(c, "looked")
                  /\ UNCHANGED <<answer, wire, rowVars, faults>>

FindFails(c) == /\ pc[c] = "idle" /\ Fault
                /\ GoTo(c, "done") /\ Tell(c, "error")
                /\ UNCHANGED <<wire, rowVars>>

\* Mutant: INSERT OR REPLACE.
ClaimOver(c) == LET k == KeyOf[c] IN
  /\ pc[c] = "looked"
  /\ state' = [state EXCEPT ![k] = "claimed"]
  /\ want' = [want EXCEPT ![k] = WantOf[c]]
  /\ GoTo(c, "limiting")
  /\ UNCHANGED <<answer, wire, result, faults>>

\* INSERT OR IGNORE: one of the calls that saw no row gets it.
Claim(c) == LET k == KeyOf[c] IN
  /\ pc[c] = "looked" /\ state[k] = "free"
  /\ state' = [state EXCEPT ![k] = "claimed"]
  /\ want' = [want EXCEPT ![k] = WantOf[c]]
  /\ GoTo(c, "limiting")
  /\ UNCHANGED <<answer, wire, result, faults>>

LoseRace(c) == /\ pc[c] = "looked" /\ state[KeyOf[c]] # "free"
               /\ GoTo(c, "done") /\ Tell(c, "refused")
               /\ UNCHANGED <<wire, rowVars, faults>>

ClaimFails(c) == /\ pc[c] = "looked" /\ Fault
                 /\ GoTo(c, "done") /\ Tell(c, "error")
                 /\ UNCHANGED <<wire, rowVars>>
-----------------------------------------------------------------------------
(* dispatch_idempotent after the claim: limiter, action, record.           *)

\* The limiter lets the call through and its request goes out.
Send(c) == /\ pc[c] = "limiting"
           /\ GoTo(c, "acting")
           /\ wire' = [wire EXCEPT ![c] = "sent"]
           /\ UNCHANGED <<answer, rowVars, faults>>

\* The limiter's cap is spent, or the action could not even be started.
Stopped(c) == /\ pc[c] = "limiting"
              /\ GoTo(c, "releasing") /\ Tell(c, "error")
              /\ UNCHANGED <<wire, rowVars, faults>>

\* Upstream: a request on the wire takes effect, listened to or not.
Takes(c) == /\ wire[c] = "sent"
            /\ wire' = [wire EXCEPT ![c] = "acted"]
            /\ UNCHANGED <<pc, answer, rowVars, faults>>

Reply(c) == /\ pc[c] = "acting" /\ wire[c] = "acted"
            /\ GoTo(c, "replied")
            /\ UNCHANGED <<answer, wire, rowVars, faults>>

\* An error status, a timeout or a broken connection; the action may or may
\* not have taken effect.
NoReply(c) == /\ pc[c] = "acting"
              /\ GoTo(c, "releasing") /\ Tell(c, "error")
              /\ UNCHANGED <<wire, rowVars, faults>>

\* The client goes away and the call's future is dropped where it waits: in
\* the limiter, or for the upstream.
HangUp(c) == /\ pc[c] \in {"limiting", "acting"}
             /\ GoTo(c, "releasing") /\ Tell(c, "gone")
             /\ UNCHANGED <<wire, rowVars, faults>>

Complete(c) == LET k == KeyOf[c] IN
  /\ pc[c] = "replied"
  /\ state' = [state EXCEPT ![k] = "done"]
  /\ result' = [result EXCEPT ![k] = c]
  /\ GoTo(c, "done") /\ Tell(c, "fresh")
  /\ UNCHANGED <<wire, want, faults>>

CompleteFails(c) == /\ pc[c] = "replied" /\ Fault
                    /\ GoTo(c, "releasing") /\ Tell(c, "error")
                    /\ UNCHANGED <<wire, rowVars>>

\* Dropping the claim deletes the row unless it is complete; a failure is
\* logged and the row stays.
Release(c) == LET k == KeyOf[c] IN
  /\ pc[c] = "releasing"
  /\ GoTo(c, "done")
  /\ \/ /\ state' = [state EXCEPT ![k] = IF @ = "done" THEN "done" ELSE "free"]
        /\ UNCHANGED faults
     \/ Fault /\ UNCHANGED state
  /\ UNCHANGED <<answer, wire, want, result>>

\* Mutant: starting up clears the claims the last process left.
CrashFrees == LET live == {c \in Calls : pc[c] \notin {"idle", "done"}} IN
  /\ live # {}
  /\ pc' = [c \in Calls |-> IF c \in live THEN "done" ELSE pc[c]]
  /\ answer' = [c \in Calls |-> IF c \in live THEN "lost" ELSE answer[c]]
  /\ state' = [k \in Keys |-> IF state[k] = "done" THEN "done" ELSE "free"]
  /\ UNCHANGED <<wire, want, result, faults>>

\* The process dies and is started again: no claim is dropped, the rows stay.
Crash == LET live == {c \in Calls : pc[c] \notin {"idle", "done"}} IN
  /\ live # {}
  /\ pc' = [c \in Calls |-> IF c \in live THEN "done" ELSE pc[c]]
  /\ answer' = [c \in Calls |-> IF c \in live THEN "lost" ELSE answer[c]]
  /\ UNCHANGED <<wire, rowVars, faults>>
-----------------------------------------------------------------------------
Begin(c)    == \/ FindRow(c) \/ FindNothing(c) \/ FindFails(c)
               \/ Claim(c) \/ LoseRace(c) \/ ClaimFails(c)
Dispatch(c) == \/ Send(c) \/ Stopped(c) \/ Reply(c) \/ NoReply(c) \/ HangUp(c)
               \/ Complete(c) \/ CompleteFails(c) \/ Release(c)

Next == \/ \E c \in Calls : Begin(c) \/ Dispatch(c) \/ Takes(c)
        \/ Crash

Spec == Init /\ [][Next]_vars
-----------------------------------------------------------------------------
(* Properties.                                                             *)

TypeOK == /\ pc \in [Calls -> PCs]
          /\ answer \in [Calls -> Answers]
          /\ wire \in [Calls -> {"unsent", "sent", "acted"}]
          /\ state \in [Keys -> {"free", "claimed", "done"}]
          /\ want \in [Keys -> Wants \cup {Legacy}]
          /\ result \in [Keys -> Calls \cup {NoCall}]
          /\ faults \in 0..MaxFaults

\* One call at a time owns a key, and its row stands, for what that call asks,
\* as long as it does: no rival's release or lost race takes it away.
OneHolderPerKey ==
  \A c \in Calls : Holds(c) =>
     /\ state[KeyOf[c]] = "claimed" /\ want[KeyOf[c]] = WantOf[c]
     /\ \A d \in Rivals(c) : ~Holds(d)

\* "The action already completed under this key; return this instead of acting
\* again": a replayed call never went upstream itself, and what it is given is
\* the result of a call for the same thing that did, unless the row is older
\* than the tool column.
ReplayIsOfTheSameCall ==
  \A c \in Calls : answer[c] = "replay" =>
     LET r == result[KeyOf[c]] IN
       /\ wire[c] = "unsent"
       /\ \/ r \in Rivals(c) /\ WantOf[r] = WantOf[c] /\ wire[r] = "acted" /\ answer[r] = "fresh"
          \/ r = NoCall /\ want[KeyOf[c]] = Legacy

\* A key yields one fresh result, ever.
OneFreshResult ==
  \A c \in Calls : answer[c] = "fresh" =>
     /\ result[KeyOf[c]] = c
     /\ \A d \in Rivals(c) : answer[d] # "fresh"

\* Why they hold: a row's result is the fresh answer of a call that acted for
\* what the row says; a call that is not past the limiter has sent nothing.
RecordInv == \A k \in Keys :
  /\ result[k] # NoCall =>
       /\ state[k] = "done" /\ KeyOf[result[k]] = k /\ WantOf[result[k]] = want[k]
       /\ wire[result[k]] = "acted" /\ answer[result[k]] = "fresh"
  /\ state[k] = "done" /\ result[k] = NoCall => want[k] = Legacy
TaskInv == \A c \in Calls :
  /\ pc[c] \in {"idle", "looked", "limiting"} => wire[c] = "unsent"
  /\ pc[c] \in PCs \ {"releasing", "done"} => answer[c] = "none"
  /\ pc[c] = "replied" => wire[c] = "acted"
  /\ pc[c] = "releasing" => answer[c] \in {"error", "gone"}
  /\ answer[c] = "fresh" => result[KeyOf[c]] = c
  /\ answer[c] = "replay" => /\ state[KeyOf[c]] = "done" /\ wire[c] = "unsent"
                             /\ want[KeyOf[c]] \in {Legacy, WantOf[c]}

\* A call that died after sending leaves a claim that no one holds, for good.
LostInv == \A c \in Calls :
  /\ answer[c] = "lost" /\ wire[c] # "unsent" =>
       /\ state[KeyOf[c]] = "claimed"
       /\ \A d \in Calls : KeyOf[d] = KeyOf[c] => ~Holds(d)
  /\ pc[c] = "done" /\ wire[c] # "unsent" => answer[c] \in {"fresh", "error", "gone", "lost"}

IInv == TypeOK /\ OneHolderPerKey /\ RecordInv /\ TaskInv /\ LostInv

\* A key whose call died with the process after its request went out is never
\* sent under again, whoever retries, looked it up before or gives up beside it:
\* nobody can tell whether that action took effect (actions/proxy.rs, the claim).
DeadKeyStaysTaken ==
  [][ \A c \in Calls : wire[c] = "unsent" /\ wire'[c] = "sent" =>
        \A d \in Rivals(c) : answer[d] = "lost" => wire[d] = "unsent" ]_vars

\* One key, one action: of the calls for the same thing under a key, one takes
\* effect at most (README.md:384, gatehound.example.toml:182).  The code gives
\* a key back whenever the call fails, also when only its reply was lost, so
\* this does not hold.
ActsOncePerKey ==
  \A c \in Calls : wire[c] = "acted" =>
     \A d \in Rivals(c) : WantOf[d] = WantOf[c] => wire[d] # "acted"

\* What KeyLedger sees of a call and of its key: a client whose call gave up is
\* told so when the key has been given back, and the reasons are one.
ToldBy(c) == CASE pc[c] = "releasing" -> "none"
               [] pc[c] # "releasing" /\ answer[c] \in {"error", "gone"} -> "failed"
               [] OTHER -> answer[c]
Entry(k)  == CASE state[k] = "claimed" -> "taken"
               [] state[k] = "done" -> "spent"
               [] OTHER -> "free"

Ledger == INSTANCE KeyLedger WITH request <- wire,
                                  told <- [c \in Calls |-> ToldBy(c)],
                                  owners <- {c \in Calls : Holds(c)},
                                  ledger <- [k \in Keys |-> Entry(k)]

\* dispatch_idempotent over the table does what KeyLedger promises.
ImplementsKeyLedger == Ledger!Spec

\* A completed row is never reopened or given another result, and a claim left
\* behind by a dead process is never taken over.
RowsSettle ==
  [][ \A k \in Keys :
        \/ state[k] = "free"
        \/ \E c \in Calls : KeyOf[c] = k /\ Holds(c)
        \/ state'[k] = state[k] /\ result'[k] = result[k] ]_vars
=============================================================================
