------------------------------ MODULE Approval ------------------------------
(***************************************************************************)
(* The approval queue (approval.rs): calls parked on a oneshot channel     *)
(* while a card waits for the operator.  Each held call has a row in the   *)
(* `pending` table (what the GUI lists), a sender in the `waiters` map and *)
(* a receiver in its own task; the three are changed one at a time, so     *)
(* every gap between two of them is a step of its own here.                *)
(***************************************************************************)
EXTENDS Naturals, FiniteSets

CONSTANTS
  Calls,      \* calls that reach hold_from; a call id is a fresh uuid
  Keys,       \* (identity, tool) pairs
  KeyOf,      \* KeyOf[c] \in Keys
  ByHand,     \* the calls with an `origin`: fired from the Debug tab
  MaxFaults   \* bound: store operations that fail

ASSUME CallAssumption == /\ KeyOf \in [Calls -> Keys]
                         /\ ByHand \subseteq Calls
                         /\ MaxFaults \in Nat

VARIABLES
  phase,      \* where the task of each call is
  outcome,    \* what hold_from returned, "none" until it is known
  chan,       \* the oneshot: "empty", "dropped" (sender gone) or an answer
  delivered,  \* history: the answer resolve reported as delivered
  waiters,    \* ids with a sender in the map
  pending,    \* ids with a row in the table
  listed,     \* ids on the operator's screen, as of its last refresh
  pressing,   \* ids of undeliverable presses that have yet to clear the row
  cancel,     \* "idle", or "rows" between the two steps of cancel_all
  rules,      \* the identities table
  trail,      \* history: the <<call, decision>> rows of the admin log
  refused,    \* history: the <<call, "row" or "trail">> writes the store refused
  alive,      \* is the gateway process up
  faults      \* store failures so far

vars == <<phase, outcome, chan, delivered, waiters, pending, listed, pressing,
          cancel, rules, trail, refused, alive, faults>>

taskVars  == <<phase, outcome>>
queueVars == <<chan, delivered, waiters>>
guiVars   == <<listed, pressing>>
ruleVars  == <<rules, trail, refused>>
restVars  == <<cancel, alive>>

Resolutions == {"allow_once", "allow_always", "reject", "reject_always"}
Allows      == {"allow_once", "allow_always"}
Persisted   == [allow_always |-> "allow", reject_always |-> "deny"]

Phases   == {"idle", "recorded", "waiting", "expired", "writing", "tracing",
             "leaving", "clearing", "done"}
Outcomes == {"none", "allowed", "denied", "timeout", "shutdown", "cancelled", "lost"}

\* The receiver exists from the start of the hold until its wait is over.
Receiving == {"recorded", "waiting", "expired"}

Remembered(c) == c \notin ByHand /\ chan[c] \in DOMAIN Persisted
\* Mutant: a lasting refusal lets this one call through.
OutcomeOfSlip(r) == IF r # "reject" THEN "allowed" ELSE "denied"

OutcomeOf(r)  == IF r \in Allows THEN "allowed" ELSE "denied"

GoTo(c, p)     == phase' = [phase EXCEPT ![c] = p]
GoWith(c, p, o) == /\ phase' = [phase EXCEPT ![c] = p]
                   /\ outcome' = [outcome EXCEPT ![c] = o]
Fault == faults < MaxFaults /\ faults' = faults + 1

Init == /\ phase = [c \in Calls |-> "idle"]
        /\ outcome = [c \in Calls |-> "none"]
        /\ chan = [c \in Calls |-> "empty"]
        /\ delivered = [c \in Calls |-> "none"]
        /\ waiters = {} /\ pending = {} /\ listed = {} /\ pressing = {}
        /\ cancel = "idle"
        /\ rules = [k \in Keys |-> "none"]
        /\ trail = {} /\ refused = {}
        /\ alive = TRUE
        /\ faults = 0
-----------------------------------------------------------------------------
(* The held call's own task: hold_from.                                    *)

\* No time left to ask in: no card at all.
NoTime(c) == /\ alive /\ phase[c] = "idle"
             /\ GoWith(c, "done", "timeout")
             /\ UNCHANGED <<queueVars, guiVars, ruleVars, restVars, pending, faults>>

AddPending(c) == /\ alive /\ phase[c] = "idle"
                 /\ \/ /\ GoTo(c, "recorded")
                       /\ pending' = pending \cup {c}
                       /\ UNCHANGED <<outcome, faults>>
                    \/ /\ Fault
                       /\ GoWith(c, "done", "denied")
                       /\ UNCHANGED pending
                 /\ UNCHANGED <<queueVars, guiVars, ruleVars, restVars>>

\* waiters.insert, after the row and under another lock.
Register(c) == /\ phase[c] = "recorded"
               /\ GoTo(c, "waiting")
               /\ waiters' = waiters \cup {c}
               /\ UNCHANGED <<outcome, chan, delivered, guiVars, ruleVars,
                              restVars, pending, faults>>

\* The timeout polls the channel before the clock, so an answer, or a dropped
\* sender, that is there when the task runs always wins.
TakeAnswer(c) == /\ phase[c] = "waiting" /\ chan[c] \in Resolutions
                 /\ IF Remembered(c) THEN GoTo(c, "writing") /\ UNCHANGED outcome
                                     ELSE GoWith(c, "leaving", OutcomeOf(chan[c]))
                 /\ UNCHANGED <<queueVars, guiVars, ruleVars, restVars, pending, faults>>

TakeCancel(c) == /\ phase[c] = "waiting" /\ chan[c] = "dropped"
                 /\ GoWith(c, "leaving", "shutdown")
                 /\ UNCHANGED <<queueVars, guiVars, ruleVars, restVars, pending, faults>>

\* Mutant: the clock stands still while the card is on screen.
ExpireUnseen(c) == /\ phase[c] = "waiting" /\ chan[c] = "empty" /\ c \notin listed
                   /\ GoWith(c, "expired", "timeout")
                   /\ UNCHANGED <<queueVars, guiVars, ruleVars, restVars, pending, faults>>

\* Mutant: nobody answering counts as a yes.
ExpireAllows(c) == /\ phase[c] = "waiting" /\ chan[c] = "empty"
                   /\ GoWith(c, "expired", "allowed")
                   /\ UNCHANGED <<queueVars, guiVars, ruleVars, restVars, pending, faults>>

\* The channel was found empty and the clock is up.  The receiver is dropped
\* a moment later (CloseReceiver): until then an answer can still be sent.
Expire(c) == /\ phase[c] = "waiting" /\ chan[c] = "empty"
             /\ GoWith(c, "expired", "timeout")
             /\ UNCHANGED <<queueVars, guiVars, ruleVars, restVars, pending, faults>>

CloseReceiver(c) == /\ phase[c] = "expired"
                    /\ GoTo(c, "leaving")
                    /\ UNCHANGED <<outcome, queueVars, guiVars, ruleVars,
                                   restVars, pending, faults>>

\* Mutant: the clean-up runs only after the wait returns (CHE-383).
HangUpUnguarded(c) == /\ phase[c] = "waiting"
                      /\ GoWith(c, "done", "cancelled")
                      /\ UNCHANGED <<queueVars, guiVars, ruleVars, restVars, pending, faults>>

\* The client hangs up and the future is dropped at its only await.
HangUp(c) == /\ phase[c] = "waiting"
             /\ GoWith(c, "leaving", "cancelled")
             /\ UNCHANGED <<queueVars, guiVars, ruleVars, restVars, pending, faults>>

\* store.set_decision; a failure is logged and the answer stands.
WriteRule(c) == /\ phase[c] = "writing"
                /\ GoTo(c, "tracing")
                /\ \/ /\ rules' = [rules EXCEPT ![KeyOf[c]] = Persisted[chan[c]]]
                      /\ UNCHANGED faults
                   \/ Fault /\ UNCHANGED rules
                /\ UNCHANGED <<outcome, queueVars, guiVars, trail, refused, restVars, pending>>

\* Mutant: a trace that cannot be written ends the hold there and then.
TraceRuleUnguarded(c) ==
  /\ phase[c] = "tracing"
  /\ \/ /\ GoWith(c, "leaving", OutcomeOf(chan[c]))
        /\ trail' = trail \cup {<<c, Persisted[chan[c]]>>} /\ UNCHANGED <<refused, faults>>
     \/ /\ GoWith(c, "done", OutcomeOf(chan[c]))
        /\ Fault /\ refused' = refused \cup {<<c, "trail">>} /\ UNCHANGED trail
  /\ UNCHANGED <<queueVars, guiVars, rules, restVars, pending>>

\* store.log_admin, whether or not the rule was written.
TraceRule(c) == /\ phase[c] = "tracing"
                /\ GoWith(c, "leaving", OutcomeOf(chan[c]))
                /\ \/ /\ trail' = trail \cup {<<c, Persisted[chan[c]]>>}
                      /\ UNCHANGED <<refused, faults>>
                   \/ Fault /\ refused' = refused \cup {<<c, "trail">>} /\ UNCHANGED trail
                /\ UNCHANGED <<queueVars, guiVars, rules, restVars, pending>>

\* Held::drop, in the order it runs: the waiter, then the row.
DropWaiter(c) == /\ phase[c] = "leaving"
                 /\ GoTo(c, "clearing")
                 /\ waiters' = waiters \ {c}
                 /\ UNCHANGED <<outcome, chan, delivered, guiVars, ruleVars,
                                restVars, pending, faults>>

DropRow(c) == /\ phase[c] = "clearing"
              /\ GoTo(c, "done")
              /\ \/ pending' = pending \ {c} /\ UNCHANGED <<refused, faults>>
                 \/ Fault /\ refused' = refused \cup {<<c, "row">>} /\ UNCHANGED pending
              /\ UNCHANGED <<outcome, queueVars, guiVars, rules, trail, restVars>>
-----------------------------------------------------------------------------
(* The operator's screen: list and resolve.                                *)

Refresh == /\ alive
           /\ listed' = pending
           /\ UNCHANGED <<taskVars, queueVars, pressing, ruleVars, restVars, pending, faults>>

\* waiters.remove and send are one step: the sender is owned by this press.
Press(c, r) == /\ alive /\ c \in listed /\ c \notin pressing
               /\ waiters' = waiters \ {c}
               /\ IF c \in waiters /\ phase[c] \in Receiving
                  THEN /\ chan' = [chan EXCEPT ![c] = r]
                       /\ delivered' = [delivered EXCEPT ![c] = r]
                       /\ UNCHANGED pressing
                  ELSE /\ pressing' = pressing \cup {c}
                       /\ UNCHANGED <<chan, delivered>>
               /\ UNCHANGED <<taskVars, listed, ruleVars, restVars, pending, faults>>

\* An answer nobody could take clears the card it was given on.
ClearGone(c) == /\ c \in pressing
                /\ pressing' = pressing \ {c}
                /\ \/ pending' = pending \ {c} /\ UNCHANGED faults
                   \/ Fault /\ UNCHANGED pending
                /\ UNCHANGED <<taskVars, queueVars, listed, ruleVars, restVars>>
-----------------------------------------------------------------------------
(* Shutdown, crash and restart.                                            *)

CancelWaiters == /\ alive /\ cancel = "idle"
                 /\ cancel' = "rows"
                 /\ chan' = [c \in Calls |-> IF c \in waiters THEN "dropped" ELSE chan[c]]
                 /\ waiters' = {}
                 /\ UNCHANGED <<taskVars, delivered, guiVars, ruleVars, alive, pending, faults>>

CancelRows == /\ cancel = "rows"
              /\ cancel' = "idle"
              /\ \/ pending' = {} /\ UNCHANGED faults
                 \/ Fault /\ UNCHANGED pending
              /\ UNCHANGED <<taskVars, queueVars, guiVars, ruleVars, alive>>

\* Every task dies with the process; the tables stay.
Crash == /\ alive
         /\ alive' = FALSE
         /\ phase' = [c \in Calls |-> IF phase[c] = "idle" THEN "idle" ELSE "done"]
         /\ outcome' = [c \in Calls |->
                          IF phase[c] \in {"idle", "done"} THEN outcome[c] ELSE "lost"]
         /\ waiters' = {} /\ listed' = {} /\ pressing' = {}
         /\ cancel' = "idle"
         /\ UNCHANGED <<chan, delivered, pending, ruleVars, faults>>

\* Gateway::build clears the table before anything can be held.
Restart == /\ ~alive
           /\ alive' = TRUE
           /\ pending' = {}
           /\ UNCHANGED <<taskVars, queueVars, guiVars, ruleVars, cancel, faults>>
-----------------------------------------------------------------------------
Hold(c) == \/ NoTime(c) \/ AddPending(c) \/ Register(c)
           \/ TakeAnswer(c) \/ TakeCancel(c) \/ Expire(c) \/ CloseReceiver(c)
           \/ HangUp(c) \/ WriteRule(c) \/ TraceRule(c)
           \/ DropWaiter(c) \/ DropRow(c)

Operator(c) == ClearGone(c) \/ \E r \in Resolutions : Press(c, r)

Next == \/ \E c \in Calls : Hold(c) \/ Operator(c)
        \/ Refresh
        \/ CancelWaiters \/ CancelRows
        \/ Crash \/ Restart

Spec == Init /\ [][Next]_vars

\* What the held call's task does whenever it is scheduled: it is at one of
\* these points, and leaves it.
Polled(c) == \/ Register(c) \/ TakeAnswer(c) \/ TakeCancel(c) \/ Expire(c)
             \/ CloseReceiver(c) \/ WriteRule(c) \/ TraceRule(c)
             \/ DropWaiter(c) \/ DropRow(c)

\* The runtime polls a ready task and its timer fires; straight-line code runs
\* to its end.  Nothing is owed by the operator, by a client, or by the store
\* being healthy.
Fairness == /\ \A c \in Calls : WF_vars(Polled(c)) /\ WF_vars(ClearGone(c))
            /\ WF_vars(CancelRows)

FairSpec == Spec /\ Fairness
-----------------------------------------------------------------------------
(* Properties.                                                             *)

TypeOK == /\ phase \in [Calls -> Phases]
          /\ outcome \in [Calls -> Outcomes]
          /\ chan \in [Calls -> Resolutions \cup {"empty", "dropped"}]
          /\ delivered \in [Calls -> Resolutions \cup {"none"}]
          /\ waiters \subseteq Calls /\ pending \subseteq Calls
          /\ listed \subseteq Calls /\ pressing \subseteq Calls
          /\ cancel \in {"idle", "rows"}
          /\ rules \in [Keys -> {"none", "allow", "deny"}]
          /\ trail \subseteq Calls \X {"allow", "deny"}
          /\ refused \subseteq Calls \X {"row", "trail"}
          /\ alive \in BOOLEAN
          /\ faults \in 0..MaxFaults

\* A held call goes ahead only on an allowing answer that was delivered to its
\* own card: no timeout, hang-up, shutdown, crash or store failure, in any
\* order with presses on other or stale cards, lets one through.
AllowedOnlyOnOwnCard ==
  \A c \in Calls : outcome[c] = "allowed" => delivered[c] \in Allows

\* An answer that resolve reported as delivered is not overruled by cancel_all:
\* shutting down releases only the calls nobody had answered.
AnswerSurvivesShutdown ==
  \A c \in Calls : outcome[c] = "shutdown" => delivered[c] = "none"

\* However a hold ends, its row goes with it: in a running gateway a row whose
\* call has ended is there only because the store refused to delete that row.
\* A rule, a trace or another card that could not be written is no excuse.
NoOrphanCard ==
  \A c \in Calls : alive /\ phase[c] = "done" /\ c \in pending => <<c, "row">> \in refused

\* An "always" answer that decided a client's call is in the admin log, unless
\* the store refused that entry; and the log never blames a call that gave no
\* such answer.
AlwaysLeavesTrace ==
  /\ \A c \in Calls \ ByHand :
       /\ <<c, "trail">> \notin refused
       /\ outcome[c] \in {"allowed", "denied"}
       /\ delivered[c] \in DOMAIN Persisted
       => <<c, Persisted[delivered[c]]>> \in trail
  /\ \A t \in trail : t[1] \notin ByHand /\ delivered[t[1]] \in DOMAIN Persisted

\* A rule changes only while a client's call is acting on an "always" answer
\* given to its own card, and only the rule of that call's own pair.
RulesOnlyFromAlways ==
  [][ \A k \in Keys : rules'[k] # rules[k] =>
        \E c \in Calls \ ByHand :
           /\ KeyOf[c] = k
           /\ phase[c] = "writing" /\ delivered[c] \in DOMAIN Persisted
           /\ rules'[k] = Persisted[delivered[c]] ]_vars

\* One card takes one answer: presses racing each other, a refresh or the end
\* of the hold cannot have two of them reported as delivered.
OneAnswerPerCard ==
  [][ \A c \in Calls : delivered[c] # "none" => delivered'[c] = delivered[c] ]_vars

\* Every held call comes back to its caller, whoever answers or does not.
EveryHoldEnds == \A c \in Calls : phase[c] = "recorded" ~> phase[c] = "done"

\* Why the safety properties hold: a sender still in the map has sent nothing;
\* what the channel carries is what resolve reported; only a client's "always"
\* reaches the store; and the outcome is what the channel said.
WaiterInv  == \A c \in waiters : /\ phase[c] \in {"waiting", "expired", "leaving"}
                                 /\ chan[c] = "empty" /\ delivered[c] = "none"
AnswerInv  == \A c \in Calls : chan[c] \in Resolutions \/ delivered[c] # "none"
                                 => chan[c] = delivered[c]
ActingInv  == \A c \in Calls : phase[c] \in {"writing", "tracing"}
                                 => Remembered(c) /\ outcome[c] = "none"
EarlyInv   == \A c \in Calls :
                /\ phase[c] \in {"idle", "recorded"} => delivered[c] = "none" /\ chan[c] = "empty"
                /\ phase[c] = "expired" => outcome[c] = "timeout"
                /\ phase[c] = "idle" => c \notin pending
                /\ phase[c] \in {"idle", "recorded", "waiting"} => outcome[c] = "none"
OutcomeInv == \A c \in Calls : outcome[c] = "shutdown" => chan[c] = "dropped"

IInv == /\ TypeOK /\ WaiterInv /\ AnswerInv /\ ActingInv /\ EarlyInv /\ OutcomeInv
        /\ AllowedOnlyOnOwnCard /\ NoOrphanCard /\ AlwaysLeavesTrace

Verdict(c) == CASE phase[c] = "idle" -> "unasked"
                [] phase[c] \notin {"idle", "done"} -> "asked"
                [] OTHER -> IF outcome[c] = "allowed" THEN "allowed" ELSE "refused"

Gate == INSTANCE HumanGate WITH verdict <- [c \in Calls |-> Verdict(c)],
                                said <- delivered

\* The queue does what HumanGate promises.
ImplementsHumanGate == Gate!Spec
=============================================================================
