--------------------------- MODULE ApprovalProofs ---------------------------
(* Proofs about the approval queue, for any calls, pairs and fault bound.  *)
EXTENDS Approval, TLAPS

\* Which answers persist, and as what.
LEMMA PersistedFacts ==
  /\ DOMAIN Persisted = {"allow_always", "reject_always"}
  /\ \A r \in DOMAIN Persisted : Persisted[r] \in {"allow", "deny"}
  /\ DOMAIN Persisted \subseteq Resolutions
BY DEF Persisted, Resolutions

\* Every step of the queue keeps IInv, one case per action.
LEMMA Inductive == IInv /\ [Next]_vars => IInv'
  <2> SUFFICES ASSUME IInv, [Next]_vars PROVE IInv'
    OBVIOUS
  <2> USE CallAssumption, PersistedFacts
      DEF IInv, TypeOK, WaiterInv, AnswerInv, ActingInv, EarlyInv, OutcomeInv,
          AllowedOnlyOnOwnCard, NoOrphanCard, AlwaysLeavesTrace, Remembered, OutcomeOf,
          Phases, Outcomes, Resolutions, Allows, Receiving, Fault, GoTo, GoWith,
          taskVars, queueVars, guiVars, ruleVars, restVars
  <2>1. ASSUME NEW c \in Calls, NoTime(c) PROVE IInv'
    BY <2>1 DEF NoTime
  <2>2. ASSUME NEW c \in Calls, AddPending(c) PROVE IInv'
    BY <2>2 DEF AddPending
  <2>3. ASSUME NEW c \in Calls, Register(c) PROVE IInv'
    BY <2>3 DEF Register
  <2>4. ASSUME NEW c \in Calls, TakeAnswer(c) PROVE IInv'
    BY <2>4 DEF TakeAnswer
  <2>5. ASSUME NEW c \in Calls, TakeCancel(c) PROVE IInv'
    BY <2>5 DEF TakeCancel
  <2>6. ASSUME NEW c \in Calls, Expire(c) PROVE IInv'
    BY <2>6 DEF Expire
  <2>7. ASSUME NEW c \in Calls, CloseReceiver(c) PROVE IInv'
    BY <2>7 DEF CloseReceiver
  <2>8. ASSUME NEW c \in Calls, HangUp(c) PROVE IInv'
    BY <2>8 DEF HangUp
  <2>9. ASSUME NEW c \in Calls, WriteRule(c) PROVE IInv'
    BY <2>9 DEF WriteRule
  <2>10. ASSUME NEW c \in Calls, TraceRule(c) PROVE IInv'
    BY <2>10 DEF TraceRule
  <2>11. ASSUME NEW c \in Calls, DropWaiter(c) PROVE IInv'
    BY <2>11 DEF DropWaiter
  <2>12. ASSUME NEW c \in Calls, DropRow(c) PROVE IInv'
    BY <2>12 DEF DropRow
  <2>13. ASSUME NEW c \in Calls, ClearGone(c) PROVE IInv'
    BY <2>13 DEF ClearGone
  <2>14. ASSUME NEW c \in Calls, NEW r \in Resolutions, Press(c, r) PROVE IInv'
    <3>1. TypeOK'
      BY <2>14 DEF Press
    <3>2. WaiterInv'
      BY <2>14 DEF Press
    <3>3. AnswerInv'
      BY <2>14 DEF Press
    <3>4. ActingInv'
      BY <2>14 DEF Press
    <3>5. EarlyInv'
      BY <2>14 DEF Press
    <3>6. OutcomeInv'
      BY <2>14 DEF Press
    <3>7. AllowedOnlyOnOwnCard'
      BY <2>14 DEF Press
    <3>8. NoOrphanCard'
      BY <2>14 DEF Press
    <3>9. AlwaysLeavesTrace'
      BY <2>14 DEF Press
    <3> QED
      BY <3>1, <3>2, <3>3, <3>4, <3>5, <3>6, <3>7, <3>8, <3>9
  <2>15. CASE Refresh
    BY <2>15 DEF Refresh
  <2>16. CASE CancelWaiters
    BY <2>16 DEF CancelWaiters
  <2>17. CASE CancelRows
    BY <2>17 DEF CancelRows
  <2>18. CASE Crash
    BY <2>18, ZenonT(40) DEF Crash
  <2>19. CASE Restart
    BY <2>19 DEF Restart
  <2>20. CASE UNCHANGED vars
    BY <2>20 DEF vars
  <2> HIDE DEF IInv
  <2> QED
    BY <2>1, <2>2, <2>3, <2>4, <2>5, <2>6, <2>7, <2>8, <2>9, <2>10, <2>11, <2>12,
       <2>13, <2>14, <2>15, <2>16, <2>17, <2>18, <2>19, <2>20
       DEF Next, Hold, Operator

\* The inductive invariant holds in every reachable state.
THEOREM Invariance == Spec => []IInv
<1>1. Init => IInv
  BY CallAssumption
     DEF Init, IInv, TypeOK, Phases, Outcomes, WaiterInv, AnswerInv, ActingInv, EarlyInv,
         OutcomeInv, AllowedOnlyOnOwnCard, NoOrphanCard, AlwaysLeavesTrace, Resolutions
<1> QED
  BY <1>1, Inductive, PTL DEF Spec

\* Every variable keeps its type.
THEOREM TypeCorrect == Spec => []TypeOK
<1>1. IInv => TypeOK
  BY DEF IInv
<1> QED
  BY <1>1, Invariance, PTL

\* A call goes ahead only on an allowing answer delivered to its own card.
THEOREM AllowedSafe == Spec => []AllowedOnlyOnOwnCard
<1>1. IInv => AllowedOnlyOnOwnCard
  BY DEF IInv
<1> QED
  BY <1>1, Invariance, PTL

\* cancel_all never overrules an answer that was delivered.
THEOREM ShutdownSafe == Spec => []AnswerSurvivesShutdown
<1>1. IInv => AnswerSurvivesShutdown
  BY DEF IInv, TypeOK, AnswerInv, OutcomeInv, AnswerSurvivesShutdown, Resolutions
<1> QED
  BY <1>1, Invariance, PTL

\* A row outlives its call only when the store refused to delete it.
THEOREM NoOrphan == Spec => []NoOrphanCard
<1>1. IInv => NoOrphanCard
  BY DEF IInv
<1> QED
  BY <1>1, Invariance, PTL

\* "Always" answers are on record, and nothing else is.
THEOREM TraceSafe == Spec => []AlwaysLeavesTrace
<1>1. IInv => AlwaysLeavesTrace
  BY DEF IInv
<1> QED
  BY <1>1, Invariance, PTL

\* An answer that was delivered is never replaced by another.
THEOREM OneAnswer == Spec => OneAnswerPerCard
<1>1. IInv /\ [Next]_vars
        => [\A c \in Calls : delivered[c] # "none" => delivered'[c] = delivered[c]]_vars
  <2> SUFFICES ASSUME IInv, Next, NEW c \in Calls, delivered[c] # "none"
               PROVE  delivered'[c] = delivered[c]
    BY DEF vars
  <2>1. ASSUME NEW d \in Calls, NEW r \in Resolutions, Press(d, r)
        PROVE  delivered'[c] = delivered[c]
    BY <2>1 DEF Press, IInv, TypeOK, WaiterInv
  <2>2. CASE UNCHANGED delivered
    BY <2>2
  <2> QED
    BY <2>1, <2>2 DEF Next, Hold, Operator, NoTime, AddPending, Register, TakeAnswer,
       TakeCancel, Expire, CloseReceiver, HangUp, WriteRule, TraceRule, DropWaiter,
       DropRow, ClearGone, Refresh, CancelWaiters, CancelRows, Crash, Restart,
       taskVars, queueVars, guiVars, ruleVars, restVars
<1> QED
  BY <1>1, Invariance, PTL DEF Spec, OneAnswerPerCard

\* Only a client's own "always" answer writes a rule, and only its own pair's.
THEOREM RulesSafe == Spec => RulesOnlyFromAlways
<1> DEFINE Justified(k) == rules'[k] # rules[k] =>
             \E c \in Calls \ ByHand :
                /\ KeyOf[c] = k
                /\ phase[c] = "writing" /\ delivered[c] \in DOMAIN Persisted
                /\ rules'[k] = Persisted[delivered[c]]
<1>1. IInv /\ [Next]_vars => [\A k \in Keys : Justified(k)]_vars
  <2> SUFFICES ASSUME IInv, Next, NEW k \in Keys PROVE Justified(k)
    BY DEF vars
  <2>1. ASSUME NEW c \in Calls, WriteRule(c) PROVE Justified(k)
    BY <2>1, PersistedFacts, CallAssumption
       DEF WriteRule, IInv, TypeOK, ActingInv, AnswerInv, Remembered
  <2>2. CASE UNCHANGED rules
    BY <2>2
  <2> QED
    BY <2>1, <2>2 DEF Next, Hold, Operator, NoTime, AddPending, Register, TakeAnswer,
       TakeCancel, Expire, CloseReceiver, HangUp, TraceRule, DropWaiter, DropRow,
       Press, ClearGone, Refresh, CancelWaiters, CancelRows, Crash, Restart,
       taskVars, queueVars, guiVars, ruleVars, restVars
<1> QED
  BY <1>1, Invariance, PTL DEF Spec, RulesOnlyFromAlways

\* Every step of the queue is a step of HumanGate or changes nothing it sees.
LEMMA GateStep == IInv /\ [Next]_vars => [Gate!Next]_(Gate!vars)
  <2> SUFFICES ASSUME IInv, [Next]_vars PROVE Gate!Next \/ UNCHANGED Gate!vars
    OBVIOUS
  <2> DEFINE V == [c \in Calls |-> Verdict(c)]
  <2>a. ASSUME NEW c \in Calls, V[c] \in {"unasked", "asked"}, V' = [V EXCEPT ![c] = "refused"],
               UNCHANGED <<delivered, rules>>
        PROVE  Gate!Next
    <3>1. Gate!Refuse({c})
      BY <2>a DEF Gate!Refuse
    <3> QED
      BY <3>1 DEF Gate!Next
  <2> USE DEF IInv, TypeOK, Verdict, GoTo, GoWith, taskVars, queueVars, guiVars,
              ruleVars, restVars
  <2>1. ASSUME NEW c \in Calls, NoTime(c) PROVE Gate!Next
    BY <2>1, <2>a DEF NoTime
  <2>2. ASSUME NEW c \in Calls, AddPending(c) PROVE Gate!Next
    <3>1. CASE phase' = [phase EXCEPT ![c] = "recorded"]
      <4>1. Gate!Ask(c)
        BY <2>2, <3>1 DEF AddPending, Gate!Ask
      <4> QED
        BY <4>1 DEF Gate!Next
    <3>2. CASE Fault /\ GoWith(c, "done", "denied")
      BY <2>2, <3>2, <2>a DEF AddPending
    <3> QED
      BY <2>2, <3>1, <3>2 DEF AddPending
  <2>3. ASSUME NEW c \in Calls, Register(c) PROVE UNCHANGED Gate!vars
    BY <2>3 DEF Register, Gate!vars
  <2>4. ASSUME NEW c \in Calls, TakeAnswer(c) PROVE UNCHANGED Gate!vars
    BY <2>4 DEF TakeAnswer, Gate!vars
  <2>5. ASSUME NEW c \in Calls, TakeCancel(c) PROVE UNCHANGED Gate!vars
    BY <2>5 DEF TakeCancel, Gate!vars
  <2>6. ASSUME NEW c \in Calls, Expire(c) PROVE UNCHANGED Gate!vars
    BY <2>6 DEF Expire, Gate!vars
  <2>7. ASSUME NEW c \in Calls, CloseReceiver(c) PROVE UNCHANGED Gate!vars
    BY <2>7 DEF CloseReceiver, Gate!vars
  <2>8. ASSUME NEW c \in Calls, HangUp(c) PROVE UNCHANGED Gate!vars
    BY <2>8 DEF HangUp, Gate!vars
  <2>9. ASSUME NEW c \in Calls, TraceRule(c) PROVE UNCHANGED Gate!vars
    BY <2>9 DEF TraceRule, Gate!vars
  <2>10. ASSUME NEW c \in Calls, DropWaiter(c) PROVE UNCHANGED Gate!vars
    BY <2>10 DEF DropWaiter, Gate!vars
  <2>11. ASSUME NEW c \in Calls, WriteRule(c) PROVE Gate!Next \/ UNCHANGED Gate!vars
    <3>1. CASE UNCHANGED rules
      BY <2>11, <3>1 DEF WriteRule, Gate!vars
    <3>2. CASE rules' = [rules EXCEPT ![KeyOf[c]] = Persisted[chan[c]]]
      <4>1. Gate!Remember(c)
        BY <2>11, <3>2, PersistedFacts
           DEF WriteRule, Gate!Remember, ActingInv, AnswerInv, Remembered, Persisted, Gate!Lasting
      <4> QED
        BY <4>1 DEF Gate!Next
    <3> QED
      BY <2>11, <3>1, <3>2 DEF WriteRule
  <2>12. ASSUME NEW c \in Calls, DropRow(c) PROVE Gate!Next
    <3>1. CASE outcome[c] = "allowed"
      <4>1. Gate!LetThrough(c)
        BY <2>12, <3>1 DEF DropRow, Gate!LetThrough, AllowedOnlyOnOwnCard, Allows, Gate!Allows
      <4> QED
        BY <4>1 DEF Gate!Next
    <3>2. CASE outcome[c] # "allowed"
      BY <2>12, <3>2, <2>a, ZenonT(40) DEF DropRow
    <3> QED
      BY <3>1, <3>2
  <2>13. ASSUME NEW c \in Calls, NEW r \in Resolutions, Press(c, r)
         PROVE  Gate!Next \/ UNCHANGED Gate!vars
    <3>1. CASE c \in waiters /\ phase[c] \in Receiving
      <4>1. Gate!Say(c, r)
        BY <2>13, <3>1 DEF Press, Gate!Say, WaiterInv, Receiving
      <4> QED
        BY <4>1 DEF Gate!Next, Gate!Answers, Resolutions
    <3>2. CASE ~(c \in waiters /\ phase[c] \in Receiving)
      BY <2>13, <3>2 DEF Press, Gate!vars
    <3> QED
      BY <3>1, <3>2
  <2>14. ASSUME NEW c \in Calls, ClearGone(c) PROVE UNCHANGED Gate!vars
    BY <2>14 DEF ClearGone, Gate!vars
  <2>15. CASE Refresh \/ CancelWaiters \/ CancelRows \/ Restart
    BY <2>15 DEF Refresh, CancelWaiters, CancelRows, Restart, Gate!vars
  <2>16. CASE Crash
    <3> DEFINE S == {c \in Calls : phase[c] \notin {"idle", "done"}}
    <3>1. S \in SUBSET Calls
      OBVIOUS
    <3>2. Gate!Refuse(S)
      BY <2>16 DEF Crash, Gate!Refuse
    <3> HIDE DEF S, IInv, TypeOK, Verdict
    <3> QED
      BY <3>1, <3>2 DEF Gate!Next
  <2>17. CASE UNCHANGED vars
    BY <2>17 DEF vars, Gate!vars
  <2> HIDE DEF IInv, TypeOK
  <2> QED
    BY <2>1, <2>2, <2>3, <2>4, <2>5, <2>6, <2>7, <2>8, <2>9, <2>10, <2>11, <2>12,
       <2>13, <2>14, <2>15, <2>16, <2>17 DEF Next, Hold, Operator

\* The queue refines HumanGate: what a call is told, which answer it took and
\* which rules stand change only in the ways the human gate allows.
THEOREM RefinesHumanGate == Spec => ImplementsHumanGate
<1>1. Init => Gate!Init
  BY DEF Init, Gate!Init, Verdict
<1> QED
  BY <1>1, Invariance, GateStep, PTL DEF Spec, ImplementsHumanGate, Gate!Spec
=============================================================================
