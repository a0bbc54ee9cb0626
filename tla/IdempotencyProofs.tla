------------------------- MODULE IdempotencyProofs -------------------------
(* Proofs about idempotent calls, for any calls, keys, wants and faults.   *)
EXTENDS Idempotency, TLAPS

\* Every step keeps IInv, one case per action.
LEMMA Inductive == IInv /\ [Next]_vars => IInv'
  <2> SUFFICES ASSUME IInv, [Next]_vars PROVE IInv'
    OBVIOUS
  <2> USE IdempotencyAssumption
      DEF IInv, TypeOK, OneHolderPerKey, RecordInv, TaskInv, LostInv, Holds, Rivals, Claiming,
          PCs, Answers, GoTo, Tell, Fault, rowVars
  <2>1. ASSUME NEW c \in Calls, FindRow(c) PROVE IInv'
    BY <2>1 DEF FindRow
  <2>2. ASSUME NEW c \in Calls, FindNothing(c) PROVE IInv'
    BY <2>2 DEF FindNothing
  <2>3. ASSUME NEW c \in Calls, FindFails(c) PROVE IInv'
    BY <2>3 DEF FindFails
  <2>4. ASSUME NEW c \in Calls, Claim(c) PROVE IInv'
    BY <2>4 DEF Claim
  <2>5. ASSUME NEW c \in Calls, LoseRace(c) PROVE IInv'
    BY <2>5 DEF LoseRace
  <2>6. ASSUME NEW c \in Calls, ClaimFails(c) PROVE IInv'
    BY <2>6 DEF ClaimFails
  <2>7. ASSUME NEW c \in Calls, Send(c) PROVE IInv'
    BY <2>7 DEF Send
  <2>8. ASSUME NEW c \in Calls, Stopped(c) PROVE IInv'
    BY <2>8 DEF Stopped
  <2>9. ASSUME NEW c \in Calls, Takes(c) PROVE IInv'
    BY <2>9 DEF Takes
  <2>10. ASSUME NEW c \in Calls, Reply(c) PROVE IInv'
    BY <2>10 DEF Reply
  <2>11. ASSUME NEW c \in Calls, NoReply(c) PROVE IInv'
    BY <2>11 DEF NoReply
  <2>12. ASSUME NEW c \in Calls, HangUp(c) PROVE IInv'
    BY <2>12 DEF HangUp
  <2>13. ASSUME NEW c \in Calls, Complete(c) PROVE IInv'
    BY <2>13 DEF Complete
  <2>14. ASSUME NEW c \in Calls, CompleteFails(c) PROVE IInv'
    BY <2>14 DEF CompleteFails
  <2>15. ASSUME NEW c \in Calls, Release(c) PROVE IInv'
    BY <2>15 DEF Release
  <2>16. CASE Crash
    BY <2>16 DEF Crash
  <2>17. CASE UNCHANGED vars
    BY <2>17 DEF vars
  <2> HIDE DEF IInv
  <2> QED
    BY <2>1, <2>2, <2>3, <2>4, <2>5, <2>6, <2>7, <2>8, <2>9,
       <2>10, <2>11, <2>12, <2>13, <2>14, <2>15, <2>16, <2>17
       DEF Next, Begin, Dispatch

\* The inductive invariant holds in every reachable state.
THEOREM Invariance == Spec => []IInv
<1>1. Init => IInv
  BY IdempotencyAssumption
     DEF Init, IInv, TypeOK, OneHolderPerKey, RecordInv, TaskInv, LostInv, Holds, Claiming, PCs, Answers
<1> QED
  BY <1>1, Inductive, PTL DEF Spec

\* Every variable keeps its type.
THEOREM TypeCorrect == Spec => []TypeOK
<1>1. IInv => TypeOK
  BY DEF IInv
<1> QED
  BY <1>1, Invariance, PTL

\* At most one call owns a key, and its claimed row stands while it does.
THEOREM Exclusion == Spec => []OneHolderPerKey
<1>1. IInv => OneHolderPerKey
  BY DEF IInv
<1> QED
  BY <1>1, Invariance, PTL

\* A replay is the fresh result of a rival that asked for the same thing.
THEOREM ReplaySafe == Spec => []ReplayIsOfTheSameCall
<1>1. IInv => ReplayIsOfTheSameCall
  <2> SUFFICES ASSUME IInv, NEW c \in Calls, answer[c] = "replay"
               PROVE  LET r == result[KeyOf[c]] IN
                        /\ wire[c] = "unsent"
                        /\ \/ /\ r \in Rivals(c) /\ WantOf[r] = WantOf[c]
                              /\ wire[r] = "acted" /\ answer[r] = "fresh"
                           \/ r = NoCall /\ want[KeyOf[c]] = Legacy
    BY DEF ReplayIsOfTheSameCall
  <2>1. KeyOf[c] \in Keys /\ WantOf[c] \in Wants
    BY IdempotencyAssumption
  <2>2. /\ state[KeyOf[c]] = "done" /\ wire[c] = "unsent"
        /\ want[KeyOf[c]] \in {Legacy, WantOf[c]}
    BY DEF IInv, TaskInv
  <2>3. CASE result[KeyOf[c]] = NoCall
    BY <2>1, <2>2, <2>3 DEF IInv, RecordInv
  <2>4. CASE result[KeyOf[c]] # NoCall
    BY <2>1, <2>2, <2>4, IdempotencyAssumption DEF IInv, TypeOK, RecordInv, Rivals
  <2> QED
    BY <2>3, <2>4
<1> QED
  BY <1>1, Invariance, PTL

\* A key yields at most one fresh result.
THEOREM FreshSafe == Spec => []OneFreshResult
<1>1. IInv => OneFreshResult
  BY IdempotencyAssumption DEF IInv, TaskInv, OneFreshResult, Rivals
<1> QED
  BY <1>1, Invariance, PTL

\* Nobody but a key's holder changes a row that exists.
THEOREM RowsSafe == Spec => RowsSettle
<1> DEFINE Settled == \A k \in Keys :
             \/ state[k] = "free"
             \/ \E c \in Calls : KeyOf[c] = k /\ Holds(c)
             \/ state'[k] = state[k] /\ result'[k] = result[k]
<1>1. IInv /\ [Next]_vars => [Settled]_vars
  <2> SUFFICES ASSUME IInv, Next PROVE Settled
    BY DEF vars
  <2> USE IdempotencyAssumption DEF IInv, TypeOK, Holds, Claiming
  <2>1. ASSUME NEW c \in Calls, Claim(c) PROVE Settled
    BY <2>1 DEF Claim
  <2>2. ASSUME NEW c \in Calls, Complete(c) PROVE Settled
    BY <2>2 DEF Complete
  <2>3. ASSUME NEW c \in Calls, Release(c) PROVE Settled
    BY <2>3 DEF Release
  <2>4. CASE UNCHANGED <<state, result>>
    BY <2>4
  <2> QED
    BY <2>1, <2>2, <2>3, <2>4 DEF Next, Begin, Dispatch, FindRow, FindNothing, FindFails,
       LoseRace, ClaimFails, Send, Stopped, Takes, Reply, NoReply, HangUp, CompleteFails,
       Crash, rowVars
<1> QED
  BY <1>1, Invariance, PTL DEF Spec, RowsSettle

\* Once a call died with its request out, nobody sends under its key again.
THEOREM DeadKeysStay == Spec => DeadKeyStaysTaken
<1> DEFINE Clear == \A c \in Calls : wire[c] = "unsent" /\ wire'[c] = "sent" =>
             \A d \in Rivals(c) : answer[d] = "lost" => wire[d] = "unsent"
<1>1. IInv /\ [Next]_vars => [Clear]_vars
  <2> SUFFICES ASSUME IInv, Next PROVE Clear
    BY DEF vars
  <2> USE IdempotencyAssumption DEF IInv, TypeOK
  <2>1. ASSUME NEW c \in Calls, Send(c) PROVE Clear
    <3>1. ASSUME NEW d \in Rivals(c), answer[d] = "lost" PROVE wire[d] = "unsent"
      <4>1. d \in Calls /\ KeyOf[c] = KeyOf[d] /\ Holds(c)
        BY <2>1, <3>1 DEF Send, Rivals, Holds, Claiming
      <4> QED
        BY <3>1, <4>1 DEF LostInv
    <3> QED
      BY <2>1, <3>1 DEF Send
  <2>2. ASSUME NEW c \in Calls, Takes(c) PROVE Clear
    BY <2>2 DEF Takes
  <2>3. CASE UNCHANGED wire
    BY <2>3
  <2> QED
    BY <2>1, <2>2, <2>3 DEF Next, Begin, Dispatch, FindRow, FindNothing, FindFails, Claim,
       LoseRace, ClaimFails, Stopped, Reply, NoReply, HangUp, Complete, CompleteFails,
       Release, Crash
<1> QED
  BY <1>1, Invariance, PTL DEF Spec, DeadKeyStaysTaken

\* Every step of dispatch_idempotent is a step of KeyLedger or nothing it sees.
LEMMA LedgerStep == IInv /\ [Next]_vars => [Ledger!Next]_(Ledger!vars)
<1> SUFFICES ASSUME IInv, [Next]_vars PROVE Ledger!Next \/ UNCHANGED Ledger!vars
  OBVIOUS
<1> USE IdempotencyAssumption
    DEF IInv, TypeOK, ToldBy, Entry, Holds, Claiming, GoTo, Tell, Fault, rowVars
<1> DEFINE Told == [c \in Calls |-> ToldBy(c)]
           Owners == {c \in Calls : Holds(c)}
           Entries == [k \in Keys |-> Entry(k)]
\* A call that never got its key ends, and nobody else notices.
<1>a. ASSUME NEW c \in Calls, pc[c] \in {"idle", "looked"}, GoTo(c, "done"),
             NEW a \in {"replay", "refused", "error"}, Tell(c, a),
             UNCHANGED <<wire, rowVars>>
      PROVE  /\ c \in Ledger!Untold \ Owners
             /\ Told' = [Told EXCEPT ![c] = IF a = "error" THEN "failed" ELSE a]
             /\ UNCHANGED <<wire, Owners, Entries, result>>
  <2>1. c \in Ledger!Untold \ Owners
    BY <1>a DEF TaskInv, PCs, Ledger!Untold
  <2>2. Told' = [Told EXCEPT ![c] = IF a = "error" THEN "failed" ELSE a]
    BY <1>a
  <2>3. Owners' = Owners
    BY <1>a
  <2> QED
    BY <1>a, <2>1, <2>2, <2>3
<1>1. ASSUME NEW c \in Calls, FindRow(c) PROVE Ledger!Next
  <2>1. CASE want[KeyOf[c]] \in {Legacy, WantOf[c]} /\ state[KeyOf[c]] = "done"
    <3>1. result[KeyOf[c]] = NoCall \/ WantOf[result[KeyOf[c]]] = WantOf[c]
      BY <2>1 DEF RecordInv
    <3>2. /\ c \in Ledger!Untold \ Owners /\ Told' = [Told EXCEPT ![c] = "replay"]
          /\ UNCHANGED <<wire, Owners, Entries, result>>
      BY <1>1, <1>a, <2>1 DEF FindRow
    <3>3. Ledger!Replay(c)
      BY <2>1, <3>1, <3>2 DEF Ledger!Replay
    <3> QED
      BY <3>3 DEF Ledger!Next
  <2>2. CASE ~(want[KeyOf[c]] \in {Legacy, WantOf[c]} /\ state[KeyOf[c]] = "done")
    <3>1. /\ c \in Ledger!Untold \ Owners /\ Told' = [Told EXCEPT ![c] = "refused"]
          /\ UNCHANGED <<wire, Owners, Entries, result>>
      BY <1>1, <1>a, <2>2 DEF FindRow
    <3>2. Ledger!Refuse(c)
      BY <1>1, <3>1 DEF FindRow, Ledger!Refuse
    <3> QED
      BY <3>2 DEF Ledger!Next
  <2> QED
    BY <2>1, <2>2
<1>2. ASSUME NEW c \in Calls, FindNothing(c) PROVE UNCHANGED Ledger!vars
  BY <1>2 DEF FindNothing, Ledger!vars
<1>3. ASSUME NEW c \in Calls, FindFails(c) \/ ClaimFails(c) PROVE Ledger!Next
  <2>1. /\ c \in Ledger!Untold \ Owners /\ Told' = [Told EXCEPT ![c] = "failed"]
        /\ UNCHANGED <<wire, Owners, Entries, result>>
    BY <1>3, <1>a DEF FindFails, ClaimFails
  <2>2. Ledger!Fail(c)
    BY <2>1 DEF Ledger!Fail
  <2> QED
    BY <2>2 DEF Ledger!Next
<1>4. ASSUME NEW c \in Calls, Claim(c) PROVE Ledger!Next
  <2>1. Ledger!Take(c)
    BY <1>4 DEF Claim, TaskInv, PCs, Ledger!Take, Ledger!Untold
  <2> QED
    BY <2>1 DEF Ledger!Next
<1>5. ASSUME NEW c \in Calls, LoseRace(c) PROVE Ledger!Next
  <2>1. /\ c \in Ledger!Untold \ Owners /\ Told' = [Told EXCEPT ![c] = "refused"]
        /\ UNCHANGED <<wire, Owners, Entries, result>>
    BY <1>5, <1>a DEF LoseRace
  <2>2. Ledger!Refuse(c)
    BY <1>5, <2>1 DEF LoseRace, Ledger!Refuse
  <2> QED
    BY <2>2 DEF Ledger!Next
<1>6. ASSUME NEW c \in Calls, Send(c) PROVE Ledger!Next
  <2>1. Ledger!Send(c)
    BY <1>6 DEF Send, TaskInv, Ledger!Send
  <2> QED
    BY <2>1 DEF Ledger!Next
<1>7. ASSUME NEW c \in Calls, Takes(c) PROVE Ledger!Next
  <2>1. Ledger!Effect(c)
    BY <1>7 DEF Takes, Ledger!Effect
  <2> QED
    BY <2>1 DEF Ledger!Next
<1>8. ASSUME NEW c \in Calls, Reply(c) PROVE UNCHANGED Ledger!vars
  BY <1>8 DEF Reply, Ledger!vars
<1>9. ASSUME NEW c \in Calls, Stopped(c) \/ NoReply(c) \/ HangUp(c) \/ CompleteFails(c)
      PROVE UNCHANGED Ledger!vars
  BY <1>9 DEF Stopped, NoReply, HangUp, CompleteFails, TaskInv, PCs, Ledger!vars
<1>10. ASSUME NEW c \in Calls, Complete(c) PROVE Ledger!Next
  <2>1. Told' = [Told EXCEPT ![c] = "fresh"]
    BY <1>10 DEF Complete
  <2>2. Owners' = Owners \ {c}
    BY <1>10 DEF Complete
  <2>3. Entries' = [Entries EXCEPT ![KeyOf[c]] = "spent"]
    BY <1>10 DEF Complete
  <2>4. Ledger!Spend(c)
    BY <1>10, <2>1, <2>2, <2>3 DEF Complete, TaskInv, Ledger!Spend
  <2> QED
    BY <2>4 DEF Ledger!Next
<1>11. ASSUME NEW c \in Calls, Release(c) PROVE Ledger!Next
  <2>1. Told' = [Told EXCEPT ![c] = "failed"]
    BY <1>11 DEF Release, TaskInv
  <2>2. Owners' = Owners \ {c}
    BY <1>11 DEF Release
  <2>3. \E s \in {"free", "taken"} : Entries' = [Entries EXCEPT ![KeyOf[c]] = s]
    <3>1. CASE state' = [state EXCEPT ![KeyOf[c]] = "free"]
      BY <3>1
    <3>2. CASE UNCHANGED state
      BY <1>11, <3>2 DEF Release, OneHolderPerKey
    <3> QED
      BY <1>11, <3>1, <3>2 DEF Release, OneHolderPerKey
  <2>4. Ledger!GiveUp(c)
    BY <1>11, <2>1, <2>2, <2>3 DEF Release, Ledger!GiveUp
  <2> QED
    BY <2>4 DEF Ledger!Next
<1>12. CASE Crash
  <2> DEFINE S == {c \in Calls : pc[c] \notin {"idle", "done"}}
  <2>1. Ledger!Die(S)
    BY <1>12 DEF Crash, TaskInv, PCs, Ledger!Die, Ledger!Untold
  <2>2. S \in SUBSET Calls
    OBVIOUS
  <2> HIDE DEF S, IInv, TypeOK, ToldBy, Entry, Holds
  <2> QED
    BY <2>1, <2>2 DEF Ledger!Next
<1>13. CASE UNCHANGED vars
  BY <1>13 DEF vars, Ledger!vars
<1> HIDE DEF IInv, TypeOK
<1> QED
  BY <1>1, <1>2, <1>3, <1>4, <1>5, <1>6, <1>7, <1>8, <1>9, <1>10, <1>11, <1>12, <1>13
  DEF Next, Begin, Dispatch

\* dispatch_idempotent, with its table, its races and its crashes, does what
\* KeyLedger promises of a key: one owner, one spending, replays of the same
\* thing, and no way back for a key whose owner died.
THEOREM RefinesKeyLedger == Spec => ImplementsKeyLedger
<1>1. Init => Ledger!Init
  BY DEF Init, Ledger!Init, ToldBy, Entry, Holds, Claiming
<1> QED
  BY <1>1, Invariance, LedgerStep, PTL DEF Spec, ImplementsKeyLedger, Ledger!Spec
=============================================================================
