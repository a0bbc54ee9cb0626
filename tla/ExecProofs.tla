----------------------------- MODULE ExecProofs -----------------------------
(***************************************************************************)
(* The slots, the deadline and the process groups of exec.rs, for any      *)
(* number of calls and slots and whatever limits a configuration allows.   *)
(***************************************************************************)
EXTENDS Exec, FiniteSetTheorems, SequenceTheorems, TLAPS

Types == /\ limit \in Limits
         /\ stage \in [Jobs -> Places] /\ ended \in [Jobs -> Outcomes]
         /\ free \in Nat
         /\ age \in [Jobs -> Nat] /\ since \in [Jobs -> Nat]
         /\ procs \in [Jobs -> SUBSET Kinds]

\* What runs was started in the past; what has not ended has no outcome.
Past  == \A c \in Jobs : since[c] <= age[c]
Early == \A c \in Jobs : stage[c] # "done" => ended[c] = "none"

IInv == Types /\ Past /\ Early /\ DeadlineKept /\ NoStrays /\ SlotsKept

Running == {c \in Jobs : stage[c] = "running"}

\* The limits are numbers, and a command's own time is at least one.
LEMMA LimitTypes ==
  ASSUME ExecAssumption, Types
  PROVE  /\ limit.timeout \in Nat /\ limit.deadline \in Nat /\ limit.after \in Nat
         /\ Own \in Nat /\ Own > 0
BY DEF ExecAssumption, Types, Own

\* What a process may take fits into what is left of the deadline.
LEMMA RoomFits ==
  ASSUME ExecAssumption, Types, NEW a \in Nat
  PROVE  /\ Room(a) \in Nat /\ Room(a) <= Own
         /\ limit.deadline > 0 /\ a <= limit.deadline => a + Room(a) <= limit.deadline
<1>1. limit.deadline \in Nat /\ Own \in Nat
  BY LimitTypes
<1> QED
  BY <1>1 DEF Room

\* One call starting to run, or ceasing to, changes the count by one.
LEMMA OneMore ==
  ASSUME ExecAssumption, Types, NEW c \in Jobs, NEW p \in Places, stage' = [stage EXCEPT ![c] = p]
  PROVE  /\ Cardinality(Running) \in Nat /\ Cardinality(Running') \in Nat
         /\ stage[c] = "running" /\ p # "running" => Cardinality(Running') = Cardinality(Running) - 1
         /\ stage[c] # "running" /\ p = "running" => Cardinality(Running') = Cardinality(Running) + 1
         /\ stage[c] # "running" /\ p # "running" => Cardinality(Running') = Cardinality(Running)
<1>1. IsFiniteSet(Running) /\ IsFiniteSet(Running')
  <2>1. IsFiniteSet(Jobs)
    BY DEF ExecAssumption
  <2> QED
    BY <2>1, FS_Subset DEF Running
<1>2. Cardinality(Running) \in Nat /\ Cardinality(Running') \in Nat
  BY <1>1, FS_CardinalityType
<1>3. ASSUME stage[c] = "running", p # "running" PROVE Running' = Running \ {c} /\ c \in Running
  BY <1>3 DEF Running, Types
<1>4. ASSUME stage[c] # "running", p = "running" PROVE Running' = Running \cup {c} /\ c \notin Running
  BY <1>4 DEF Running, Types
<1>5. ASSUME stage[c] # "running", p # "running" PROVE Running' = Running
  BY <1>5 DEF Running, Types
<1> QED
  BY <1>1, <1>2, <1>3, <1>4, <1>5, FS_AddElement, FS_RemoveElement

\* IInv holds when the runner is made ...
LEMMA IInit == ASSUME ExecAssumption PROVE ExecInit => IInv
<1> SUFFICES ASSUME ExecInit PROVE IInv
  OBVIOUS
<1>1. Types /\ Past /\ Early /\ DeadlineKept /\ NoStrays
  BY DEF ExecAssumption, ExecInit, Types, Past, Early, DeadlineKept, NoStrays, Places, Outcomes
<1>2. {c \in Jobs : stage[c] = "running"} = {}
  BY DEF ExecInit
<1>3. SlotsKept
  <2>1. Cardinality({c \in Jobs : stage[c] = "running"}) = 0
    BY <1>2, FS_EmptySet
  <2>2. free = Slots /\ Slots \in Nat
    BY DEF ExecInit, ExecAssumption
  <2> QED
    BY <2>1, <2>2 DEF SlotsKept
<1> QED
  BY <1>1, <1>3 DEF IInv

\* A call that ends gives back the slot it had.
LEMMA LeaveStep ==
  ASSUME ExecAssumption, IInv, NEW c \in Jobs, NEW o \in Outcomes, Leave(c, o), limit' = limit,
         (free' = free /\ stage[c] # "running") \/ GiveBack(c),
         \/ KillGroup(c)
         \/ procs' = procs /\ procs[c] = {}
         \/ procs' = procs /\ procs[c] \subseteq {"detached"} /\ o \in {"ok", "failed"}
  PROVE  IInv'
<1>1. Types'
  BY DEF IInv, Types, Leave, GiveBack, KillGroup, Places
<1>2. Past' /\ Early'
  BY DEF IInv, Types, Past, Early, Leave
<1>3. DeadlineKept'
  BY DEF IInv, Types, DeadlineKept, Leave, ExecAssumption
<1>4. NoStrays'
  <2> SUFFICES ASSUME NEW d \in Jobs, stage'[d] \in {"idle", "queued", "done"}
               PROVE  procs'[d] \subseteq IF ended'[d] \in {"ok", "failed"} THEN {"detached"} ELSE {}
    BY DEF NoStrays
  <2>1. CASE d = c
    BY <2>1 DEF IInv, Types, Leave, KillGroup
  <2>2. CASE d # c
    <3>1. stage'[d] = stage[d] /\ ended'[d] = ended[d] /\ procs'[d] = procs[d]
      BY <2>2 DEF IInv, Types, Leave, KillGroup
    <3> QED
      BY <3>1 DEF IInv, NoStrays
  <2> QED
    BY <2>1, <2>2
<1>5. SlotsKept'
  <2>1. stage' = [stage EXCEPT ![c] = "done"] /\ "done" \in Places
    BY DEF Leave, Places
  <2>2. /\ stage[c] = "running" => Cardinality(Running') = Cardinality(Running) - 1
        /\ stage[c] # "running" => Cardinality(Running') = Cardinality(Running)
        /\ Cardinality(Running) \in Nat
    BY <2>1, OneMore DEF IInv
  <2>3. free \in Nat /\ free + Cardinality(Running) = Slots
    BY DEF IInv, Types, SlotsKept, Running
  <2>4. free' = IF stage[c] = "running" THEN free + 1 ELSE free
    BY DEF GiveBack
  <2>5. free' + Cardinality(Running') = Slots
    BY <2>2, <2>3, <2>4
  <2> QED
    BY <2>5 DEF SlotsKept, Running
<1> QED
  BY <1>1, <1>2, <1>3, <1>4, <1>5 DEF IInv

\* A call that starts a process; only the command takes a slot.
LEMMA SpawnStep ==
  ASSUME ExecAssumption, IInv, NEW c \in Jobs, NEW p \in {"running", "quick"},
         SpawnCollect(c, p), UNCHANGED <<limit, ended, age>>, stage[c] \in {"queued", "running"},
         \/ p = "running" /\ stage[c] = "queued" /\ free > 0 /\ free' = free - 1
         \/ p = "quick" /\ GiveBack(c)
  PROVE  IInv'
<1>1. Types'
  BY DEF IInv, Types, SpawnCollect, GiveBack, Places, Kinds
<1>2. Past' /\ Early'
  BY DEF IInv, Types, Past, Early, SpawnCollect
<1>3. DeadlineKept' /\ NoStrays'
  BY DEF IInv, Types, DeadlineKept, NoStrays, SpawnCollect
<1>4. SlotsKept'
  <2>1. stage' = [stage EXCEPT ![c] = p] /\ p \in Places
    BY DEF SpawnCollect, Places
  <2>2. /\ stage[c] = "running" /\ p # "running" => Cardinality(Running') = Cardinality(Running) - 1
        /\ stage[c] # "running" /\ p = "running" => Cardinality(Running') = Cardinality(Running) + 1
        /\ stage[c] # "running" /\ p # "running" => Cardinality(Running') = Cardinality(Running)
        /\ Cardinality(Running) \in Nat
    BY <2>1, OneMore DEF IInv
  <2>3. free \in Nat /\ free + Cardinality(Running) = Slots
    BY DEF IInv, Types, SlotsKept, Running
  <2>4. free' + Cardinality(Running') = Slots
    BY <2>2, <2>3 DEF GiveBack
  <2> QED
    BY <2>4 DEF SlotsKept, Running
<1> QED
  BY <1>1, <1>2, <1>3, <1>4 DEF IInv

\* A step that moves no call between places and no slot.
LEMMA StillStep ==
  ASSUME IInv, UNCHANGED <<limit, stage, ended, free, since>>, Types', Past', DeadlineKept', NoStrays'
  PROVE  IInv'
BY DEF IInv, Early, SlotsKept

\* A tick keeps to the deadline because nothing is overdue.
LEMMA TickStep == ASSUME ExecAssumption, IInv, Tick PROVE IInv'
<1>1. /\ UNCHANGED <<limit, stage, ended, free, since, procs>>
      /\ age' = [c \in Jobs |-> IF Pending(c) THEN age[c] + 1 ELSE age[c]]
  BY DEF Tick
<1>2. Types' /\ Past' /\ NoStrays'
  BY <1>1 DEF IInv, Types, Past, NoStrays
<1>3. DeadlineKept'
  <2> SUFFICES ASSUME limit.deadline > 0, NEW c \in Jobs PROVE age'[c] <= limit.deadline
    BY <1>1 DEF DeadlineKept
  <2>1. /\ age[c] \in Nat /\ since[c] \in Nat /\ since[c] <= age[c]
        /\ age[c] <= limit.deadline /\ limit.deadline \in Nat
    BY LimitTypes DEF IInv, Types, Past, DeadlineKept
  <2>2. CASE stage[c] = "queued"
    BY <1>1, <2>1, <2>2 DEF Tick, Waited, Pending
  <2>3. CASE Active(c)
    <3>1. Room(since[c]) \in Nat /\ since[c] + Room(since[c]) <= limit.deadline
      <4>1. Types /\ since[c] \in Nat /\ since[c] <= limit.deadline
        BY <2>1 DEF IInv
      <4> QED
        BY <4>1, RoomFits
    <3>2. ~Overdue(c)
      BY DEF Tick
    <3>3. age[c] < since[c] + Room(since[c])
      BY <2>1, <2>3, <3>1, <3>2 DEF Overdue
    <3>4. age'[c] = age[c] + 1
      BY <1>1, <2>3 DEF Pending
    <3> QED
      BY <2>1, <3>1, <3>3, <3>4
  <2>4. CASE ~Pending(c)
    BY <1>1, <2>1, <2>4
  <2> QED
    BY <2>2, <2>3, <2>4 DEF Pending
<1> QED
  BY <1>1, <1>2, <1>3, StillStep

\* ... and every step keeps it.
LEMMA IStep == ASSUME ExecAssumption PROVE IInv /\ [ExecNext]_execVars => IInv'
<1> SUFFICES ASSUME IInv, [ExecNext]_execVars PROVE IInv'
  OBVIOUS
<1>1. CASE UNCHANGED execVars
  BY <1>1 DEF execVars, IInv, Types, Past, Early, DeadlineKept, NoStrays, SlotsKept
<1>2. ASSUME NEW c \in Jobs, Ask(c) PROVE IInv'
  <2>1. stage' = [stage EXCEPT ![c] = "queued"] /\ stage[c] = "idle" /\ UNCHANGED <<limit, ended, free, clock, procs>>
    BY <1>2 DEF Ask
  <2>2. Types' /\ Past' /\ Early' /\ DeadlineKept' /\ NoStrays'
    BY <2>1 DEF IInv, Types, Past, Early, DeadlineKept, NoStrays, clock, Places
  <2>3. Running' = Running
    BY <2>1 DEF IInv, Types, Running
  <2> QED
    BY <2>1, <2>2, <2>3 DEF IInv, SlotsKept, Running
<1>3. ASSUME NEW c \in Jobs, Refuse(c) \/ StartFails(c) \/ NotStarted(c) PROVE IInv'
  <2>1. stage[c] \in {"idle", "queued"} /\ procs[c] = {}
    BY <1>3 DEF Refuse, StartFails, NotStarted, Waited, IInv, NoStrays, Early
  <2>2. PICK o \in {"failed", "notStarted"} : Leave(c, o)
    BY <1>3 DEF Refuse, StartFails, NotStarted
  <2> QED
    BY <1>3, <2>1, <2>2, LeaveStep DEF Refuse, StartFails, NotStarted, Outcomes
<1>4. ASSUME NEW c \in Jobs, Exited(c) PROVE IInv'
  BY <1>4, LeaveStep DEF Exited, Outcomes
<1>5. ASSUME NEW c \in Jobs, Stop(c) PROVE IInv'
  BY <1>5, LeaveStep DEF Stop, Blame, Outcomes
<1>6. ASSUME NEW c \in Jobs, FallBackFails(c) \/ Dropped(c) PROVE IInv'
  BY <1>6, LeaveStep DEF FallBackFails, Dropped, Outcomes
<1>7. ASSUME NEW c \in Jobs, Start(c) PROVE IInv'
  BY <1>7, SpawnStep DEF Start
<1>8. ASSUME NEW c \in Jobs, FallBack(c) PROVE IInv'
  BY <1>8, SpawnStep DEF FallBack, Slow
<1>9. ASSUME NEW c \in Jobs, Processes(c) PROVE IInv'
  <2>1. /\ UNCHANGED <<limit, stage, ended, free, age, since>>
        /\ Active(c) /\ procs' \in [Jobs -> SUBSET Kinds]
        /\ \A d \in Jobs \ {c} : procs'[d] = procs[d]
    BY <1>9 DEF Processes, Fork, Detach, Exit, clock, Kinds, IInv, Types
  <2>2. Types' /\ Past' /\ DeadlineKept' /\ NoStrays'
    BY <2>1 DEF IInv, Types, Past, DeadlineKept, NoStrays, Active
  <2> QED
    BY <2>1, <2>2, StillStep
<1> QED
  BY <1>1, <1>2, <1>3, <1>4, <1>5, <1>6, <1>7, <1>8, <1>9, TickStep DEF ExecNext, Proceed

\* The invariant holds in every reachable state.
THEOREM Invariant == ExecSpec => []IInv
<1>1. ExecInit => IInv
  BY IInit, ExecAssumption
<1>2. IInv /\ [ExecNext]_execVars => IInv'
  BY IStep, ExecAssumption
<1> QED
  BY <1>1, <1>2, PTL DEF ExecSpec

\* Every slot of the semaphore is free or held by one running command.
THEOREM SlotsAlwaysKept == ExecSpec => []SlotsKept
<1>1. IInv => SlotsKept
  BY DEF IInv
<1> QED
  BY <1>1, Invariant, PTL

\* ExecRunner::within: no call outlives the call deadline.
THEOREM DeadlineAlwaysKept == ExecSpec => []DeadlineKept
<1>1. IInv => DeadlineKept
  BY DEF IInv
<1> QED
  BY <1>1, Invariant, PTL

\* KillGroup: a call that was stopped leaves no process running.
THEOREM NeverStrays == ExecSpec => []NoStrays
<1>1. IInv => NoStrays
  BY DEF IInv
<1> QED
  BY <1>1, Invariant, PTL
-----------------------------------------------------------------------------
(* Whose limit it was.                                                     *)

\* Nothing runs past the moment it is to be stopped.
InTime == \A c \in Jobs : Active(c) => age[c] <= since[c] + Room(since[c])

LEMMA InTimeStep == ASSUME ExecAssumption PROVE IInv /\ InTime /\ [ExecNext]_execVars => InTime'
<1> SUFFICES ASSUME IInv, InTime, [ExecNext]_execVars, NEW c \in Jobs, Active(c)'
             PROVE  age'[c] <= since'[c] + Room(since[c])'
  BY DEF InTime
<1>1. Types /\ Types' /\ Past /\ Past'
  BY IStep DEF IInv
<1>2. /\ age[c] \in Nat /\ since[c] \in Nat /\ since[c] <= age[c]
      /\ age'[c] \in Nat /\ since'[c] \in Nat
  BY <1>1 DEF Types, Past
<1>3. limit' = limit
  BY DEF ExecNext, Proceed, Processes, Ask, Refuse, Start, StartFails, NotStarted, Exited, Stop, FallBack,
         FallBackFails, Dropped, Fork, Detach, Exit, Tick, execVars
<1>4. \A a \in Nat : Room(a)' = Room(a) /\ Room(a) \in Nat
  BY <1>1, <1>3, RoomFits DEF Room, Own
<1>5. ASSUME stage'[c] = stage[c], age'[c] = age[c], since'[c] = since[c]
      PROVE  age'[c] <= since'[c] + Room(since[c])'
  BY <1>2, <1>3, <1>5 DEF InTime, Active, Room, Own
<1>6. ASSUME since'[c] = age'[c] PROVE age'[c] <= since'[c] + Room(since[c])'
  BY <1>2, <1>4, <1>6
<1>7. ASSUME NEW d \in Jobs, NEW o, Leave(d, o)
      PROVE  age'[c] <= since'[c] + Room(since[c])'
  BY <1>1, <1>5, <1>7 DEF Leave, Types, Active
<1>8. ASSUME NEW d \in Jobs, NEW p, SpawnCollect(d, p), age' = age
      PROVE  age'[c] <= since'[c] + Room(since[c])'
  <2>1. CASE d = c
    BY <1>1, <1>6, <1>8, <2>1 DEF SpawnCollect, Types
  <2>2. CASE d # c
    BY <1>1, <1>5, <1>8, <2>2 DEF SpawnCollect, Types
  <2> QED
    BY <2>1, <2>2
<1>9. CASE Tick
  <2>1. Active(c) /\ ~Overdue(c) /\ since'[c] = since[c] /\ age'[c] = age[c] + 1
    BY <1>1, <1>9 DEF Tick, Active, Pending
  <2>2. age[c] < since[c] + Room(since[c])
    BY <1>2, <1>4, <2>1 DEF Overdue
  <2>3. Room(since[c])' = Room(since[c])
    BY <1>3, <2>1 DEF Room, Own
  <2> QED
    BY <1>2, <1>4, <2>1, <2>2, <2>3
<1>10. ASSUME NEW d \in Jobs, Ask(d) PROVE age'[c] <= since'[c] + Room(since[c])'
  BY <1>1, <1>5, <1>10 DEF Ask, Types, Active, clock
<1>11. ASSUME NEW d \in Jobs, Processes(d) PROVE age'[c] <= since'[c] + Room(since[c])'
  BY <1>5, <1>11 DEF Processes, Fork, Detach, Exit, clock
<1>12. CASE UNCHANGED execVars
  BY <1>5, <1>12 DEF execVars
<1> QED
  BY <1>7, <1>8, <1>9, <1>10, <1>11, <1>12
  DEF ExecNext, Proceed, Refuse, Start, StartFails, NotStarted, Exited, Stop, FallBack, FallBackFails, Dropped

\* ExecRunner::within: the error names the limit that was met, to the tick.
THEOREM BlamedRightly == ExecSpec => BlameIsRight
<1> DEFINE Right == \A c \in Jobs : stage[c] # "done" /\ stage'[c] = "done" =>
             /\ ended'[c] = "timeout" => age[c] - since[c] = Own
             /\ ended'[c] = "deadline" => age[c] = limit.deadline /\ age[c] - since[c] < Own
             /\ ended'[c] = "notStarted" => age[c] = limit.deadline /\ procs[c] = {}
<1>1. ExecInit => InTime
  BY DEF ExecInit, InTime, Active
<1>2. ExecSpec => []InTime
  <2>1. IInv /\ InTime /\ [ExecNext]_execVars => InTime'
    BY InTimeStep, ExecAssumption
  <2> QED
    BY <1>1, <2>1, Invariant, PTL DEF ExecSpec
<1>3. ASSUME IInv, InTime, ExecNext PROVE Right
  <2> SUFFICES ASSUME NEW c \in Jobs, stage[c] # "done", stage'[c] = "done"
               PROVE  /\ ended'[c] = "timeout" => age[c] - since[c] = Own
                      /\ ended'[c] = "deadline" =>
                           age[c] = limit.deadline /\ age[c] - since[c] < Own
                      /\ ended'[c] = "notStarted" => age[c] = limit.deadline /\ procs[c] = {}
    OBVIOUS
  <2>1. /\ age[c] \in Nat /\ since[c] \in Nat /\ since[c] <= age[c] /\ ended[c] = "none"
        /\ Own \in Nat /\ limit.deadline \in Nat /\ Types
        /\ Room(since[c]) \in Nat /\ Room(since[c]) <= Own
    BY <1>3, LimitTypes, RoomFits, ExecAssumption DEF IInv, Types, Past, Early
  <2>2. ASSUME NEW d \in Jobs, NEW o, Leave(d, o) PROVE d = c /\ ended'[c] = o
    BY <2>1, <2>2 DEF Leave, Types
  <2>3. ASSUME NEW d \in Jobs, NEW p \in {"running", "quick", "queued"}, stage' = [stage EXCEPT ![d] = p]
        PROVE  FALSE
    BY <2>1, <2>3 DEF Types
  <2>4. CASE Stop(c)
    <3>1. age[c] = since[c] + Room(since[c])
      BY <1>3, <2>1, <2>4 DEF Stop, Overdue, InTime
    <3>2. ended'[c] = Blame(since[c])
      BY <2>2, <2>4 DEF Stop
    <3>3. CASE Room(since[c]) < Own
      <4>1. limit.deadline > 0 /\ since[c] <= limit.deadline
        BY <1>3, <2>1, <3>3 DEF Room, IInv, DeadlineKept
      <4>2. Room(since[c]) = limit.deadline - since[c]
        BY <2>1, <3>3, <4>1 DEF Room
      <4> QED
        BY <2>1, <3>1, <3>2, <3>3, <4>1, <4>2 DEF Blame
    <3>4. CASE ~(Room(since[c]) < Own)
      BY <2>1, <3>1, <3>2, <3>4 DEF Blame
    <3> QED
      BY <3>3, <3>4
  <2>5. CASE NotStarted(c)
    <3>1. stage[c] = "queued" /\ limit.deadline > 0 /\ age[c] >= limit.deadline
      BY <2>5 DEF NotStarted, Waited
    <3>2. procs[c] = {} /\ age[c] <= limit.deadline
      BY <1>3, <2>1, <3>1 DEF IInv, NoStrays, DeadlineKept
    <3>3. ended'[c] = "notStarted"
      BY <2>2, <2>5 DEF NotStarted
    <3> QED
      BY <2>1, <3>1, <3>2, <3>3
  <2>6. CASE \E d \in Jobs : Refuse(d) \/ StartFails(d) \/ Exited(d) \/ FallBackFails(d) \/ Dropped(d)
    BY <2>2, <2>6 DEF Refuse, StartFails, Exited, FallBackFails, Dropped
  <2>7. ~Tick /\ \A d \in Jobs : ~Ask(d) /\ ~Start(d) /\ ~FallBack(d) /\ ~Processes(d)
    BY <2>3 DEF Tick, Ask, Start, FallBack, SpawnCollect, Processes, Fork, Detach, Exit
  <2>8. \A d \in Jobs : Stop(d) \/ NotStarted(d) => d = c
    BY <2>2 DEF Stop, NotStarted
  <2> QED
    BY <1>3, <2>4, <2>5, <2>6, <2>7, <2>8 DEF ExecNext, Proceed
<1>4. IInv /\ InTime /\ [ExecNext]_execVars => [Right]_execVars
  BY <1>3
<1>5. ExecSpec => [][Right]_execVars
  BY <1>2, <1>4, Invariant, PTL DEF ExecSpec
<1> QED
  BY <1>5 DEF BlameIsRight
-----------------------------------------------------------------------------
(* Types.                                                                  *)

\* Leaving the queue leaves a queue.
LEMMA Dequeued ==
  ASSUME NEW s \in Seq(Jobs), NEW i \in 1..Len(s) PROVE RemoveAt(s, i) \in Seq(Jobs)
<1>1. Len(s) \in Nat /\ \A k \in 1..Len(s) : s[k] \in Jobs
  BY LenProperties, ElementOfSeq
<1>2. SubSeq(s, 1, i - 1) \in Seq(Jobs) /\ SubSeq(s, i + 1, Len(s)) \in Seq(Jobs)
  BY <1>1, SubSeqProperties
<1> QED
  BY <1>2, ConcatProperties DEF RemoveAt

\* The types of what exec.rs keeps.
THEOREM TypesKept == ExecSpec => []ExecTypes
<1> DEFINE Queue == queue \in Seq(Jobs)
<1>1. ExecInit => Queue
  BY DEF ExecInit
<1>2. ASSUME Queue, [ExecNext]_execVars PROVE Queue'
  <2>1. ASSUME NEW c \in Jobs, Unqueue(c) PROVE Queue'
    BY <1>2, <2>1, Dequeued, LenProperties DEF Unqueue
  <2>2. ASSUME NEW c \in Jobs, Ask(c) PROVE Queue'
    BY <1>2, <2>2, AppendProperties DEF Ask
  <2>3. ASSUME NEW c \in Jobs, Start(c) \/ StartFails(c) PROVE Queue'
    BY <1>2, <2>3, HeadTailProperties DEF Start, StartFails
  <2>4. CASE UNCHANGED queue
    BY <1>2, <2>4
  <2> QED
    BY <1>2, <2>1, <2>2, <2>3, <2>4
    DEF ExecNext, Proceed, Processes, Refuse, NotStarted, Exited, Stop, FallBack, FallBackFails, Dropped,
        Fork, Detach, Exit, Tick, execVars
<1>3. ExecSpec => []Queue
  BY <1>1, <1>2, PTL DEF ExecSpec
<1>4. ASSUME IInv, Queue PROVE ExecTypes
  <2>1. Cardinality(Running) \in Nat
    BY FS_Subset, FS_CardinalityType, ExecAssumption DEF Running
  <2>2. free \in 0..Slots
    BY <1>4, <2>1, ExecAssumption DEF IInv, Types, SlotsKept, Running
  <2> QED
    BY <1>4, <2>2 DEF IInv, Types, ExecTypes
<1> QED
  BY <1>3, <1>4, Invariant, PTL
=============================================================================
