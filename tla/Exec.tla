-------------------------------- MODULE Exec --------------------------------
(***************************************************************************)
(* Running a tool's command (actions/exec.rs): the slots of one tool, the  *)
(* queue for them, the limits a call is under (the call deadline, the      *)
(* command's own timeout, the moment the fallback takes over) and the      *)
(* processes it starts.  Time is in ticks; a timer that is due, and a slot *)
(* that is free, is taken notice of before the next tick.  The three       *)
(* limits are the tool's, chosen in Init.                                  *)
(***************************************************************************)
EXTENDS Naturals, Sequences, SequencesExt, FiniteSets

CONSTANTS
  Jobs,    \* calls to the tool
  Slots,   \* max_concurrency
  Limits   \* what a configuration may say: timeout, deadline and after; 0 is none

ASSUME ExecAssumption ==
  /\ Slots \in Nat \ {0} /\ IsFiniteSet(Jobs)
  /\ Limits \subseteq [timeout : Nat, deadline : Nat, after : Nat]
  /\ \A l \in Limits : l.deadline > 0 => l.after < l.deadline   \* Config::validate

VARIABLES
  limit,    \* timeout_secs, call_deadline_secs and the fallback's after_secs
  stage,    \* where each call is: its command runs, or its fallback, "quick"
  ended,    \* how it ended
  queue,    \* the calls waiting for a slot, first come first served
  free,     \* permits of the semaphore
  age,      \* ticks since a call came in; 0 again when it is done
  since,    \* the age at which its command, or its fallback, was started
  procs     \* its live processes

execVars == <<limit, stage, ended, queue, free, age, since, procs>>
clock    == <<age, since>>

\* The process started, one it started in turn, and one that has closed the pipes.
Kinds == {"leader", "worker", "detached"}

Own == IF limit.timeout = 0 THEN 1 ELSE limit.timeout

\* Mutant: the command's time is not cut to what is left.
RoomWhole(a) == Own

\* What a process started at age a may take: its own timeout or what is left
\* of the deadline, whichever is less.
Room(a) == LET left == IF a < limit.deadline THEN limit.deadline - a ELSE 0
           IN  IF limit.deadline > 0 /\ left < Own THEN left ELSE Own

Blame(a) == IF Room(a) < Own THEN "deadline" ELSE "timeout"

Active(c)  == stage[c] \in {"running", "quick"}
Overdue(c) == Active(c) /\ age[c] >= since[c] + Room(since[c])
Waited(c)  == stage[c] = "queued" /\ limit.deadline > 0 /\ age[c] >= limit.deadline
Slow(c)    == stage[c] \in {"queued", "running"} /\ limit.after > 0 /\ age[c] >= limit.after

\* A future that is dropped leaves the semaphore's queue, if it was in it.
Unqueue(c) == \/ stage[c] # "queued" /\ UNCHANGED queue
              \/ \E i \in DOMAIN queue : queue[i] = c /\ queue' = RemoveAt(queue, i)
GiveBack(c) == free' = IF stage[c] = "running" THEN free + 1 ELSE free

Leave(c, o) == /\ stage' = [stage EXCEPT ![c] = "done"]
               /\ ended' = [ended EXCEPT ![c] = o]
               /\ age' = [age EXCEPT ![c] = 0] /\ since' = [since EXCEPT ![c] = 0]

SpawnCollect(c, p) == /\ stage' = [stage EXCEPT ![c] = p]
                      /\ since' = [since EXCEPT ![c] = age[c]]
                      /\ procs' = [procs EXCEPT ![c] = {"leader"}]

\* Mutant: only the process that was started is killed.
KillLeader(c) == procs' = [procs EXCEPT ![c] = @ \ {"leader"}]

\* KillGroup's drop: the leader and everything in its process group.
KillGroup(c) == procs' = [procs EXCEPT ![c] = {}]

ExecInit == /\ limit \in Limits
            /\ stage = [c \in Jobs |-> "idle"]
            /\ ended = [c \in Jobs |-> "none"]
            /\ queue = <<>> /\ free = Slots
            /\ age = [c \in Jobs |-> 0]
            /\ since = [c \in Jobs |-> 0]
            /\ procs = [c \in Jobs |-> {}]
-----------------------------------------------------------------------------
(* The life of a call.                                                     *)

\* run: the clock starts and the call asks for a slot.
Ask(c) == /\ stage[c] = "idle"
          /\ stage' = [stage EXCEPT ![c] = "queued"]
          /\ queue' = Append(queue, c)
          /\ UNCHANGED <<limit, ended, free, clock, procs>>

\* run: an argument is missing or refused, so nothing is started.
Refuse(c) == /\ stage[c] = "idle"
             /\ Leave(c, "failed")
             /\ UNCHANGED <<limit, queue, free, procs>>

\* run_queued, with a slot: spawn_collect starts the command.
Start(c) == /\ stage[c] = "queued" /\ queue # <<>> /\ c = Head(queue) /\ free > 0
            /\ queue' = Tail(queue)
            /\ free' = free - 1
            /\ SpawnCollect(c, "running")
            /\ UNCHANGED <<limit, ended, age>>

\* The command cannot be started; the slot goes back at once.
StartFails(c) == /\ stage[c] = "queued" /\ queue # <<>> /\ c = Head(queue) /\ free > 0
                 /\ queue' = Tail(queue)
                 /\ Leave(c, "failed")
                 /\ UNCHANGED <<limit, free, procs>>

\* The deadline passes in the queue.
NotStarted(c) == /\ Waited(c)
                 /\ Unqueue(c)
                 /\ Leave(c, "notStarted")
                 /\ UNCHANGED <<limit, free, procs>>

\* Both pipes are at their end and the leader has exited.
Exited(c) == /\ Active(c) /\ procs[c] \subseteq {"detached"}
             /\ \E o \in {"ok", "failed"} : Leave(c, o)
             /\ GiveBack(c)
             /\ UNCHANGED <<limit, queue, procs>>

\* Mutant: whenever there is a deadline it is blamed.
StopBlames(c) == /\ Overdue(c)
                 /\ Leave(c, IF limit.deadline > 0 THEN "deadline" ELSE "timeout")
                 /\ GiveBack(c) /\ KillGroup(c)
                 /\ UNCHANGED <<limit, queue>>

\* The command's time is up.
Stop(c) == /\ Overdue(c)
           /\ Leave(c, Blame(since[c]))
           /\ GiveBack(c) /\ KillGroup(c)
           /\ UNCHANGED <<limit, queue>>

\* after_secs have passed: the command, or the wait for a slot, is dropped,
\* and the fallback started, without a slot.
FallBack(c) == /\ Slow(c)
               /\ Unqueue(c) /\ GiveBack(c)
               /\ SpawnCollect(c, "quick")
               /\ UNCHANGED <<limit, ended, age>>

\* ... or it cannot be started.
FallBackFails(c) == /\ Slow(c)
                    /\ Unqueue(c) /\ GiveBack(c)
                    /\ Leave(c, "failed") /\ KillGroup(c)
                    /\ UNCHANGED limit

\* The client hangs up and the call's future is dropped.
Dropped(c) == /\ stage[c] = "queued" \/ Active(c)
              /\ Unqueue(c) /\ GiveBack(c)
              /\ Leave(c, "dropped") /\ KillGroup(c)
              /\ UNCHANGED limit
-----------------------------------------------------------------------------
(* The processes, while a call has an interest in them, and the clock.     *)

Fork(c) == /\ "leader" \in procs[c] /\ Active(c)
           /\ procs' = [procs EXCEPT ![c] = @ \cup {"worker"}]
           /\ UNCHANGED <<limit, stage, ended, queue, free, clock>>

Detach(c) == /\ "worker" \in procs[c] /\ Active(c)
             /\ procs' = [procs EXCEPT ![c] = (@ \ {"worker"}) \cup {"detached"}]
             /\ UNCHANGED <<limit, stage, ended, queue, free, clock>>

Exit(c, p) == /\ p \in procs[c] /\ Active(c)
              /\ procs' = [procs EXCEPT ![c] = @ \ {p}]
              /\ UNCHANGED <<limit, stage, ended, queue, free, clock>>

Pending(c) == stage[c] = "queued" \/ Active(c)

Tick == /\ \E c \in Jobs : Pending(c)
        /\ ~(queue # <<>> /\ free > 0)
        /\ \A c \in Jobs : ~Overdue(c) /\ ~Waited(c) /\ ~Slow(c)
        /\ age' = [c \in Jobs |-> IF Pending(c) THEN age[c] + 1 ELSE age[c]]
        /\ UNCHANGED <<limit, stage, ended, queue, free, since, procs>>

Proceed(c) == \/ Start(c) \/ StartFails(c) \/ NotStarted(c) \/ Exited(c)
              \/ Stop(c) \/ FallBack(c) \/ FallBackFails(c)

Processes(c) == \/ Fork(c) \/ Detach(c) \/ \E p \in Kinds : Exit(c, p)

ExecNext == Tick \/ \E c \in Jobs : Ask(c) \/ Refuse(c) \/ Proceed(c) \/ Dropped(c) \/ Processes(c)

ExecSpec == ExecInit /\ [][ExecNext]_execVars
-----------------------------------------------------------------------------
(* Properties.                                                             *)

Places   == {"idle", "queued", "running", "quick", "done"}
Outcomes == {"none", "ok", "failed", "notStarted", "deadline", "timeout", "dropped"}

ExecTypes == /\ limit \in Limits
             /\ stage \in [Jobs -> Places] /\ ended \in [Jobs -> Outcomes]
             /\ queue \in Seq(Jobs) /\ free \in 0..Slots
             /\ age \in [Jobs -> Nat] /\ since \in [Jobs -> Nat]
             /\ procs \in [Jobs -> SUBSET Kinds]

\* Every slot is free or taken by one command that runs: calls that time out,
\* fall back, hang up or cannot start, queued or not, give back what they had
\* and no more.
SlotsKept == free + Cardinality({c \in Jobs : stage[c] = "running"}) = Slots

\* ExecRunner::within: a call with a deadline is over by then, whatever it
\* spent in the queue, in its command and in its fallback.
DeadlineKept ==
  limit.deadline > 0 => \A c \in Jobs : age[c] <= limit.deadline

\* KillGroup: a call that was stopped or abandoned leaves nothing running, and
\* one that finished only what let go of its pipes.
NoStrays ==
  \A c \in Jobs : stage[c] \in {"idle", "queued", "done"} =>
     procs[c] \subseteq IF ended[c] \in {"ok", "failed"} THEN {"detached"} ELSE {}

\* The error names the limit that was met: a call "timed out" after the whole of
\* its own timeout, was "stopped" at the deadline, and "was not started" if it
\* spent the deadline in the queue.
BlameIsRight ==
  [][ \A c \in Jobs : stage[c] # "done" /\ stage'[c] = "done" =>
        /\ ended'[c] = "timeout" => age[c] - since[c] = Own
        /\ ended'[c] = "deadline" => age[c] = limit.deadline /\ age[c] - since[c] < Own
        /\ ended'[c] = "notStarted" => age[c] = limit.deadline /\ procs[c] = {} ]_execVars
=============================================================================
