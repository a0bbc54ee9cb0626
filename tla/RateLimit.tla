----------------------------- MODULE RateLimit -----------------------------
(***************************************************************************)
(* The rate limiter of one tool (actions/proxy.rs) and the way dispatch    *)
(* uses it (actions/mod.rs): a mutex over the instants of recent calls,    *)
(* kept from acquire to the end of the call.  A call records one instant   *)
(* at most, held as its age in ticks, no older than the window: older ones *)
(* are all alike.                                                          *)
(***************************************************************************)
EXTENDS Integers, Sequences, FiniteSets, SequencesExt

CONSTANTS
  Callers,   \* calls to the tool, each made once
  PerHour,   \* limit.per_hour
  Spacing,   \* limit.min_spacing_secs, in ticks
  Window,    \* the hour, in ticks
  NoOne      \* nobody holds the lock

ASSUME RateAssumption == /\ PerHour \in Nat /\ Spacing \in Nat
                         /\ Window \in Nat \ {0}
                         /\ NoOne \notin Callers

VARIABLES
  pc,       \* where each call is
  outcome,  \* how it ended, "none" until it has
  queue,    \* the callers waiting for the lock, first come first served
  holder,   \* who holds the lock
  recent,   \* the age of each call's record, Window if it has none that counts
  last,     \* whose record is the last
  sleep,    \* ticks the holder still has to sleep
  hits      \* history: the age of each request that went upstream

vars == <<pc, outcome, queue, holder, recent, last, sleep, hits>>

Older(a) == IF a < Window THEN a + 1 ELSE Window

\* What retain() leaves in the window.
Live     == {c \in Callers : recent[c] < Window}

Leave(c, o) == /\ pc' = [pc EXCEPT ![c] = "done"]
               /\ outcome' = [outcome EXCEPT ![c] = o]

Init == /\ pc = [c \in Callers |-> "idle"]
        /\ outcome = [c \in Callers |-> "none"]
        /\ queue = <<>> /\ recent = [c \in Callers |-> Window] /\ last = NoOne
        /\ holder = NoOne /\ sleep = 0
        /\ hits = [c \in Callers |-> Window]

\* acquire: ask for the lock.
Ask(c) == /\ pc[c] = "idle"
          /\ pc' = [pc EXCEPT ![c] = "queued"]
          /\ queue' = Append(queue, c)
          /\ UNCHANGED <<outcome, holder, recent, last, sleep, hits>>

\* With the lock: what the window has passed is forgotten, and the call refused
\* if the cap is spent.  The refusal drops the lock at once.
Refuse(c) == /\ queue # <<>> /\ c = Head(queue) /\ holder = NoOne
             /\ queue' = Tail(queue)
             /\ Cardinality(Live) >= PerHour
             /\ Leave(c, "limited")
             /\ UNCHANGED <<holder, recent, last, sleep, hits>>

\* What is left of the spacing after the last record.
Rest == IF last \in Live /\ recent[last] < Spacing THEN Spacing - recent[last] ELSE 0

\* Mutant: the cap is off by one.
AcquireOneMore(c) == /\ queue # <<>> /\ c = Head(queue) /\ holder = NoOne
                     /\ queue' = Tail(queue)
                     /\ Cardinality(Live) <= PerHour
                     /\ holder' = c /\ sleep' = Rest
                     /\ pc' = [pc EXCEPT ![c] = "spacing"]
                     /\ UNCHANGED <<outcome, recent, last, hits>>

\* Otherwise keep the lock, and sleep out what is left of the spacing.
Acquire(c) == /\ queue # <<>> /\ c = Head(queue) /\ holder = NoOne
              /\ queue' = Tail(queue)
              /\ Cardinality(Live) < PerHour
              /\ holder' = c /\ sleep' = Rest
              /\ pc' = [pc EXCEPT ![c] = "spacing"]
              /\ UNCHANGED <<outcome, recent, last, hits>>

\* Mutant: the sleep is not awaited.
ActAtOnce(c) == /\ pc[c] = "spacing"
                /\ pc' = [pc EXCEPT ![c] = "acting"]
                /\ hits' = [hits EXCEPT ![c] = 0]
                /\ UNCHANGED <<outcome, queue, holder, recent, last, sleep>>

\* The sleep is over: the action runs, still under the lock.
Act(c) == /\ pc[c] = "spacing" /\ sleep = 0
          /\ pc' = [pc EXCEPT ![c] = "acting"]
          /\ hits' = [hits EXCEPT ![c] = 0]
          /\ UNCHANGED <<outcome, queue, holder, recent, last, sleep>>

\* The action succeeded: commit records the instant and gives up the lock.
Succeed(c) == /\ pc[c] = "acting"
              /\ recent' = [recent EXCEPT ![c] = 0] /\ last' = c
              /\ holder' = NoOne
              /\ Leave(c, "ok")
              /\ UNCHANGED <<queue, sleep, hits>>

\* Mutant: the lock is not given back by a call that failed.
FailKeepsLock(c) == /\ pc[c] = "acting"
                    /\ Leave(c, "failed")
                    /\ UNCHANGED <<queue, holder, recent, last, sleep, hits>>

\* It failed: the guard is dropped and nothing is recorded.
Fail(c) == /\ pc[c] = "acting"
           /\ holder' = NoOne
           /\ Leave(c, "failed")
           /\ UNCHANGED <<queue, recent, last, sleep, hits>>

\* The client hangs up wherever the call waits: in the queue, asleep, or for
\* the action.
HangUp(c) == /\ pc[c] \in {"queued", "spacing", "acting"}
             /\ \/ \E i \in DOMAIN queue : queue[i] = c /\ queue' = RemoveAt(queue, i)
                \/ pc[c] # "queued" /\ UNCHANGED queue
             /\ holder' = IF holder = c THEN NoOne ELSE holder
             /\ sleep' = IF holder = c THEN 0 ELSE sleep
             /\ Leave(c, "dropped")
             /\ UNCHANGED <<recent, last, hits>>

Tick == /\ recent' = [c \in Callers |-> Older(recent[c])]
        /\ hits' = [c \in Callers |-> Older(hits[c])]
        /\ sleep' = IF sleep > 0 THEN sleep - 1 ELSE 0
        /\ UNCHANGED <<pc, outcome, queue, holder, last>>

Call(c) == \/ Ask(c) \/ Refuse(c) \/ Acquire(c) \/ Act(c)
           \/ Succeed(c) \/ Fail(c) \/ HangUp(c)

Next == Tick \/ \E c \in Callers : Call(c)

Spec == Init /\ [][Next]_vars

\* Time passes, ready tasks run, and every action ends, by its own timeout if
\* nothing else.
FairSpec == /\ Spec
            /\ WF_vars(Tick)
            /\ \A c \in Callers : /\ WF_vars(Refuse(c) \/ Acquire(c))
                                  /\ WF_vars(Act(c))
                                  /\ WF_vars(Succeed(c) \/ Fail(c))
-----------------------------------------------------------------------------
(* Properties.                                                             *)

TypeOK == /\ pc \in [Callers -> {"idle", "queued", "spacing", "acting", "done"}]
          /\ outcome \in [Callers -> {"none", "ok", "limited", "failed", "dropped"}]
          /\ queue \in Seq(Callers)
          /\ holder \in Callers \cup {NoOne}
          /\ recent \in [Callers -> 0..Window] /\ last \in Callers \cup {NoOne}
          /\ sleep \in 0..Spacing
          /\ hits \in [Callers -> 0..Window]

\* The upstream sees no more than the cap of successful requests in any one
\* window, the one under way included, although each is recorded long after
\* the cap was checked for it and some are recorded long after they went out.
CapKept ==
  Cardinality({c \in Callers : /\ hits[c] < Window
                               /\ outcome[c] = "ok" \/ pc[c] = "acting"}) <= PerHour

\* No request goes out while the last recorded call is more recent than the
\* spacing, or while another call of the tool is under way.
SpacingBeforeAct ==
  [][ \A c \in Callers : pc[c] = "spacing" /\ pc'[c] = "acting" =>
        /\ \A d \in Live : recent[d] >= Spacing
        /\ \A d \in Callers \ {c} : pc[d] \notin {"spacing", "acting"} ]_vars

\* Everyone who asks is let through, refused, or leaves: no call that failed
\* or was abandoned keeps the lock.
EveryCallerEnds == \A c \in Callers : pc[c] = "queued" ~> pc[c] = "done"
=============================================================================
