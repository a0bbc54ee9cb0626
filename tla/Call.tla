-------------------------------- MODULE Call --------------------------------
(***************************************************************************)
(* The single path of a tool call (run_call in mcp.rs): the policy, the    *)
(* hold, the action and the row.  The action is a command, which keeps the *)
(* call deadline (Exec), or a request to another MCP server over the       *)
(* session all calls share (upstreams/mcp.rs), which the health probe uses *)
(* too and the server may forget at any time.  Holding is Approval's       *)
(* matter, and rate limits and idempotency keys have modules of their own. *)
(***************************************************************************)
EXTENDS Integers, FiniteSets

CONSTANTS
  Calls,
  Fires,        \* for each, who may ask for what, and what the policy says of it
  Probe,        \* the health probe
  NoOne,        \* nobody holds the session's lock
  Deadline,     \* call_deadline_secs, in ticks
  Timeout       \* approvals.timeout_secs

ASSUME CallAssumption ==
  /\ \A c \in Calls : Fires[c] \subseteq
       [by : {"client", "hand"}, says : {"allow", "ask", "deny"},
        tool : {"unknown", "command", "read", "write"},   \* "read" is read_only
        once : BOOLEAN]                                   \* idempotent
  /\ Deadline \in Nat \ {0} /\ Timeout \in Nat \ {0}
  /\ Probe \notin Calls /\ NoOne \notin Calls \cup {Probe}

Actors == Calls \cup {Probe}

VARIABLES
  pc,       \* where each call, and the probe, is
  call,     \* who makes it, of which tool, and what the policy says of it
  age,      \* ticks since it came in, and since its hold or command began
  asked,    \* the answer its hold was given
  row,      \* the log row it wrote
  acts,     \* how often it took effect
  try,      \* which request of its rpc this is, and the session it carries;
            \* history: the server has forgotten since it first refused it
  session,  \* what an introduction left behind, and whether the server still knows it
  lock,     \* who holds the session's lock
  stateful, \* the server hands out sessions
  wire      \* requests on their way to the server

vars   == <<pc, call, age, asked, row, acts, try, session, lock, stateful, wire>>
path   == <<call, age, asked, row, acts>>

NoCall == [by |-> "client", tool |-> "unknown", says |-> "deny", once |-> FALSE]
Started == [all |-> 0, part |-> 0]
NoTry   == [n |-> 0, sid |-> "none", again |-> FALSE]
Live(c) == pc[c] \notin {"idle", "done", "gone"}

Init == /\ pc = [a \in Actors |-> "idle"] /\ call = [c \in Calls |-> NoCall]
        /\ age = [c \in Calls |-> Started]
        /\ asked = [c \in Calls |-> "none"] /\ row = [c \in Calls |-> "none"]
        /\ acts = [c \in Calls |-> 0]
        /\ try = [a \in Actors |-> NoTry]
        /\ session = "none" /\ lock = NoOne /\ stateful \in BOOLEAN /\ wire = {}

Go(a, p)  == pc' = [pc EXCEPT ![a] = p]

\* How it ended, for the caller and in the log.
End(c, r) == /\ Go(c, "done") /\ row' = [row EXCEPT ![c] = r]
             /\ age' = [age EXCEPT ![c] = Started] /\ try' = [try EXCEPT ![c] = NoTry]

-----------------------------------------------------------------------------
(* run_call: decide.                                                       *)

\* Mutant: a write fired by hand goes by the policy.
DecisionByPolicy(k) ==
  IF k.tool = "unknown" THEN "unknown"
  ELSE IF k.says = "deny" THEN "deny"
  ELSE IF k.by = "hand" /\ k.tool = "read" THEN "allow" ELSE k.says

\* The tool, then the policy (a lookup that fails denies), then the origin.
Decision(k) == IF k.tool = "unknown" THEN "unknown"
               ELSE IF k.says = "deny" THEN "deny"
               ELSE IF k.by = "client" THEN k.says
               ELSE IF k.tool = "read" THEN "allow" ELSE "ask"

\* Mutant: the hold does not know of the deadline.
WaitWhole(k) == Timeout

\* A client's hold leaves a second of the deadline for the answer.
Wait(k) == IF k.by = "client" /\ Deadline - 1 < Timeout THEN Deadline - 1 ELSE Timeout

Decide(c) ==
  /\ pc[c] = "idle"
  /\ \E k \in Fires[c] :
        LET d == Decision(k) IN
        /\ call' = [call EXCEPT ![c] = k]
        /\ \/ d = "allow" /\ Go(c, "deciding") /\ UNCHANGED <<age, row, try>>
           \/ d = "ask" /\ Wait(k) > 0 /\ Go(c, "held") /\ UNCHANGED <<age, row, try>>
           \/ d = "ask" /\ Wait(k) = 0 /\ End(c, "approval_timeout")
           \/ d \notin {"allow", "ask"} /\ End(c, d)
  /\ UNCHANGED <<asked, acts, session, lock, stateful, wire>>

\* The hold's outcome: allowed, or a row that says what it was.
Answer(c) ==
  /\ pc[c] = "held"
  /\ \E o \in {"allow", "deny", "shutdown"} :
        /\ asked' = [asked EXCEPT ![c] = o]
        /\ IF o = "allow" THEN Go(c, "deciding") /\ UNCHANGED <<age, row, try>> ELSE End(c, o)
  /\ UNCHANGED <<call, acts, session, lock, stateful, wire>>

Overdue(c) == pc[c] = "held" /\ age[c].part >= Wait(call[c])

\* Mutant: a hold nobody answered lets the call through.
ExpireThrough(c) ==
  /\ Overdue(c)
  /\ Go(c, "deciding") /\ row' = [row EXCEPT ![c] = "approval_timeout"]
  /\ UNCHANGED <<call, age, asked, acts, try, session, lock, stateful, wire>>

Expire(c) ==
  /\ Overdue(c)
  /\ End(c, "approval_timeout")
  /\ UNCHANGED <<call, asked, acts, session, lock, stateful, wire>>

\* dispatch: the arguments, the key or the limiter refuse it, its key has a
\* result already, a command runs, or the rpc begins.
Dispatch(c) ==
  /\ pc[c] = "deciding"
  /\ \/ End(c, "failed")
     \/ call[c].once /\ End(c, "replayed")
     \/ /\ Go(c, IF call[c].tool = "command" THEN "running" ELSE "entering")
        /\ age' = [age EXCEPT ![c] = IF call[c].tool = "command" THEN [@ EXCEPT !.part = 0] ELSE Started]
        /\ try' = [try EXCEPT ![c].n = 1] /\ UNCHANGED row
  /\ UNCHANGED <<call, asked, acts, session, lock, stateful, wire>>

\* Exec ends a command within the deadline of its own start.
Run(c) == /\ pc[c] = "running" /\ acts[c] = 0
          /\ acts' = [acts EXCEPT ![c] = 1]
          /\ UNCHANGED <<pc, call, age, asked, row, try, session, lock, stateful, wire>>

Ran(c) == /\ pc[c] = "running"
          /\ \/ acts[c] = 1 /\ End(c, "ok")
             \/ End(c, "failed")
          /\ UNCHANGED <<call, asked, acts, session, lock, stateful, wire>>

-----------------------------------------------------------------------------
(* McpUpstream: introducing ourselves under the lock, and one request.     *)

\* A call's rpc failed, or the probe's did.
Give(a, r) == IF a \in Calls THEN End(a, r)
              ELSE Go(a, "done") /\ try' = [try EXCEPT ![a] = NoTry] /\ UNCHANGED <<row, age>>

Post(a, sid) == /\ Go(a, "posted")
                /\ try' = [try EXCEPT ![a].sid = sid]
                /\ wire' = wire \cup {[by |-> a, n |-> try[a].n, sid |-> sid]}

\* ensure_session, once it has the lock.
Enter(a) ==
  /\ pc[a] = "entering" /\ lock = NoOne
  /\ IF session # "none" THEN Post(a, session) /\ UNCHANGED lock
     ELSE Go(a, "introducing") /\ lock' = a /\ UNCHANGED <<try, wire>>
  /\ UNCHANGED <<path, session, stateful>>

\* The server answers `initialize`; its notification carries the session.
Introduce(a) ==
  /\ pc[a] = "introducing"
  /\ Go(a, "notifying") /\ try' = [try EXCEPT ![a].sid = "known"]
  /\ UNCHANGED <<path, session, lock, stateful, wire>>

Rejects(sid) == stateful /\ sid = "forgotten"

\* Only then is the session kept.
Introduced(a) ==
  /\ pc[a] = "notifying" /\ ~Rejects(try[a].sid)
  /\ session' = try[a].sid /\ lock' = NoOne /\ Post(a, try[a].sid)
  /\ UNCHANGED <<path, stateful>>

\* Unreachable, an error, an answer that is none, the timeout.
IntroFails(a) ==
  /\ pc[a] \in {"introducing", "notifying"}
  /\ lock' = NoOne /\ Give(a, "failed")
  /\ UNCHANGED <<call, asked, acts, session, stateful, wire>>

Waits(m) == pc[m.by] = "posted" /\ try[m.by].n = m.n

\* The server takes a request, whether or not anyone waits for its answer.
Take(m) ==
  /\ m \in wire /\ wire' = wire \ {m}
  /\ acts' = IF m.by \in Calls /\ ~Rejects(m.sid) THEN [acts EXCEPT ![m.by] = @ + 1] ELSE acts
  /\ IF Waits(m) THEN Go(m.by, IF Rejects(m.sid) THEN "rejected" ELSE "answered") ELSE UNCHANGED pc
  /\ UNCHANGED <<call, age, asked, row, try, session, lock, stateful>>

\* Mutant: whatever went wrong, the request is sent again.
LostResends(a) ==
  /\ pc[a] \in {"posted", "answered", "rejected"}
  /\ IF try[a].n = 1 THEN Go(a, "stale") /\ UNCHANGED <<row, age, try>> ELSE Give(a, "failed")
  /\ UNCHANGED <<call, asked, acts, session, lock, stateful, wire>>

\* Its answer does not come, cannot be read, or is not success.
Lost(a) ==
  /\ pc[a] \in {"posted", "answered", "rejected"}
  /\ Give(a, "failed")
  /\ UNCHANGED <<call, asked, acts, session, lock, stateful, wire>>

\* The row takes `replayed` from the answer, and only an idempotent tool's
\* answer has the gateway's own word in that place.
Answered(a) ==
  /\ pc[a] = "answered"
  /\ \/ Give(a, "ok")
     \/ a \in Calls /\ ~call[a].once /\ Give(a, "replayed")
  /\ UNCHANGED <<call, asked, acts, session, lock, stateful, wire>>

\* StaleSession, by its type: once, and only when a session was presented.
Rejected(a) ==
  /\ pc[a] = "rejected"
  /\ IF try[a].n = 1
     THEN Go(a, "stale") /\ try' = [try EXCEPT ![a].again = FALSE] /\ UNCHANGED <<row, age>>
     ELSE Give(a, "stale")
  /\ UNCHANGED <<call, asked, acts, session, lock, stateful, wire>>

\* Mutant: the session is left where it is.
ForgetNothing(a) ==
  /\ pc[a] = "stale" /\ lock = NoOne
  /\ Go(a, "entering") /\ try' = [try EXCEPT ![a].n = 2, ![a].sid = "none"]
  /\ UNCHANGED <<path, session, lock, stateful, wire>>

\* rpc forgets the session, perhaps a newer one, and introduces itself again.
Forget(a) ==
  /\ pc[a] = "stale" /\ lock = NoOne
  /\ session' = "none"
  /\ Go(a, "entering") /\ try' = [try EXCEPT ![a].n = 2, ![a].sid = "none"]
  /\ UNCHANGED <<path, lock, stateful, wire>>

\* Mutant: an abandoned introduction keeps the lock.
ReleaseNothing(a) == UNCHANGED lock

Release(a) == lock' = IF lock = a THEN NoOne ELSE lock

HangUp(c) ==
  /\ Live(c) /\ call[c].by = "client"
  /\ Go(c, "gone") /\ Release(c)
  /\ age' = [age EXCEPT ![c] = Started] /\ try' = [try EXCEPT ![c] = NoTry]
  /\ UNCHANGED <<call, asked, row, acts, session, stateful, wire>>

\* unhealthy(): a ping with three seconds to answer, again and again.
Ping == /\ pc[Probe] \in {"idle", "done"}
        /\ Go(Probe, "entering") /\ try' = [try EXCEPT ![Probe].n = 1]
        /\ wire' = {m \in wire : m.by # Probe}
        /\ UNCHANGED <<path, session, lock, stateful>>

PingTimeout == /\ pc[Probe] \notin {"idle", "done"}
               /\ Give(Probe, "failed") /\ Release(Probe)
               /\ UNCHANGED <<call, asked, acts, session, stateful, wire>>

Forgotten(sid) == IF sid = "known" THEN "forgotten" ELSE sid

\* It restarts, or lets its sessions expire.
ServerForgets ==
  /\ stateful
  /\ session' = Forgotten(session)
  /\ wire' = {[m EXCEPT !.sid = Forgotten(m.sid)] : m \in {w \in wire : Waits(w)}}
  /\ try' = [a \in Actors |-> [try[a] EXCEPT !.sid = Forgotten(@),
                                             !.again = pc[a] = "stale" \/ try[a].n = 2]]
  /\ UNCHANGED <<pc, path, lock, stateful>>

\* A hold or a command that is due ends before the next tick.
Due(c) == Overdue(c) \/ (pc[c] = "running" /\ age[c].part >= Deadline)

Tick == /\ \A c \in Calls : ~Due(c) /\ pc[c] # "deciding"
        /\ \E c \in Calls : pc[c] \in {"held", "running"}
        /\ age' = [c \in Calls |-> IF pc[c] \in {"held", "running"}
                                   THEN [all |-> age[c].all + 1, part |-> age[c].part + 1] ELSE age[c]]
        /\ UNCHANGED <<pc, call, asked, row, acts, try, session, lock, stateful, wire>>

Locking(a) == Enter(a) \/ Forget(a)
Replies(a) == IntroFails(a) \/ Introduced(a) \/ Lost(a) \/ Answered(a) \/ Rejected(a)
Own(c)     == Expire(c) \/ Dispatch(c) \/ Ran(c)

Next == \/ \E c \in Calls : Decide(c) \/ Answer(c) \/ Own(c) \/ Run(c) \/ HangUp(c)
        \/ \E a \in Actors : Locking(a) \/ Replies(a) \/ Introduce(a)
        \/ (\E m \in wire : Take(m))
        \/ Ping \/ PingTimeout \/ ServerForgets \/ Tick

Spec == Init /\ [][Next]_vars

\* Timers fire, futures are polled, the client's timeout ends an exchange, and
\* the lock is handed on in turn.
FairSpec == /\ Spec /\ WF_vars(Tick) /\ WF_vars(PingTimeout)
            /\ \A c \in Calls : WF_vars(Own(c))
            /\ \A a \in Actors : WF_vars(Replies(a)) /\ SF_vars(Locking(a))
-----------------------------------------------------------------------------
(* Properties.                                                             *)

TypeOK == /\ \A c \in Calls : row[c] \in {"none", "ok", "failed", "stale", "unknown", "deny",
                                          "shutdown", "approval_timeout", "replayed"}
          /\ lock \in Actors \cup {NoOne} 
          /\ session \in {"none", "known", "forgotten"} /\ \A a \in Actors : try[a].n \in 0..2

\* A call takes effect at most once, whatever is lost, resent or abandoned: a
\* request is only sent again after one the server refused for its session.
ActsAtMostOnce == \A c \in Calls : acts[c] <= 1

Refusals == {"unknown", "deny", "shutdown", "approval_timeout"}

\* What the log says happened: "ok" is of a call that took effect, and one that
\* was refused, or that nobody answered in time, has not and never will; nor
\* has an idempotent tool's call that is logged as replayed.  (Of another tool's
\* call that word is the upstream's, and means nothing.)
RowTellsTruth ==
  \A c \in Calls : /\ row[c] = "ok" => acts[c] = 1
                   /\ row[c] \in Refusals => acts[c] = 0
                   /\ row[c] = "replayed" => acts[c] = IF call[c].once THEN 0 ELSE 1

\* Whether a call may act: until it is decided, while it goes on or its request
\* is under way, or no more.
Leave(c) == IF acts[c] > 0 THEN "spent"
            ELSE IF pc[c] \in {"idle", "held"} THEN "open"
            ELSE IF pc[c] \notin {"done", "gone"} \/ \E m \in wire : m.by = c THEN "armed"
            ELSE "spent"

Entry(c) == IF row[c] \in Refusals THEN "refused"
            ELSE IF row[c] = "stale" THEN "failed"
            ELSE IF row[c] = "replayed" /\ ~call[c].once THEN "ok"
            ELSE row[c]

Log == INSTANCE CallLog WITH leave <- [c \in Calls |-> Leave(c)],
                             row   <- [c \in Calls |-> Entry(c)]

\* All of it - the policy, the hold, the timers, the lock, lost answers, requests
\* sent again, clients that leave - keeps the promise the log makes of a call: one
\* row, true for good, and never an act outside the leave it was given.
ImplementsCallLog == Log!Spec

\* Nothing takes effect but by an allowing rule for the client that calls, by an
\* answer to this very call, or, fired by hand and read-only, by not being denied.
ActsOnlyAsDecided ==
  \A c \in Calls : acts[c] > 0 =>
     /\ call[c].tool # "unknown" /\ call[c].says # "deny"
     /\ \/ asked[c] = "allow"
        \/ call[c].by = "client" /\ call[c].says = "allow"
        \/ call[c].by = "hand" /\ call[c].tool = "read"

\* A call fails for its session only if the server forgot once more after it had
\* first refused the call: what is sent again never carries a session from before.
StaleTwiceOnlyIfForgotten ==
  [][ \A c \in Calls : row'[c] = "stale" /\ row[c] # "stale" => try[c].again ]_vars

\* A client hears of a hold while the deadline lasts, and of a command before two
\* deadlines are over: the hold and the command each have a clock of their own.
WithinTwoDeadlines ==
  \A c \in Calls : call[c].by = "client" =>
     /\ pc[c] = "held" => age[c].all < Deadline
     /\ pc[c] = "running" => age[c].all <= 2 * Deadline - 1

\* Every call ends: the lock comes round, though a probe may be abandoned holding it.
EveryCallEnds == \A c \in Calls : Live(c) ~> ~Live(c)
=============================================================================
