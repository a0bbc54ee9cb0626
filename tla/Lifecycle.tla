----------------------------- MODULE Lifecycle -----------------------------
(***************************************************************************)
(* Listeners coming and going: serve_on and its health monitor (lib.rs)    *)
(* and the desktop shell that pauses, resumes and quits it (the app's      *)
(* main.rs).  Every resume starts a new run of serve_on, a server here;    *)
(* all of them share one gateway, and so one approval queue, one status    *)
(* and one slot for the token that stops the listener.                     *)
(***************************************************************************)
CONSTANTS
  Servers,    \* runs of serve_on; each is started at most once
  Calls,      \* calls, each accepted by one server, or fired by hand
  Commands,   \* set_paused(false) commands that may run side by side
  NoServer,   \* an empty slot
  Window,     \* where a call fired by hand lives, instead of a server
  Desktop     \* TRUE for the app; FALSE for gatehound-headless

ASSUME LifecycleAssumption == /\ NoServer \notin Servers
                              /\ Window \notin Servers \cup {NoServer}
                              /\ Desktop \in BOOLEAN

VARIABLES
  srv,        \* where each run of serve_on is
  cancelled,  \* the servers whose token was cancelled
  slot,       \* AppState.listener: whose token the shell holds
  cmd,        \* each resume command: "idle", or "start" past its check
  status,     \* GatewayStatus
  mon,        \* each server's health monitor
  saw,        \* what its last probe saw
  at,         \* at[c]: the server a call came in on, Window, or NoServer
  call,       \* what each call is doing
  outcome,    \* how it ended
  app         \* the process: "up", "quitting" or "gone"

listenVars == <<srv, cancelled, slot, cmd, status, mon, saw, at, call, outcome, app>>
callVars  == <<at, call, outcome>>
monVars   == <<mon, saw>>
shellVars == <<slot, cmd, app>>

Live(c)   == call[c] \in {"running", "held"}
Serving   == {s \in Servers : srv[s] = "serving"}
Up        == app # "gone"
Become(s, p) == srv' = [srv EXCEPT ![s] = p]
End(c, o) == /\ call' = [call EXCEPT ![c] = "done"]
             /\ outcome' = [outcome EXCEPT ![c] = o]

\* approvals.cancel_all: every hold there is, whoever's it is.
ReleaseHolds ==
  /\ call' = [c \in Calls |-> IF call[c] = "held" THEN "done" ELSE call[c]]
  /\ outcome' = [c \in Calls |-> IF call[c] = "held" THEN "shutdown" ELSE outcome[c]]

\* Both shells start one listener as they come up.
ListenInit == /\ \E s \in Servers : /\ srv = [t \in Servers |-> IF t = s THEN "starting" ELSE "unused"]
                                    /\ slot = s
              /\ cancelled = {}
              /\ cmd = [m \in Commands |-> "idle"]
              /\ status = "paused"
              /\ mon = [s \in Servers |-> "off"]
              /\ saw = [s \in Servers |-> "listening"]
              /\ at = [c \in Calls |-> NoServer]
              /\ call = [c \in Calls |-> "idle"]
              /\ outcome = [c \in Calls |-> "none"]
              /\ app = "up"
-----------------------------------------------------------------------------
(* The shell: set_paused, start_listener, quit.                            *)

\* Headless, this is the interrupt, and there is no way back.
Pause == /\ app = "up" /\ slot # NoServer
         /\ cancelled' = cancelled \cup {slot}
         /\ slot' = NoServer
         /\ UNCHANGED <<srv, cmd, status, monVars, callVars, app>>

\* set_paused(false) checks that nothing is running, then starts a listener.
ResumeCheck(m) == /\ Desktop /\ app = "up"
                  /\ cmd[m] = "idle" /\ slot = NoServer
                  /\ cmd' = [cmd EXCEPT ![m] = "start"]
                  /\ UNCHANGED <<srv, cancelled, slot, status, monVars, callVars, app>>

ResumeStart(m) == /\ app = "up" /\ cmd[m] = "start"
                  /\ \E s \in Servers : /\ srv[s] = "unused"
                                        /\ Become(s, "starting")
                                        /\ slot' = s
                  /\ cmd' = [cmd EXCEPT ![m] = "idle"]
                  /\ UNCHANGED <<cancelled, status, monVars, callVars, app>>

\* RunEvent::Exit and restart_app: stop the listener, release the holds.
QuitApp == /\ Desktop /\ app = "up"
           /\ app' = "quitting"
           /\ cancelled' = IF slot = NoServer THEN cancelled ELSE cancelled \cup {slot}
           /\ slot' = NoServer
           /\ ReleaseHolds
           /\ UNCHANGED <<srv, cmd, status, monVars, at>>

\* The process goes, whatever the drain has left.
Gone == /\ app = "quitting"
        /\ app' = "gone"
        /\ call' = [c \in Calls |-> IF Live(c) THEN "done" ELSE call[c]]
        /\ outcome' = [c \in Calls |-> IF Live(c) THEN "lost" ELSE outcome[c]]
        /\ srv' = [s \in Servers |-> IF srv[s] = "unused" THEN "unused" ELSE "ended"]
        /\ mon' = [s \in Servers |-> "off"]
        /\ UNCHANGED <<cancelled, slot, cmd, status, saw, at>>
-----------------------------------------------------------------------------
(* One run of serve_on.                                                    *)

Bind(s) == /\ srv[s] = "starting" /\ Serving = {}
           /\ Become(s, "serving")
           /\ status' = "listening"
           /\ mon' = [mon EXCEPT ![s] = "probing"]
           /\ UNCHANGED <<cancelled, saw, callVars, shellVars>>

\* The port is taken, by an older listener or by another program.
BindFails(s) == /\ srv[s] = "starting"
                /\ Become(s, "failing")
                /\ UNCHANGED <<cancelled, status, monVars, callVars, shellVars>>

\* start_listener's task empties the slot, whoever's token is in it by now.
BindFailed(s) == /\ srv[s] = "failing"
                 /\ Become(s, "ended")
                 /\ slot' = NoServer
                 /\ UNCHANGED <<cancelled, cmd, status, monVars, callVars, app>>

\* The cancelled server drops its listener and waits for the calls it took.
StopAccepting(s) == /\ srv[s] = "serving" /\ s \in cancelled
                    /\ Become(s, "draining")
                    /\ UNCHANGED <<cancelled, status, monVars, callVars, shellVars>>

\* Mutant: the drain does not wait.
DrainedAtOnce(s) == /\ srv[s] = "draining"
                    /\ Become(s, "releasing")
                    /\ UNCHANGED <<cancelled, status, monVars, callVars, shellVars>>

Drained(s) == /\ srv[s] = "draining"
              /\ \A c \in Calls : at[c] = s => call[c] = "done"
              /\ Become(s, "releasing")
              /\ UNCHANGED <<cancelled, status, monVars, callVars, shellVars>>

Release(s) == /\ srv[s] = "releasing"
              /\ Become(s, "marking")
              /\ ReleaseHolds
              /\ UNCHANGED <<cancelled, status, monVars, at, shellVars>>

\* The status, then the abort; a monitor that is past its probe is out of the
\* abort's reach until it has reported.
MarkPaused(s) == /\ srv[s] = "marking"
                 /\ Become(s, "ended")
                 /\ status' = "paused"
                 /\ mon' = [mon EXCEPT ![s] = IF @ = "reporting" THEN @ ELSE "off"]
                 /\ UNCHANGED <<cancelled, saw, callVars, shellVars>>

\* spawn_health_monitor.
Probed(s) == /\ mon[s] = "probing"
             /\ mon' = [mon EXCEPT ![s] = "reporting"]
             /\ \E r \in {"listening", "degraded"} : saw' = [saw EXCEPT ![s] = r]
             /\ UNCHANGED <<srv, cancelled, status, callVars, shellVars>>

Report(s) == /\ mon[s] = "reporting"
             /\ status' = saw[s]
             /\ mon' = [mon EXCEPT ![s] = IF srv[s] = "ended" THEN "off" ELSE "sleeping"]
             /\ UNCHANGED <<srv, cancelled, saw, callVars, shellVars>>

\* Mutant: the monitor probes once.
WakeOnce(s) == /\ mon[s] = "sleeping"
               /\ mon' = [mon EXCEPT ![s] = "off"]
               /\ UNCHANGED <<srv, cancelled, status, saw, callVars, shellVars>>

Wake(s) == /\ mon[s] = "sleeping"
           /\ mon' = [mon EXCEPT ![s] = IF s \in cancelled THEN "off" ELSE "probing"]
           /\ UNCHANGED <<srv, cancelled, status, saw, callVars, shellVars>>
-----------------------------------------------------------------------------
(* The calls.                                                              *)

Accept(c) == /\ call[c] = "idle"
             /\ call' = [call EXCEPT ![c] = "running"]
             /\ \E s \in Serving : at' = [at EXCEPT ![c] = s]
             /\ UNCHANGED <<outcome, srv, cancelled, status, monVars, shellVars>>

\* Gateway::fire: the Debug tab needs no listener.
Fire(c) == /\ Desktop /\ Up /\ call[c] = "idle"
           /\ call' = [call EXCEPT ![c] = "running"]
           /\ at' = [at EXCEPT ![c] = Window]
           /\ UNCHANGED <<outcome, srv, cancelled, status, monVars, shellVars>>

Hold(c) == /\ call[c] = "running" /\ outcome[c] = "none"
           /\ call' = [call EXCEPT ![c] = "held"]
           /\ UNCHANGED <<at, outcome, srv, cancelled, status, monVars, shellVars>>

\* The operator answers: refused, or let go on.
Answer(c) == /\ call[c] = "held"
             /\ \/ End(c, "denied")
                \/ /\ call' = [call EXCEPT ![c] = "running"]
                   /\ outcome' = [outcome EXCEPT ![c] = "allowed"]
             /\ UNCHANGED <<at, srv, cancelled, status, monVars, shellVars>>

\* Mutant: the hold's clock stops with its listener.
ExpireWhileServed(c) == /\ call[c] = "held" /\ at[c] \notin cancelled /\ End(c, "timeout")
                        /\ UNCHANGED <<at, srv, cancelled, status, monVars, shellVars>>

Expire(c) == /\ call[c] = "held" /\ End(c, "timeout")
             /\ UNCHANGED <<at, srv, cancelled, status, monVars, shellVars>>

Finish(c) == /\ call[c] = "running" /\ End(c, "ok")
             /\ UNCHANGED <<at, srv, cancelled, status, monVars, shellVars>>
-----------------------------------------------------------------------------
Shell     == Pause \/ QuitApp \/ Gone \/ \E m \in Commands : ResumeCheck(m) \/ ResumeStart(m)
Serve(s)  == \/ Bind(s) \/ BindFails(s) \/ BindFailed(s)
             \/ StopAccepting(s) \/ Drained(s) \/ Release(s) \/ MarkPaused(s)
Health(s) == Probed(s) \/ Report(s) \/ Wake(s)
Run(c)    == Accept(c) \/ Fire(c) \/ Hold(c) \/ Answer(c) \/ Expire(c) \/ Finish(c)

ListenNext == \/ Shell
              \/ \E s \in Servers : Serve(s) \/ Health(s)
              \/ \E c \in Calls : Run(c)

ListenSpec == ListenInit /\ [][ListenNext]_listenVars

\* Tasks run when they are ready; a hold expires and an action ends on its own
\* timeout.  Nothing is owed by the operator or by a client.
Fairness == /\ \A s \in Servers : WF_listenVars(Serve(s)) /\ WF_listenVars(Health(s))
            /\ \A c \in Calls : WF_listenVars(Expire(c)) /\ WF_listenVars(Finish(c))

FairSpec == ListenSpec /\ Fairness
-----------------------------------------------------------------------------
(* Properties.                                                             *)

ListenTypes == /\ srv \in [Servers -> {"unused", "starting", "serving", "failing", "draining",
                                       "releasing", "marking", "ended"}]
               /\ cancelled \subseteq Servers
               /\ slot \in Servers \cup {NoServer}
               /\ cmd \in [Commands -> {"idle", "start"}]
               /\ status \in {"listening", "degraded", "paused"}
               /\ mon \in [Servers -> {"off", "probing", "reporting", "sleeping"}]
               /\ saw \in [Servers -> {"listening", "degraded"}]
               /\ at \in [Calls -> Servers \cup {Window, NoServer}]
               /\ call \in [Calls -> {"idle", "running", "held", "done"}]
               /\ outcome \in [Calls -> {"none", "allowed", "denied", "timeout", "shutdown", "ok", "lost"}]
               /\ app \in {"up", "quitting", "gone"}

\* Pausing cuts no call short: a client's call ends without its answer only
\* when the app is quit, or when a run of serve_on other than the one it came
\* in on finishes and releases every hold there is.
PauseCutsNothing ==
  \A c \in Calls :
    /\ outcome[c] = "lost" => app = "gone"
    /\ outcome[c] = "shutdown" /\ app = "up" =>
         \E s \in Servers : s # at[c] /\ srv[s] \in {"marking", "ended"} /\ s \in cancelled

\* A pause takes effect: the listener that was told to stop ends, held calls
\* and all.
PauseTakesEffect == \A s \in Servers : s \in cancelled ~> srv[s] = "ended"

\* A listener that stays up is in the end shown as up and stays so, even when
\* an older run marked the gateway paused behind its back.
StatusHeals ==
  \A s \in Servers : []<>(srv[s] # "serving" \/ s \in cancelled) \/ <>[](status # "paused")
=============================================================================
