----------------------------- MODULE Publisher -----------------------------
(***************************************************************************)
(* Publishing the listener (publish.rs and the two shells that drive it):  *)
(* the check of what a configuration would expose, starting the backend,   *)
(* its stderr, the answer of state() and stopping.  A process of the       *)
(* gateway starts its publisher once and stops it on its way out; start    *)
(* runs on its own task, state() and stop() on the main thread.  What was  *)
(* started lives on when the process does not.                             *)
(***************************************************************************)
EXTENDS Naturals

CONSTANT MaxRuns   \* bound: processes of the gateway, one after another

ASSUME PublisherAssumption == MaxRuns \in Nat \ {0}

VARIABLES
  conf,     \* publish.via, tailscale.funnel and whether [auth.access] is there
  life,     \* "up", or how the process went: "quit" or "crashed"
  run,      \* which process this is
  start,    \* where start() is
  stop,     \* where stop() is
  look,     \* where state() is: "died" if it has just reaped the child
  child,    \* a daemon is in Publisher.child
  daemon,   \* the daemon this process started
  said,     \* it has written the line that says it is connected
  ready,    \* the flag the drain sets
  state,    \* Publisher.state
  command,  \* the backend's configuring command
  applied,  \* what that configuration exposes, kept by someone else's daemon
  raced,    \* history: stop began before start was done
  kept      \* history: the command that undoes it failed

vars    == <<conf, life, run, start, stop, look, child, daemon, said, ready, state,
             command, applied, raced, kept>>
process == <<conf, life, run>>
backend == <<daemon, said, command, applied>>
notes   == <<raced, kept>>

Vias    == {"none", "auto", "cloudflare", "tailscale"}
Reaches == {"loopback", "tailnet", "internet"}
Confs   == [via : Vias, funnel : BOOLEAN, access : BOOLEAN]

NotPublished == [kind |-> "not", reach |-> "loopback", confirmed |-> FALSE]
Failed       == [kind |-> "failed", reach |-> "loopback", confirmed |-> FALSE]
Published(r, c) == [kind |-> "published", reach |-> r, confirmed |-> c]

-----------------------------------------------------------------------------
(* What a configuration asks for, and what is started for it.              *)

\* Mutant: the funnel is forgotten.
IntendedNoFunnel(c) == CASE c.via = "none"      -> "loopback"
                         [] c.via = "tailscale" -> "tailnet"
                         [] OTHER               -> "internet"

Intended(c) == CASE c.via = "none"                     -> "loopback"
                 [] c.via = "tailscale" /\ ~c.funnel   -> "tailnet"
                 [] OTHER                              -> "internet"

CarriesAFactor(r) == r \in {"loopback", "tailnet"}

\* PublishConfig::check; "auto" is let through with a warning.
Accepted(c) == CarriesAFactor(Intended(c)) \/ c.access \/ c.via = "auto"

Configures(c) == c.via = "tailscale"
Daemon(c)     == c.via \in {"auto", "cloudflare"}

\* launch: the reach of what would be run.
Reach(c) == IF Daemon(c) THEN "internet"
            ELSE IF c.funnel THEN "internet" ELSE "tailnet"

\* SecondFactor::of, from what runs and not from what was asked for.
Factor(c, s) == IF c.access THEN "access"
                ELSE IF CarriesAFactor(s.reach) THEN "reach" ELSE "none"

Init == /\ conf \in {c \in Confs : Accepted(c)}
        /\ life = "up" /\ run = 1 /\ start = "idle" /\ stop = "idle" /\ look = "no"
        /\ child = FALSE /\ daemon = "none" /\ said = FALSE /\ ready = FALSE
        /\ state = NotPublished /\ command = "none" /\ applied = "loopback"
        /\ raced = FALSE /\ kept = FALSE

-----------------------------------------------------------------------------
(* start().                                                                *)

Starting == life = "up"

Nothing == /\ Starting /\ start = "idle" /\ conf.via = "none"
           /\ start' = "done" /\ state' = NotPublished
           /\ UNCHANGED <<process, stop, look, child, backend, ready, notes>>

Spawn == /\ Starting /\ start = "idle" /\ Daemon(conf)
         /\ start' = "watching" /\ daemon' = "up" /\ ready' = FALSE
         /\ UNCHANGED <<process, stop, look, child, said, state, command, applied, notes>>

Configure == /\ Starting /\ start = "idle" /\ Configures(conf)
             /\ start' = "applying" /\ command' = "running"
             /\ UNCHANGED <<process, stop, look, child, daemon, said, ready, state, applied, notes>>

\* There is no such program, the command failed, or the daemon has given up.
CannotStart == /\ Starting
               /\ \/ start = "idle" /\ conf.via # "none"
                  \/ start = "applying" /\ command = "refused"
                  \/ start = "failing"
               /\ start' = "done" /\ state' = Failed
               /\ UNCHANGED <<process, stop, look, child, backend, ready, notes>>

\* watch: the daemon exited inside its grace; the drain is waited for.
GaveUp == /\ Starting /\ start = "watching" /\ daemon = "dead"
          /\ start' = "failing"
          /\ UNCHANGED <<process, stop, look, child, backend, ready, state, notes>>

\* Mutant: a daemon that has said nothing by the end of its grace has failed.
StoodMute == /\ Starting /\ start = "watching" /\ daemon # "dead"
             /\ start' = IF ready THEN "storing" ELSE "failing"
             /\ UNCHANGED <<process, stop, look, child, backend, ready, state, notes>>

\* watch: it has said that it is connected, or its grace is over.
Stood == /\ Starting /\ start = "watching" /\ daemon # "dead"
         /\ start' = "storing"
         /\ UNCHANGED <<process, stop, look, child, backend, ready, state, notes>>

Store == /\ Starting /\ start = "storing"
         /\ start' = "settling" /\ child' = TRUE
         /\ UNCHANGED <<process, stop, look, backend, ready, state, notes>>

\* The daemon's state, or, once its URL was asked for, the command's.
Settle == /\ Starting
          /\ \/ start = "settling" /\ state' = Published(Reach(conf), ready)
             \/ start = "applying" /\ command = "applied" /\ state' = Published(Reach(conf), TRUE)
          /\ start' = "done"
          /\ UNCHANGED <<process, stop, look, child, backend, ready, notes>>

StartStep == Nothing \/ Spawn \/ Configure \/ CannotStart \/ GaveUp \/ Stood \/ Store \/ Settle

-----------------------------------------------------------------------------
(* state(), which takes one lock after the other.                          *)

LookAtChild == /\ life = "up" /\ stop = "idle" /\ look = "no"
               /\ IF child /\ daemon = "dead"
                  THEN look' = "died" /\ child' = FALSE
                  ELSE look' = "alive" /\ UNCHANGED child
               /\ UNCHANGED <<process, start, stop, backend, ready, state, notes>>

Confirm(s) == IF s.kind = "published" /\ ready THEN [s EXCEPT !.confirmed = TRUE] ELSE s

\* Mutant: only a backend that was confirmed is blamed.
LookAtStateConfirmed ==
  /\ life = "up" /\ look # "no"
  /\ look' = "no"
  /\ state' = IF look = "died" /\ Confirm(state).confirmed THEN Failed ELSE Confirm(state)
  /\ UNCHANGED <<process, start, stop, child, backend, ready, notes>>

LookAtState ==
  /\ life = "up" /\ look # "no"
  /\ look' = "no"
  /\ state' = IF look = "died" /\ state.kind = "published" THEN Failed ELSE Confirm(state)
  /\ UNCHANGED <<process, start, stop, child, backend, ready, notes>>

-----------------------------------------------------------------------------
(* stop(), on the way out.                                                 *)

\* Mutant: the child stays where it is.
TakeNothing == /\ life = "up" /\ stop = "idle" /\ look = "no"
               /\ stop' = "clearing" /\ raced' = (start # "done")
               /\ UNCHANGED <<process, start, look, child, backend, ready, state, kept>>

Take == /\ life = "up" /\ stop = "idle" /\ look = "no"
        /\ stop' = IF child THEN "killing" ELSE "clearing"
        /\ child' = FALSE /\ raced' = (start # "done")
        /\ UNCHANGED <<process, start, look, backend, ready, state, kept>>

Kill == /\ life = "up" /\ stop = "killing"
        /\ stop' = "clearing" /\ daemon' = "dead"
        /\ UNCHANGED <<process, start, look, child, said, ready, state, command, applied, notes>>

Clear == /\ life = "up" /\ stop = "clearing"
         /\ stop' = IF Configures(conf) THEN "undoing" ELSE "setting"
         /\ ready' = FALSE
         /\ UNCHANGED <<process, start, look, child, backend, state, notes>>

\* `off` undoes what the same verb applied; it may fail, and that is logged.
Undo == /\ life = "up" /\ stop = "undoing"
        /\ stop' = "setting"
        /\ \/ /\ applied' = IF applied = Reach(conf) THEN "loopback" ELSE applied
              /\ UNCHANGED kept
           \/ kept' = TRUE /\ UNCHANGED applied
        /\ UNCHANGED <<process, start, look, child, daemon, said, ready, state, command, raced>>

Unset == /\ life = "up" /\ stop = "setting"
         /\ stop' = "done" /\ state' = NotPublished
         /\ UNCHANGED <<process, start, look, child, backend, ready, notes>>

StopStep == Kill \/ Clear \/ Undo \/ Unset

\* The process ends, in order or not, and another may come, differently configured.
Quit == /\ life = "up" /\ stop = "done"
        /\ life' = "quit"
        /\ UNCHANGED <<conf, run, start, stop, look, child, backend, ready, state, notes>>

Crash == /\ life = "up" /\ life' = "crashed"
         /\ UNCHANGED <<conf, run, start, stop, look, child, backend, ready, state, notes>>

Restart == /\ life # "up" /\ command # "running" /\ run < MaxRuns
           /\ conf' \in {c \in Confs : Accepted(c)}
           /\ life' = "up" /\ run' = run + 1 /\ start' = "idle" /\ stop' = "idle" /\ look' = "no"
           /\ child' = FALSE /\ daemon' = "none" /\ said' = FALSE /\ ready' = FALSE
           /\ state' = NotPublished /\ command' = "none"
           /\ raced' = FALSE /\ kept' = FALSE
           /\ UNCHANGED applied

-----------------------------------------------------------------------------
(* The backends.                                                           *)

\* The tunnel registers, and says so.
Connect == /\ daemon = "up" /\ ~said
           /\ said' = TRUE
           /\ UNCHANGED <<process, start, stop, look, child, daemon, ready, state, command,
                          applied, notes>>

\* The drain reads it, perhaps when the daemon has gone.
Drain == /\ life = "up" /\ said /\ ~ready
         /\ ready' = TRUE
         /\ UNCHANGED <<process, start, stop, look, child, backend, state, notes>>

Die == /\ daemon = "up" /\ daemon' = "dead"
       /\ UNCHANGED <<process, start, stop, look, child, said, ready, state, command, applied, notes>>

\* The command runs on when the gateway has gone.
Apply == /\ command = "running"
         /\ \/ command' = "applied" /\ applied' = Reach(conf)
            \/ command' = "refused" /\ UNCHANGED applied
         /\ UNCHANGED <<process, start, stop, look, child, daemon, said, ready, state, notes>>

Next == \/ StartStep \/ LookAtChild \/ LookAtState \/ Take \/ StopStep
        \/ Quit \/ Crash \/ Restart \/ Connect \/ Drain \/ Die \/ Apply

Spec == Init /\ [][Next]_vars
-----------------------------------------------------------------------------
(* Properties.                                                             *)

TypeOK == /\ conf \in Confs /\ life \in {"up", "quit", "crashed"} /\ run \in 1..MaxRuns
          /\ start \in {"idle", "watching", "failing", "storing", "settling", "applying", "done"}
          /\ stop \in {"idle", "killing", "clearing", "undoing", "setting", "done"}
          /\ look \in {"no", "alive", "died"} /\ child \in BOOLEAN
          /\ daemon \in {"none", "up", "dead"} /\ said \in BOOLEAN /\ ready \in BOOLEAN
          /\ state \in [kind : {"not", "failed", "published"}, reach : Reaches, confirmed : BOOLEAN]
          /\ command \in {"none", "running", "applied", "refused"}
          /\ applied \in Reaches /\ raced \in BOOLEAN /\ kept \in BOOLEAN

\* What this process has exposed the gateway to.
Exposed(r) == \/ daemon = "up" /\ r = "internet"
              \/ command = "applied" /\ applied = r /\ r # "loopback"

\* The rule of publish.rs: nothing but "auto", which warns, puts a gateway on
\* the internet with the bearer token as its only factor.
SecondFactorOrWarned ==
  Exposed("internet") /\ ~conf.access => conf.via = "auto"

\* The panel, once start is done: a gateway that is told to be on loopback is
\* not published by this process, so the factor it shows is the one there is.
\* (Before that a tunnel may be up and the panel still say it is not.)
ToldLoopbackIsTrue ==
  life = "up" /\ start = "done" /\ stop = "idle" /\ CarriesAFactor(state.reach) =>
     \A r \in Reaches \ {"loopback"} : Exposed(r) => r = state.reach

\* A daemon found dead is told of: state() does not go on calling it published.
\* (A look between start's store and its state loses the death.)
DeathIsTold ==
  [][ look = "died" /\ look' = "no" /\ life' = "up" /\ start = "done" =>
        state'.kind # "published" ]_vars

\* A process that quits after its publisher had started leaves nothing behind
\* that it published, unless the command that undoes it failed.
QuitUnpublishes ==
  life = "quit" /\ ~raced /\ ~kept => daemon # "up" /\ ~(command = "applied" /\ applied = Reach(conf))

\* setup_app: "never orphan it", whenever the gateway quits.
NeverOrphaned ==
  life = "quit" /\ ~kept => daemon # "up" /\ ~(command = "applied" /\ applied = Reach(conf))
=============================================================================
