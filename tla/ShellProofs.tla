---------------------------- MODULE ShellProofs ----------------------------
(***************************************************************************)
(* Proofs about the two things the shells start and stop.  What publishing *)
(* exposes, says and leaves behind, for every accepted configuration and   *)
(* any number of processes one after another; and, at the end, that        *)
(* pausing cuts no call short, for any listeners, calls and commands.      *)
(***************************************************************************)
EXTENDS Publisher, Lifecycle, TLAPS

\* The parts of the type invariant, named so that a proof may leave them folded.
States == [kind : {"not", "failed", "published"}, reach : Reaches, confirmed : BOOLEAN]
Steps  == {"idle", "watching", "failing", "storing", "settling", "applying", "done"}
Stops  == {"idle", "killing", "clearing", "undoing", "setting", "done"}

Types == /\ conf \in Confs /\ run \in 1..MaxRuns /\ life \in {"up", "quit", "crashed"}
         /\ start \in Steps /\ stop \in Stops /\ look \in {"no", "alive", "died"}
         /\ child \in BOOLEAN /\ said \in BOOLEAN /\ ready \in BOOLEAN
         /\ raced \in BOOLEAN /\ kept \in BOOLEAN
         /\ daemon \in {"none", "up", "dead"} /\ state \in States
         /\ command \in {"none", "running", "applied", "refused"} /\ applied \in Reaches

\* What runs was asked for: a daemon or the command, never both.
AskedInv == /\ conf \in Confs /\ Accepted(conf)
            /\ daemon # "none" => Daemon(conf)
            /\ command # "none" => Configures(conf)
            /\ command = "applied" => applied \in {Reach(conf), "loopback"}

\* How far start() is says what there is of a daemon, of the command and of
\* what the panel is told.
StartInv ==
  /\ start = "idle" => daemon = "none" /\ command = "none"
  /\ start \in {"watching", "storing", "settling", "failing"} =>
       Daemon(conf) /\ daemon # "none"
  /\ start = "applying" => Configures(conf) /\ command # "none"
  /\ start = "failing" => daemon = "dead"
  /\ start = "done" => command # "running"
  /\ start # "done" => state.kind = "not"
  /\ state.kind # "published" => state.reach = "loopback"
  /\ state.kind = "published" => state.reach = Reach(conf)

\* A process that has not begun to stop holds its daemon, or has seen it die,
\* and does not forget what it has published.
HeldInv ==
  /\ look = "died" => daemon = "dead" /\ ~child /\ start \in {"settling", "done"}
  /\ child => daemon # "none" /\ start \in {"settling", "done"}
  /\ start \in {"settling", "done"} /\ stop = "idle" /\ daemon = "up" => child
  /\ start = "done" /\ stop = "idle" /\ state.kind # "published" => daemon # "up" /\ command # "applied"

\* Stopping goes on from there: what was taken is killed, what was applied undone.
StopInv ==
  /\ stop # "idle" /\ ~raced => start = "done" /\ ~child
  /\ stop = "killing" => daemon # "none"
  /\ ~raced /\ stop \notin {"idle", "killing"} => daemon # "up"
  /\ ~raced /\ ~kept /\ stop \in {"setting", "done"} => ~(command = "applied" /\ applied = Reach(conf))
  /\ life = "quit" => stop = "done"

IInv == Types /\ AskedInv /\ StartInv /\ HeldInv /\ StopInv

\* What may be asked for, and how far what was asked for reaches.
LEMMA Reached ==
  ASSUME NEW c \in Confs
  PROVE  /\ Reach(c) \in {"tailnet", "internet"}
         /\ Daemon(c) => ~Configures(c) /\ c.via # "none"
         /\ Configures(c) => c.via # "none"
         /\ c.via # "none" => Daemon(c) \/ Configures(c)
         /\ Accepted(c) /\ (Daemon(c) \/ Reach(c) = "internet") /\ c.via # "none"
              => c.access \/ c.via = "auto"
BY DEF Confs, Vias, Reach, Daemon, Configures, Accepted, Intended, CarriesAFactor

\* Every answer of state() is one.
LEMMA StateTypes ==
  /\ NotPublished \in States /\ Failed \in States
  /\ \A r \in Reaches, b \in BOOLEAN : Published(r, b) \in States
BY DEF States, Reaches, NotPublished, Failed, Published

LEMMA ConfirmTypes ==
  ASSUME NEW s \in States
  PROVE  Confirm(s) \in States /\ Confirm(s).kind = s.kind /\ Confirm(s).reach = s.reach
<1>1. [s EXCEPT !.confirmed = TRUE] \in States
  BY DEF States
<1>2. [s EXCEPT !.confirmed = TRUE].kind = s.kind /\ [s EXCEPT !.confirmed = TRUE].reach = s.reach
  BY DEF States
<1> QED
  BY <1>1, <1>2 DEF Confirm

\* Every step keeps the types.
LEMMA TypesStep ==
  ASSUME PublisherAssumption, IInv, Next PROVE Types'
<1> USE DEF IInv, Types, Steps, Stops, process, backend, notes
<1>1. ASSUME Nothing PROVE Types'
  BY <1>1, StateTypes DEF Nothing, Starting
<1>2. ASSUME Spawn PROVE Types'
  BY <1>2 DEF Spawn, Starting
<1>3. ASSUME Configure PROVE Types'
  BY <1>3 DEF Configure, Starting
<1>4. ASSUME CannotStart PROVE Types'
  BY <1>4, StateTypes DEF CannotStart, Starting
<1>5. ASSUME GaveUp PROVE Types'
  BY <1>5 DEF GaveUp, Starting
<1>6. ASSUME Stood PROVE Types'
  BY <1>6 DEF Stood, Starting
<1>7. ASSUME Store PROVE Types'
  BY <1>7 DEF Store, Starting
<1>8. ASSUME Settle PROVE Types'
  <2>1. state' \in States
    BY <1>8, StateTypes, Reached DEF Settle, Reaches
  <2> QED
    BY <1>8, <2>1 DEF Settle, Starting
<1>9. ASSUME LookAtChild PROVE Types'
  BY <1>9, ZenonT(40) DEF LookAtChild
<1>10. ASSUME LookAtState PROVE Types'
  <2>1. state' \in States
    BY <1>10, StateTypes, ConfirmTypes DEF LookAtState, States
  <2> QED
    BY <1>10, <2>1 DEF LookAtState
<1>11. ASSUME Take PROVE Types'
  BY <1>11 DEF Take
<1>12. ASSUME Kill PROVE Types'
  BY <1>12 DEF Kill
<1>13. ASSUME Clear PROVE Types'
  BY <1>13, ZenonT(40) DEF Clear
<1>14. ASSUME Undo PROVE Types'
  <2>1. applied' \in Reaches /\ kept' \in BOOLEAN /\ stop' \in Stops
    BY <1>14 DEF Undo, Reaches
  <2> QED
    BY ONLY IInv, <1>14, <2>1 DEF Undo
<1>15. ASSUME Unset PROVE Types'
  BY <1>15, StateTypes DEF Unset
<1>16. ASSUME Quit PROVE Types'
  BY <1>16 DEF Quit
<1>17. ASSUME Crash PROVE Types'
  BY <1>17 DEF Crash
<1>18. ASSUME Restart PROVE Types'
  <2>1. state' \in States /\ conf' \in Confs /\ run' \in 1..MaxRuns
    BY <1>18, StateTypes DEF Restart, PublisherAssumption
  <2> QED
    BY <1>18, <2>1 DEF Restart
<1>19. ASSUME Connect PROVE Types'
  BY <1>19 DEF Connect
<1>20. ASSUME Drain PROVE Types'
  BY <1>20 DEF Drain
<1>21. ASSUME Die PROVE Types'
  BY <1>21 DEF Die
<1>22. ASSUME Apply PROVE Types'
  <2>1. Reach(conf) \in Reaches
    BY Reached DEF Reaches
  <2> QED
    BY <1>22, <2>1 DEF Apply
<1> QED
  BY <1>1, <1>2, <1>3, <1>4, <1>5, <1>6, <1>7, <1>8, <1>9, <1>10, <1>11, <1>12, <1>13, <1>14, <1>15, <1>16, <1>17, <1>18, <1>19, <1>20, <1>21, <1>22
  DEF Next, StartStep, StopStep

\* What is started is what the configuration asks for.
LEMMA AskedStep ==
  ASSUME PublisherAssumption, IInv, Next PROVE AskedInv'
<1> USE DEF IInv, Types, States, AskedInv, StartInv, StopInv, Daemon, Configures, process, backend, notes
<1>1. ASSUME Nothing PROVE AskedInv'
  BY <1>1 DEF Nothing, Starting, NotPublished
<1>2. ASSUME Spawn PROVE AskedInv'
  BY <1>2 DEF Spawn, Starting
<1>3. ASSUME Configure PROVE AskedInv'
  BY <1>3 DEF Configure, Starting
<1>4. ASSUME CannotStart PROVE AskedInv'
  BY <1>4 DEF CannotStart, Starting, Failed
<1>5. ASSUME GaveUp PROVE AskedInv'
  BY <1>5 DEF GaveUp, Starting
<1>6. ASSUME Stood PROVE AskedInv'
  BY <1>6 DEF Stood, Starting
<1>7. ASSUME Store PROVE AskedInv'
  BY <1>7 DEF Store, Starting
<1>8. ASSUME Settle PROVE AskedInv'
  BY <1>8 DEF Settle, Starting, Published
<1>9. ASSUME LookAtChild PROVE AskedInv'
  BY <1>9 DEF LookAtChild
<1>10. ASSUME LookAtState PROVE AskedInv'
  BY <1>10 DEF LookAtState, Failed, Confirm
<1>11. ASSUME Take PROVE AskedInv'
  BY <1>11 DEF Take
<1>12. ASSUME Kill PROVE AskedInv'
  BY <1>12 DEF Kill
<1>13. ASSUME Clear PROVE AskedInv'
  BY <1>13 DEF Clear
<1>14. ASSUME Undo PROVE AskedInv'
  BY <1>14 DEF Undo, Reach
<1>15. ASSUME Unset PROVE AskedInv'
  BY <1>15 DEF Unset, NotPublished
<1>16. ASSUME Quit PROVE AskedInv'
  BY <1>16 DEF Quit
<1>17. ASSUME Crash PROVE AskedInv'
  BY <1>17 DEF Crash
<1>18. ASSUME Restart PROVE AskedInv'
  BY <1>18 DEF Restart, NotPublished
<1>19. ASSUME Connect PROVE AskedInv'
  BY <1>19 DEF Connect
<1>20. ASSUME Drain PROVE AskedInv'
  BY <1>20 DEF Drain
<1>21. ASSUME Die PROVE AskedInv'
  BY <1>21 DEF Die
<1>22. ASSUME Apply PROVE AskedInv'
  BY <1>22 DEF Apply, Reach
<1> QED
  BY <1>1, <1>2, <1>3, <1>4, <1>5, <1>6, <1>7, <1>8, <1>9, <1>10, <1>11, <1>12, <1>13, <1>14, <1>15, <1>16, <1>17, <1>18, <1>19, <1>20, <1>21, <1>22
  DEF Next, StartStep, StopStep

\* start() tells the panel what it has started, once.
LEMMA StartStepInv ==
  ASSUME PublisherAssumption, IInv, Next PROVE StartInv'
<1> USE DEF IInv, Types, States, AskedInv, StartInv, HeldInv, StopInv, Daemon, Configures, Reach, process, backend, notes
<1>1. ASSUME Nothing PROVE StartInv'
  BY <1>1 DEF Nothing, Starting, NotPublished
<1>2. ASSUME Spawn PROVE StartInv'
  BY <1>2 DEF Spawn, Starting
<1>3. ASSUME Configure PROVE StartInv'
  BY <1>3 DEF Configure, Starting
<1>4. ASSUME CannotStart PROVE StartInv'
  BY <1>4 DEF CannotStart, Starting, Failed
<1>5. ASSUME GaveUp PROVE StartInv'
  BY <1>5 DEF GaveUp, Starting
<1>6. ASSUME Stood PROVE StartInv'
  BY <1>6 DEF Stood, Starting
<1>7. ASSUME Store PROVE StartInv'
  BY <1>7 DEF Store, Starting
<1>8. ASSUME Settle PROVE StartInv'
  BY <1>8 DEF Settle, Starting, Published
<1>9. ASSUME LookAtChild PROVE StartInv'
  BY <1>9 DEF LookAtChild
<1>10. ASSUME LookAtState PROVE StartInv'
  BY <1>10 DEF LookAtState, Failed, Confirm
<1>11. ASSUME Take PROVE StartInv'
  BY <1>11 DEF Take
<1>12. ASSUME Kill PROVE StartInv'
  BY <1>12 DEF Kill
<1>13. ASSUME Clear PROVE StartInv'
  BY <1>13 DEF Clear
<1>14. ASSUME Undo PROVE StartInv'
  BY <1>14 DEF Undo, Reach
<1>15. ASSUME Unset PROVE StartInv'
  BY <1>15 DEF Unset, NotPublished
<1>16. ASSUME Quit PROVE StartInv'
  BY <1>16 DEF Quit
<1>17. ASSUME Crash PROVE StartInv'
  BY <1>17 DEF Crash
<1>18. ASSUME Restart PROVE StartInv'
  BY <1>18 DEF Restart, NotPublished
<1>19. ASSUME Connect PROVE StartInv'
  BY <1>19 DEF Connect
<1>20. ASSUME Drain PROVE StartInv'
  BY <1>20 DEF Drain
<1>21. ASSUME Die PROVE StartInv'
  BY <1>21 DEF Die
<1>22. ASSUME Apply PROVE StartInv'
  BY <1>22 DEF Apply, Reach
<1> QED
  BY <1>1, <1>2, <1>3, <1>4, <1>5, <1>6, <1>7, <1>8, <1>9, <1>10, <1>11, <1>12, <1>13, <1>14, <1>15, <1>16, <1>17, <1>18, <1>19, <1>20, <1>21, <1>22
  DEF Next, StartStep, StopStep

\* A daemon that runs is in the slot, and one found dead is told of.
LEMMA HeldStep ==
  ASSUME PublisherAssumption, IInv, Next PROVE HeldInv'
<1> USE DEF IInv, Types, States, AskedInv, StartInv, HeldInv, Daemon, Configures, process, backend, notes
<1>1. ASSUME Nothing PROVE HeldInv'
  BY <1>1 DEF Nothing, Starting, NotPublished
<1>2. ASSUME Spawn PROVE HeldInv'
  BY <1>2 DEF Spawn, Starting
<1>3. ASSUME Configure PROVE HeldInv'
  BY <1>3 DEF Configure, Starting
<1>4. ASSUME CannotStart PROVE HeldInv'
  BY <1>4 DEF CannotStart, Starting, Failed
<1>5. ASSUME GaveUp PROVE HeldInv'
  BY <1>5 DEF GaveUp, Starting
<1>6. ASSUME Stood PROVE HeldInv'
  BY <1>6 DEF Stood, Starting
<1>7. ASSUME Store PROVE HeldInv'
  BY <1>7 DEF Store, Starting
<1>8. ASSUME Settle PROVE HeldInv'
  BY <1>8 DEF Settle, Starting, Published
<1>9. ASSUME LookAtChild PROVE HeldInv'
  BY <1>9 DEF LookAtChild
<1>10. ASSUME LookAtState PROVE HeldInv'
  BY <1>10 DEF LookAtState, Failed, Confirm
<1>11. ASSUME Take PROVE HeldInv'
  BY <1>11 DEF Take
<1>12. ASSUME Kill PROVE HeldInv'
  BY <1>12 DEF Kill
<1>13. ASSUME Clear PROVE HeldInv'
  BY <1>13 DEF Clear
<1>14. ASSUME Undo PROVE HeldInv'
  BY <1>14 DEF Undo, Reach
<1>15. ASSUME Unset PROVE HeldInv'
  BY <1>15 DEF Unset, NotPublished
<1>16. ASSUME Quit PROVE HeldInv'
  BY <1>16 DEF Quit
<1>17. ASSUME Crash PROVE HeldInv'
  BY <1>17 DEF Crash
<1>18. ASSUME Restart PROVE HeldInv'
  BY <1>18 DEF Restart, NotPublished
<1>19. ASSUME Connect PROVE HeldInv'
  BY <1>19 DEF Connect
<1>20. ASSUME Drain PROVE HeldInv'
  BY <1>20 DEF Drain
<1>21. ASSUME Die PROVE HeldInv'
  BY <1>21 DEF Die
<1>22. ASSUME Apply PROVE HeldInv'
  BY <1>22 DEF Apply, Reach
<1> QED
  BY <1>1, <1>2, <1>3, <1>4, <1>5, <1>6, <1>7, <1>8, <1>9, <1>10, <1>11, <1>12, <1>13, <1>14, <1>15, <1>16, <1>17, <1>18, <1>19, <1>20, <1>21, <1>22
  DEF Next, StartStep, StopStep

\* stop() reaches what start() had done before it.
LEMMA StopStepInv ==
  ASSUME PublisherAssumption, IInv, Next PROVE StopInv'
<1> USE DEF IInv, Types, States, AskedInv, StartInv, HeldInv, StopInv, Daemon, Configures, Reach, process, backend, notes
<1>1. ASSUME Nothing PROVE StopInv'
  BY <1>1 DEF Nothing, Starting, NotPublished
<1>2. ASSUME Spawn PROVE StopInv'
  BY <1>2 DEF Spawn, Starting
<1>3. ASSUME Configure PROVE StopInv'
  BY <1>3 DEF Configure, Starting
<1>4. ASSUME CannotStart PROVE StopInv'
  BY <1>4 DEF CannotStart, Starting, Failed
<1>5. ASSUME GaveUp PROVE StopInv'
  BY <1>5 DEF GaveUp, Starting
<1>6. ASSUME Stood PROVE StopInv'
  BY <1>6 DEF Stood, Starting
<1>7. ASSUME Store PROVE StopInv'
  BY <1>7 DEF Store, Starting
<1>8. ASSUME Settle PROVE StopInv'
  BY <1>8 DEF Settle, Starting, Published
<1>9. ASSUME LookAtChild PROVE StopInv'
  BY <1>9 DEF LookAtChild
<1>10. ASSUME LookAtState PROVE StopInv'
  BY <1>10 DEF LookAtState, Failed, Confirm
<1>11. ASSUME Take PROVE StopInv'
  BY <1>11 DEF Take
<1>12. ASSUME Kill PROVE StopInv'
  BY <1>12 DEF Kill
<1>13. ASSUME Clear PROVE StopInv'
  BY <1>13 DEF Clear
<1>14. ASSUME Undo PROVE StopInv'
  BY <1>14 DEF Undo, Reach
<1>15. ASSUME Unset PROVE StopInv'
  BY <1>15 DEF Unset, NotPublished
<1>16. ASSUME Quit PROVE StopInv'
  BY <1>16 DEF Quit
<1>17. ASSUME Crash PROVE StopInv'
  BY <1>17 DEF Crash
<1>18. ASSUME Restart PROVE StopInv'
  BY <1>18 DEF Restart, NotPublished
<1>19. ASSUME Connect PROVE StopInv'
  BY <1>19 DEF Connect
<1>20. ASSUME Drain PROVE StopInv'
  BY <1>20 DEF Drain
<1>21. ASSUME Die PROVE StopInv'
  BY <1>21 DEF Die
<1>22. ASSUME Apply PROVE StopInv'
  BY <1>22 DEF Apply, Reach
<1> QED
  BY <1>1, <1>2, <1>3, <1>4, <1>5, <1>6, <1>7, <1>8, <1>9, <1>10, <1>11, <1>12, <1>13, <1>14, <1>15, <1>16, <1>17, <1>18, <1>19, <1>20, <1>21, <1>22
  DEF Next, StartStep, StopStep

-----------------------------------------------------------------------------
(* The invariant, and what follows from it.                                *)

LEMMA IInit == ASSUME PublisherAssumption PROVE Init => IInv
<1> SUFFICES ASSUME Init PROVE IInv
  OBVIOUS
<1>1. conf \in Confs /\ Accepted(conf) /\ run \in 1..MaxRuns
  BY DEF PublisherAssumption, Init
<1>2. state \in States /\ applied \in Reaches
  BY StateTypes DEF Init, Reaches
<1>3. Types /\ AskedInv
  BY <1>1, <1>2 DEF Init, Types, Steps, Stops, AskedInv
<1>4. StartInv /\ HeldInv /\ StopInv
  BY DEF Init, StartInv, HeldInv, StopInv, NotPublished
<1> QED
  BY <1>3, <1>4 DEF IInv

LEMMA IStep == ASSUME PublisherAssumption PROVE IInv /\ [Next]_vars => IInv'
<1> SUFFICES ASSUME IInv, [Next]_vars PROVE IInv'
  OBVIOUS
<1>1. CASE Next
  BY <1>1, TypesStep, AskedStep, StartStepInv, HeldStep, StopStepInv DEF IInv
<1>2. CASE UNCHANGED vars
  BY <1>2 DEF vars, IInv, Types, AskedInv, StartInv, HeldInv, StopInv
<1> QED
  BY <1>1, <1>2

\* IInv holds throughout, however start, state and stop interleave and
\* whatever the backends do.
THEOREM Invariant == ASSUME PublisherAssumption PROVE Spec => []IInv
<1>1. Init => IInv
  BY IInit
<1>2. IInv /\ [Next]_vars => IInv'
  BY IStep
<1> QED
  BY <1>1, <1>2, PTL DEF Spec

\* The types of what a publisher keeps.
THEOREM TypesKept == ASSUME PublisherAssumption PROVE Spec => []TypeOK
<1>1. IInv => TypeOK
  BY DEF IInv, Types, TypeOK, Steps, Stops, States
<1> QED
  BY <1>1, Invariant, PTL

\* Without Access in front, nothing but "auto" puts the gateway on the internet.
THEOREM WarnedOrSecondFactor == ASSUME PublisherAssumption PROVE Spec => []SecondFactorOrWarned
<1>1. ASSUME IInv PROVE SecondFactorOrWarned
  BY <1>1, Reached DEF IInv, AskedInv, SecondFactorOrWarned, Exposed
<1> QED
  BY <1>1, Invariant, PTL

\* Once start is done, what the panel calls loopback or tailnet is exposed no further.
THEOREM ToldTruly == ASSUME PublisherAssumption PROVE Spec => []ToldLoopbackIsTrue
<1>1. ASSUME IInv PROVE ToldLoopbackIsTrue
  <2> SUFFICES ASSUME start = "done", stop = "idle", CarriesAFactor(state.reach),
                      NEW r \in Reaches \ {"loopback"}, Exposed(r)
               PROVE  r = state.reach
    BY DEF ToldLoopbackIsTrue
  <2>1. state.kind = "published" /\ state.reach = Reach(conf)
    BY <1>1 DEF IInv, HeldInv, StartInv, Exposed
  <2>2. CASE daemon = "up"
    <3>1. Reach(conf) = "internet"
      BY <1>1, <2>2 DEF IInv, AskedInv, Reach
    <3> QED
      BY <2>1, <3>1 DEF CarriesAFactor
  <2>3. CASE command = "applied" /\ applied = r
    BY <1>1, <2>1, <2>3 DEF IInv, AskedInv
  <2> QED
    BY <2>2, <2>3 DEF Exposed
<1> QED
  BY <1>1, Invariant, PTL

\* A process that quits after its publisher had started has taken back what it
\* published, unless the command that does so failed.
THEOREM NothingLeft == ASSUME PublisherAssumption PROVE Spec => []QuitUnpublishes
<1>1. IInv => QuitUnpublishes
  BY DEF IInv, StopInv, QuitUnpublishes
<1> QED
  BY <1>1, Invariant, PTL

\* A look that finds the daemon dead leaves the panel with no published gateway.
THEOREM DeathTold == ASSUME PublisherAssumption PROVE Spec => DeathIsTold
<1> DEFINE Told == look = "died" /\ look' = "no" /\ life' = "up" /\ start = "done" =>
                     state'.kind # "published"
<1>1. ASSUME IInv, Next PROVE Told
  <2> SUFFICES ASSUME look = "died", look' = "no", life' = "up" PROVE state'.kind # "published"
    OBVIOUS
  <2>1. CASE LookAtState
    BY <1>1, <2>1 DEF IInv, Types, States, LookAtState, Failed, Confirm
  <2>2. CASE Restart
    BY <2>2 DEF Restart, NotPublished
  <2>3. CASE StartStep \/ StopStep
    BY <2>3 DEF StartStep, Nothing, Spawn, Configure, CannotStart, GaveUp, Stood, Store, Settle,
                StopStep, Kill, Clear, Undo, Unset
  <2>4. CASE LookAtChild \/ Take \/ Quit \/ Crash \/ Connect \/ Drain \/ Die \/ Apply
    BY <2>4 DEF LookAtChild, Take, Quit, Crash, Connect, Drain, Die, Apply
  <2> QED
    BY <1>1, <2>1, <2>2, <2>3, <2>4 DEF Next
<1>2. ASSUME UNCHANGED vars PROVE Told
  BY <1>2 DEF vars
<1>3. IInv /\ [Next]_vars => [Told]_vars
  BY <1>1, <1>2
<1> QED
  BY <1>3, Invariant, PTL DEF DeathIsTold, Spec
-----------------------------------------------------------------------------
(* Listeners coming and going.                                             *)

\* A call that is not over came in by hand, or on a listener that serves or
\* waits for it, so a listener that releases holds has none of its own left;
\* and only one that was told to stop gets to release any.
ListenInv ==
  /\ \A c \in Calls : Live(c) /\ at[c] # Window =>
       at[c] \in Servers /\ srv[at[c]] \in {"serving", "draining"}
  /\ \A s \in Servers : srv[s] \in {"draining", "releasing", "marking"} => s \in cancelled

LifeInv == ListenTypes /\ ListenInv /\ PauseCutsNothing

\* Every step of the shell, a listener, a monitor or a call keeps LifeInv.
LEMMA LifeInductive ==
  ASSUME Window \notin Servers, LifeInv, [ListenNext]_listenVars PROVE LifeInv'
<1> USE DEF LifeInv, ListenInv, ListenTypes, PauseCutsNothing, Live,
            callVars, monVars, shellVars, Become, End, ReleaseHolds, Serving
<1>1. CASE Pause
  BY <1>1 DEF Pause
<1>2. CASE QuitApp
  BY <1>2 DEF QuitApp
<1>3. CASE Gone
  BY <1>3 DEF Gone
<1>4. ASSUME NEW m \in Commands, ResumeCheck(m) \/ ResumeStart(m) PROVE LifeInv'
  <2>1. CASE ResumeCheck(m)
    BY <2>1 DEF ResumeCheck
  <2>2. CASE ResumeStart(m)
    BY <2>2 DEF ResumeStart
  <2> QED
    BY <1>4, <2>1, <2>2
<1>5. ASSUME NEW s \in Servers, Bind(s) \/ BindFails(s) \/ BindFailed(s) PROVE LifeInv'
  <2>1. CASE Bind(s)
    BY <2>1 DEF Bind
  <2>2. CASE BindFails(s)
    BY <2>2 DEF BindFails
  <2>3. CASE BindFailed(s)
    BY <2>3 DEF BindFailed
  <2> QED
    BY <1>5, <2>1, <2>2, <2>3
<1>6. ASSUME NEW s \in Servers, StopAccepting(s) PROVE LifeInv'
  BY <1>6 DEF StopAccepting
<1>7. ASSUME NEW s \in Servers, Drained(s) PROVE LifeInv'
  BY <1>7 DEF Drained
<1>8. ASSUME NEW s \in Servers, Release(s) PROVE LifeInv'
  BY <1>8 DEF Release
<1>9. ASSUME NEW s \in Servers, MarkPaused(s) PROVE LifeInv'
  BY <1>9 DEF MarkPaused
<1>10. ASSUME NEW s \in Servers, Health(s) PROVE LifeInv'
  BY <1>10 DEF Health, Probed, Report, Wake
<1>11. ASSUME NEW c \in Calls, Accept(c) \/ Fire(c) PROVE LifeInv'
  <2>1. CASE Accept(c)
    BY <2>1 DEF Accept
  <2>2. CASE Fire(c)
    BY <2>2 DEF Fire
  <2> QED
    BY <1>11, <2>1, <2>2
<1>12. ASSUME NEW c \in Calls, Hold(c) PROVE LifeInv'
  BY <1>12 DEF Hold
<1>13. ASSUME NEW c \in Calls, Answer(c) \/ Expire(c) \/ Finish(c) PROVE LifeInv'
  BY <1>13 DEF Answer, Expire, Finish
<1>14. CASE UNCHANGED listenVars
  BY <1>14 DEF listenVars
<1> HIDE DEF LifeInv
<1> QED
  BY <1>1, <1>2, <1>3, <1>4, <1>5, <1>6, <1>7, <1>8, <1>9, <1>10, <1>11, <1>12, <1>13, <1>14
  DEF ListenNext, Shell, Serve, Run

\* Pausing cuts no call short, and every variable of Lifecycle keeps its type,
\* whatever listeners come and go (PauseCutsNothing and ListenTypes).
THEOREM PausingIsGentle == ListenSpec => [](ListenTypes /\ PauseCutsNothing)
<1>1. ListenInit => LifeInv
  BY DEF ListenInit, LifeInv, ListenInv, ListenTypes, PauseCutsNothing, Live
<1>2. LifeInv /\ [ListenNext]_listenVars => LifeInv'
  BY LifeInductive, LifecycleAssumption
<1>3. LifeInv => ListenTypes /\ PauseCutsNothing
  BY DEF LifeInv
<1> QED
  BY <1>1, <1>2, <1>3, PTL DEF ListenSpec
=============================================================================
