------------------------------ MODULE MCShell ------------------------------
(***************************************************************************)
(* For TLC: what the shells start and stop, the listeners (Lifecycle) and  *)
(* what publishes them (Publisher).  The two share no variable, so a       *)
(* behaviour is about one, while the other stays as it began.              *)
(***************************************************************************)
EXTENDS Publisher, Lifecycle

CONSTANTS s1, s2, c1, m1, m2
-----------------------------------------------------------------------------
VARIABLE about   \* "publisher" or "listeners"

Publish == about = "publisher" /\ UNCHANGED <<about, listenVars>>
Listen  == about = "listeners" /\ UNCHANGED <<about, vars>>

MCInit == /\ Init /\ ListenInit /\ about \in {"publisher", "listeners"}
          /\ about # "publisher" => conf = [via |-> "none", funnel |-> FALSE, access |-> FALSE]
          /\ about # "listeners" => slot = s1

PublisherNext ==
  \/ (Publish /\ Nothing) \/ (Publish /\ Spawn) \/ (Publish /\ Configure)
  \/ (Publish /\ CannotStart) \/ (Publish /\ GaveUp) \/ (Publish /\ Stood)
  \/ (Publish /\ Store) \/ (Publish /\ Settle) \/ (Publish /\ LookAtChild)
  \/ (Publish /\ LookAtState) \/ (Publish /\ Take) \/ (Publish /\ Kill)
  \/ (Publish /\ Clear) \/ (Publish /\ Undo) \/ (Publish /\ Unset) \/ (Publish /\ Quit)
  \/ (Publish /\ Crash) \/ (Publish /\ Restart) \/ (Publish /\ Connect)
  \/ (Publish /\ Drain) \/ (Publish /\ Die) \/ (Publish /\ Apply)

ListenersNext ==
  \/ (Listen /\ Pause) \/ (Listen /\ QuitApp) \/ (Listen /\ Gone)
  \/ \E m \in Commands :
       \/ (Listen /\ ResumeCheck(m)) \/ (Listen /\ ResumeStart(m))
  \/ \E s \in Servers :
       \/ (Listen /\ Bind(s)) \/ (Listen /\ BindFails(s)) \/ (Listen /\ BindFailed(s))
       \/ (Listen /\ Drained(s)) \/ (Listen /\ StopAccepting(s)) \/ (Listen /\ Release(s))
       \/ (Listen /\ Probed(s)) \/ (Listen /\ MarkPaused(s)) \/ (Listen /\ Report(s))
       \/ (Listen /\ Wake(s))
  \/ \E c \in Calls :
       \/ (Listen /\ Accept(c)) \/ (Listen /\ Fire(c)) \/ (Listen /\ Hold(c))
       \/ (Listen /\ Answer(c)) \/ (Listen /\ Expire(c)) \/ (Listen /\ Finish(c))

\* Fairness is the listeners' (Lifecycle, Fairness); the publisher needs none.
MCSpec == /\ MCInit
          /\ [][PublisherNext \/ ListenersNext]_<<about, vars, listenVars>>
          /\ \A s \in Servers : /\ WF_listenVars(Listen /\ Serve(s))
                                /\ WF_listenVars(Listen /\ Health(s))
          /\ \A c \in Calls : /\ WF_listenVars(Listen /\ Expire(c))
                              /\ WF_listenVars(Listen /\ Finish(c))
=============================================================================
