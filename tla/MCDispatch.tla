----------------------------- MODULE MCDispatch -----------------------------
(***************************************************************************)
(* For TLC: what dispatching a call takes, the claim on its key            *)
(* (Idempotency) and its command (Exec).  The two share no variable, so a  *)
(* behaviour is about one, while the other stays as it began.              *)
(***************************************************************************)
EXTENDS MCIdempotency, Exec

\* A timeout alone; a deadline above it; a fallback with a deadline; one that is
\* due with the timeout; and one that comes after it.
MCLimits == {[timeout |-> 2, deadline |-> 0, after |-> 0],
             [timeout |-> 2, deadline |-> 3, after |-> 0],
             [timeout |-> 2, deadline |-> 3, after |-> 1],
             [timeout |-> 1, deadline |-> 0, after |-> 1],
             [timeout |-> 1, deadline |-> 3, after |-> 2]}
-----------------------------------------------------------------------------
VARIABLE about   \* "key" or "command"

AKey     == about = "key"     /\ UNCHANGED <<about, execVars>>
ACommand == about = "command" /\ UNCHANGED <<about, vars>>

MCInit == /\ Init /\ ExecInit /\ about \in {"key", "command"}
          /\ about = "command" => \A k \in Keys : state[k] = "free"
          /\ about = "key" => limit = [timeout |-> 2, deadline |-> 0, after |-> 0]

KeyNext ==
  \/ AKey /\ Crash
  \/ \E c \in Calls :
       \/ (AKey /\ FindRow(c)) \/ (AKey /\ FindNothing(c)) \/ (AKey /\ FindFails(c))
       \/ (AKey /\ Claim(c)) \/ (AKey /\ LoseRace(c)) \/ (AKey /\ ClaimFails(c))
       \/ (AKey /\ Send(c)) \/ (AKey /\ Stopped(c)) \/ (AKey /\ Takes(c))
       \/ (AKey /\ Reply(c)) \/ (AKey /\ NoReply(c)) \/ (AKey /\ HangUp(c))
       \/ (AKey /\ Complete(c)) \/ (AKey /\ CompleteFails(c)) \/ (AKey /\ Release(c))

CommandNext ==
  \/ ACommand /\ Tick
  \/ \E c \in Jobs :
       \/ (ACommand /\ Ask(c)) \/ (ACommand /\ Refuse(c)) \/ (ACommand /\ Start(c))
       \/ (ACommand /\ StartFails(c)) \/ (ACommand /\ NotStarted(c))
       \/ (ACommand /\ Exited(c)) \/ (ACommand /\ Stop(c)) \/ (ACommand /\ FallBack(c))
       \/ (ACommand /\ FallBackFails(c)) \/ (ACommand /\ Dropped(c))
       \/ (ACommand /\ Fork(c)) \/ (ACommand /\ Detach(c))
       \/ (\E p \in Kinds : ACommand /\ Exit(c, p))

MCSpec == MCInit /\ [][KeyNext \/ CommandNext]_<<about, vars, execVars>>
=============================================================================
