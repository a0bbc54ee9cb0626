------------------------------ MODULE MCFront ------------------------------
(***************************************************************************)
(* For TLC: the door (Front), and the parts of a call that have no state   *)
(* of their own (Forms, ConfigFile, Trade).  They share no variable, so a  *)
(* behaviour is about one of the two, while the other stays as it began.   *)
(***************************************************************************)
EXTENDS Front, MCForms

CONSTANTS q1, q2, k1

MCRequests == {q1, q2}
MCKeys     == {k1}
-----------------------------------------------------------------------------
VARIABLE about   \* "door" or "parts"

DoorMoves  == about = "door" /\ UNCHANGED <<about, kind, in>>
PartsMove  == about = "parts" /\ UNCHANGED <<about, vars>>

MCInit == /\ Init /\ FormsInit /\ about \in {"door", "parts"}
          /\ about = "parts" => ~access /\ Published = {}

MCNext ==
  \/ \E r \in Requests : \/ DoorMoves /\ Arrive(r)
                         \/ DoorMoves /\ Look(r)
                         \/ DoorMoves /\ TeamAnswers(r)
                         \/ DoorMoves /\ Keep(r)
                         \/ DoorMoves /\ FetchFails(r)
                         \/ DoorMoves /\ Serve(r)
                         \/ DoorMoves /\ HangUp(r)
  \/ \E k \in Keys : DoorMoves /\ Rotate(k)
  \/ DoorMoves /\ Tick
  \/ PartsMove /\ TakeCall
  \/ PartsMove /\ TakeLine
  \/ PartsMove /\ TakeRequest
  \/ PartsMove /\ TakeWire
  \/ PartsMove /\ Find
  \/ PartsMove /\ Make
  \/ PartsMove /\ Launch
  \/ PartsMove /\ Panel
  \/ PartsMove /\ AddConnection
  \/ PartsMove /\ Quit
  \/ PartsMove /\ Open
  \/ PartsMove /\ SaveScript
  \/ PartsMove /\ DeleteScript
  \/ PartsMove /\ Inspect
  \/ PartsMove /\ PointAt
  \/ PartsMove /\ Apply
  \/ PartsMove /\ Export

\* Fairness is the door's; the parts owe nothing.
MCSpec == /\ MCInit /\ [][MCNext]_<<about, vars, kind, in>>
          /\ \A r \in Requests : WF_vars(DoorMoves /\ Step(r))
=============================================================================
