----------------------------- MODULE CallProofs -----------------------------
(***************************************************************************)
(* run_call and the session its proxied calls share, for any number of     *)
(* calls, whatever the policy says of each, and any deadline and timeout.  *)
(***************************************************************************)
EXTENDS Call, TLAPS

Places == {"idle", "held", "deciding", "running", "entering", "introducing", "notifying",
           "posted", "rejected", "stale", "answered", "done", "gone"}
Sids   == {"none", "known", "forgotten"}
Kinds  == [by : {"client", "hand"}, says : {"allow", "ask", "deny"},
           tool : {"unknown", "command", "read", "write"}, once : BOOLEAN]
Rows   == {"none", "ok", "failed", "stale", "replayed", "unknown", "deny", "shutdown",
           "approval_timeout"}
Tries  == [n : 0..2, sid : Sids, again : BOOLEAN]
Msgs   == [by : Actors, n : 0..2, sid : Sids]
Clocks == [all : Nat, part : Nat]

Types == /\ pc \in [Actors -> Places] /\ call \in [Calls -> Kinds]
         /\ age \in [Calls -> Clocks]
         /\ asked \in [Calls -> {"none", "allow", "deny", "shutdown"}]
         /\ row \in [Calls -> Rows] /\ acts \in [Calls -> Nat]
         /\ try \in [Actors -> Tries]
         /\ session \in Sids /\ lock \in Actors \cup {NoOne} /\ stateful \in BOOLEAN
         /\ wire \subseteq Msgs

\* The lock is held through an introduction, and by nobody else.
Introducing(a) == pc[a] \in {"introducing", "notifying"}
LockInv == \A a \in Actors : lock = a <=> Introducing(a)

\* An actor has a request under way only while it waits for that one, or when
\* it no longer waits for any.
Sent(a)  == \E m \in wire : m.by = a
WireInv ==
  /\ \A m \in wire : pc[m.by] \in {"posted", "done", "gone"}
  /\ \A m \in wire : pc[m.by] = "posted" => m.n = try[m.by].n
  /\ \A m1, m2 \in wire : m1.by = m2.by => m1 = m2

\* Until its request was taken, a call has not acted; once it has, none is left.
ActsInv ==
  \A c \in Calls :
    /\ acts[c] <= 1
    /\ Sent(c) => acts[c] = 0
    /\ pc[c] \notin {"running", "answered", "done", "gone"} => acts[c] = 0
    /\ pc[c] = "answered" => acts[c] = 1

\* A row is written by the call's end, and what it refuses cannot act later.
RowInv ==
  \A c \in Calls :
    /\ row[c] # "none" => pc[c] = "done"
    /\ row[c] = "ok" => acts[c] = 1
    /\ row[c] \in Refusals => acts[c] = 0 /\ ~Sent(c)
    /\ row[c] = "replayed" => IF call[c].once THEN acts[c] = 0 /\ ~Sent(c) ELSE acts[c] = 1

Decided(c) == /\ call[c].tool # "unknown" /\ call[c].says # "deny"
              /\ \/ asked[c] = "allow"
                 \/ call[c].by = "client" /\ call[c].says = "allow"
                 \/ call[c].by = "hand" /\ call[c].tool = "read"

\* Past the hold, with a request under way, or after acting: the call was let through.
DecidedInv ==
  \A c \in Calls :
    /\ pc[c] \notin {"idle", "held", "done", "gone"} \/ Sent(c) \/ acts[c] > 0 => Decided(c)
    /\ pc[c] = "held" => call[c].tool # "unknown" /\ call[c].says # "deny"

\* The clocks: a hold within its wait, a command within its deadline.
ClockInv ==
  \A c \in Calls :
    /\ pc[c] = "idle" => age[c] = Started
    /\ pc[c] = "held" => age[c].all = age[c].part /\ age[c].part <= Wait(call[c])
    /\ pc[c] = "deciding" /\ call[c].by = "client" => age[c].all <= Deadline - 1
    /\ pc[c] = "running" =>
         /\ age[c].part <= Deadline
         /\ call[c].by = "client" => age[c].all <= age[c].part + Deadline - 1

\* Whoever sends again, and has not been forgotten since, carries no old session.
Anew(a) == stateful /\ try[a].n = 2 /\ ~try[a].again
SessionInv ==
  /\ \A a \in Actors : Anew(a) => session # "forgotten" /\ try[a].sid # "forgotten"
  /\ \A m \in wire : m.n = 2 /\ pc[m.by] = "posted" /\ Anew(m.by) => m.sid # "forgotten"
  /\ \A a \in Actors : pc[a] = "rejected" => stateful /\ ~Anew(a)

\* In the middle of an rpc, its first or its second request is counted.
TryInv == \A a \in Actors :
            pc[a] \notin {"idle", "held", "deciding", "running", "done", "gone"} => try[a].n # 0

IInv == /\ Types /\ LockInv /\ WireInv /\ ActsInv /\ RowInv /\ DecidedInv /\ ClockInv
        /\ SessionInv /\ TryInv

-----------------------------------------------------------------------------
(* What the decision and the ways to end or to send do.                    *)

\* Only what the policy does not deny is held, and only what it allows to a
\* client, or a reading tool fired by hand, passes without a hold.
LEMMA DecisionMeans ==
  ASSUME NEW k \in Kinds
  PROVE  /\ Decision(k) \in {"unknown", "deny", "allow", "ask"}
         /\ Decision(k) \in {"allow", "ask"} => k.tool # "unknown" /\ k.says # "deny"
         /\ Decision(k) = "allow" => \/ k.by = "client" /\ k.says = "allow"
                                     \/ k.by = "hand" /\ k.tool = "read"
BY DEF Kinds, Decision

\* A wait is a number of ticks, and a client's leaves room for the answer.
LEMMA WaitFits ==
  ASSUME CallAssumption, NEW k \in Kinds
  PROVE  Wait(k) \in Nat /\ (k.by = "client" => Wait(k) <= Deadline - 1)
BY DEF CallAssumption, Kinds, Wait

EndTyped == /\ pc \in [Actors -> Places] /\ row \in [Calls -> Rows]
            /\ age \in [Calls -> Clocks]
            /\ try \in [Actors -> Tries]

\* An rpc's record stays one whichever of its fields is set.
LEMMA TryFields ==
  ASSUME NEW t \in Tries
  PROVE  [t EXCEPT !.n = 1] \in Tries /\ [t EXCEPT !.again = FALSE] \in Tries
<1>1. [t EXCEPT !.n = 1] \in Tries
  BY DEF Tries
<1>2. [t EXCEPT !.again = FALSE] \in Tries
  BY DEF Tries
<1> QED
  BY <1>1, <1>2

LEMMA GoTypes ==
  ASSUME EndTyped, NEW a \in Actors, NEW p \in Places, Go(a, p), UNCHANGED <<row, age>>,
         try' \in [Actors -> Tries]
  PROVE  EndTyped'
BY DEF EndTyped, Go

LEMMA EndTypes ==
  ASSUME EndTyped, NEW c \in Calls, NEW r \in Rows, End(c, r)
  PROVE  EndTyped'
<1>1. c \in Actors /\ "done" \in Places
  BY DEF Actors, Places
<1>2. NoTry \in Tries /\ Started \in Clocks
  BY DEF NoTry, Started, Sids, Tries, Clocks
<1>3. pc' \in [Actors -> Places] /\ row' \in [Calls -> Rows]
  BY <1>1 DEF EndTyped, End, Go
<1>4. /\ age' \in [Calls -> Clocks]
      /\ try' \in [Actors -> Tries]
  BY <1>1, <1>2 DEF EndTyped, End
<1> QED
  BY <1>3, <1>4 DEF EndTyped

LEMMA GiveTypes ==
  ASSUME EndTyped, NEW a \in Actors, NEW r \in Rows, Give(a, r)
  PROVE  EndTyped'
<1>1. CASE a \in Calls
  BY <1>1, EndTypes DEF Give
<1>2. CASE a \notin Calls
  <2>1. NoTry \in Tries /\ "done" \in Places
    BY DEF NoTry, Sids, Places, Tries
  <2> QED
    BY <1>2, <2>1 DEF EndTyped, Give, Go
<1> QED
  BY <1>1, <1>2

LEMMA PostTypes ==
  ASSUME Types, NEW a \in Actors, NEW sid \in Sids, Post(a, sid)
  PROVE  /\ pc' \in [Actors -> Places]
         /\ try' \in [Actors -> Tries]
         /\ wire' \subseteq Msgs
BY DEF Types, Post, Go, Places, Tries, Msgs

\* Every step keeps the types.
LEMMA TypesStep ==
  ASSUME CallAssumption, IInv, Next PROVE Types'
<1> USE DEF IInv, Types, Tries, Msgs, Clocks, Actors, CallAssumption, Places, Rows, Sids, Started, NoTry
<1>1. ASSUME NEW c \in Calls, Decide(c) PROVE Types'
  <2>1. PICK k \in Fires[c] : /\ call' = [call EXCEPT ![c] = k] /\ k \in Kinds
                             /\ \/ Go(c, "deciding") /\ UNCHANGED <<age, row, try>>
                                \/ Go(c, "held") /\ UNCHANGED <<age, row, try>>
                                \/ \E r \in Rows : End(c, r)
    BY <1>1, DecisionMeans DEF Decide, Kinds
  <2>2. EndTyped /\ c \in Actors /\ "held" \in Places /\ "deciding" \in Places
    BY DEF EndTyped
  <2>3. EndTyped'
    <3>1. CASE \E r \in Rows : End(c, r)
      BY <2>2, <3>1, EndTypes
    <3>2. CASE (Go(c, "deciding") \/ Go(c, "held")) /\ UNCHANGED <<age, row, try>>
      BY <2>2, <3>2, GoTypes DEF EndTyped
    <3> QED
      BY <2>1, <3>1, <3>2
  <2> QED
    BY <1>1, <2>1, <2>3 DEF Decide, EndTyped
<1>2. ASSUME NEW c \in Calls, Answer(c) PROVE Types'
  <2>1. PICK o \in {"allow", "deny", "shutdown"} :
          /\ asked' = [asked EXCEPT ![c] = o]
          /\ IF o = "allow" THEN Go(c, "deciding") /\ UNCHANGED <<age, row, try>> ELSE End(c, o)
    BY <1>2 DEF Answer
  <2>2. EndTyped /\ c \in Actors /\ "deciding" \in Places /\ (o # "allow" => o \in Rows)
    BY DEF EndTyped
  <2>3. EndTyped'
    <3>1. CASE o = "allow"
      BY <2>1, <2>2, <3>1, GoTypes DEF EndTyped
    <3>2. CASE o # "allow"
      BY <2>1, <2>2, <3>2, EndTypes
    <3> QED
      BY <3>1, <3>2
  <2>4. asked' \in [Calls -> {"none", "allow", "deny", "shutdown"}]
    BY <2>1
  <2> QED
    BY <1>2, <2>3, <2>4 DEF Answer, EndTyped
<1>3. ASSUME NEW c \in Calls, Expire(c) PROVE Types'
  BY <1>3 DEF Expire, Overdue, Go, End
<1>4. ASSUME NEW c \in Calls, Dispatch(c) PROVE Types'
  <2>1. CASE End(c, "failed") \/ End(c, "replayed")
    <3>1. EndTyped'
      BY <2>1, EndTypes DEF EndTyped
    <3> QED
      BY <1>4, <3>1 DEF Dispatch, EndTyped
  <2>2. CASE ~(End(c, "failed") \/ End(c, "replayed"))
    <3>1. /\ pc' \in [Actors -> Places] /\ row' = row
      BY <1>4, <2>2 DEF Dispatch, Go
    <3>3. try' \in [Actors -> Tries]
      <4> HIDE DEF Tries
      <4>1. try[c] \in Tries
        OBVIOUS
      <4>2. [try[c] EXCEPT !.n = 1] \in Tries
        BY <4>1, TryFields
      <4> QED
        BY <1>4, <2>2, <4>2 DEF Dispatch
    <3>2. age' \in [Calls -> Clocks]
      <4>1. Started \in Clocks /\ [age[c] EXCEPT !.part = 0] \in Clocks
        OBVIOUS
      <4> QED
        BY <1>4, <2>2, <4>1 DEF Dispatch
    <3> QED
      BY <1>4, <3>1, <3>2, <3>3 DEF Dispatch
  <2> QED
    BY <2>1, <2>2
<1>5. ASSUME NEW c \in Calls, Ran(c) PROVE Types'
  <2>1. EndTyped'
    BY <1>5, EndTypes DEF Ran, EndTyped
  <2> QED
    BY <1>5, <2>1 DEF Ran, EndTyped
<1>6. ASSUME NEW c \in Calls, Run(c) PROVE Types'
  BY <1>6 DEF Run
<1>7. ASSUME NEW c \in Calls, HangUp(c) PROVE Types'
  BY <1>7 DEF HangUp, Go, Release, Live
<1>8. ASSUME NEW a \in Actors, Enter(a) PROVE Types'
  <2>1. CASE session # "none"
    BY <1>8, <2>1, PostTypes DEF Enter, path
  <2>2. CASE session = "none"
    BY <1>8, <2>2 DEF Enter, Go, path
  <2> QED
    BY <2>1, <2>2
<1>9. ASSUME NEW a \in Actors, Forget(a) PROVE Types'
  BY <1>9, SMTT(30) DEF Forget, Go, path
<1>10. ASSUME NEW a \in Actors, IntroFails(a) PROVE Types'
  <2>1. EndTyped'
    BY <1>10, GiveTypes DEF IntroFails, EndTyped
  <2> QED
    BY <1>10, <2>1 DEF IntroFails, EndTyped
<1>11. ASSUME NEW a \in Actors, Introduced(a) PROVE Types'
  BY <1>11 DEF Introduced, Go, Post, Rejects, path
<1>12. ASSUME NEW a \in Actors, Lost(a) PROVE Types'
  <2>1. EndTyped'
    BY <1>12, GiveTypes DEF Lost, EndTyped
  <2> QED
    BY <1>12, <2>1 DEF Lost, EndTyped
<1>13. ASSUME NEW a \in Actors, Answered(a) PROVE Types'
  <2>1. EndTyped'
    BY <1>13, GiveTypes DEF Answered, EndTyped
  <2> QED
    BY <1>13, <2>1 DEF Answered, EndTyped
<1>14. ASSUME NEW a \in Actors, Rejected(a) PROVE Types'
  <2>1. EndTyped'
    <3>1. EndTyped /\ "stale" \in Places /\ "stale" \in Rows
      BY DEF EndTyped
    <3>2. CASE try[a].n = 1
      <4>1. try' \in [Actors -> Tries]
        <5> HIDE DEF Tries
        <5>1. try[a] \in Tries
          OBVIOUS
        <5>2. [try[a] EXCEPT !.again = FALSE] \in Tries
          BY <5>1, TryFields
        <5> QED
          BY <1>14, <3>2, <5>2 DEF Rejected
      <4> QED
        BY <1>14, <3>1, <3>2, <4>1, GoTypes DEF Rejected
    <3>3. CASE try[a].n # 1
      BY <1>14, <3>1, <3>3, GiveTypes DEF Rejected
    <3> QED
      BY <3>2, <3>3
  <2> QED
    BY <1>14, <2>1 DEF Rejected, EndTyped
<1>15. ASSUME NEW a \in Actors, Introduce(a) PROVE Types'
  BY <1>15, SMTT(30) DEF Introduce, Go, path
<1>16. ASSUME NEW m \in wire, Take(m) PROVE Types'
  BY <1>16 DEF Take, Go, Waits, Rejects
<1>17. ASSUME Ping PROVE Types'
  <2>1. Probe \in Actors
    OBVIOUS
  <2>2. /\ pc' \in [Actors -> Places]
        /\ try' \in [Actors -> Tries]
        /\ wire' \subseteq wire
    BY <1>17, <2>1, SMTT(30) DEF Ping, Go
  <2> QED
    BY <1>17, <2>2 DEF Ping, path
<1>18. ASSUME PingTimeout PROVE Types'
  <2>1. EndTyped'
    BY <1>18, GiveTypes DEF PingTimeout, EndTyped
  <2> QED
    BY <1>18, <2>1 DEF PingTimeout, EndTyped, Release
<1>19. ASSUME ServerForgets PROVE Types'
  <2>1. \A sid \in Sids : Forgotten(sid) \in Sids
    BY DEF Forgotten
  <2>2. try' \in [Actors -> Tries]
    BY <1>19, <2>1, ZenonT(40) DEF ServerForgets
  <2>3. wire' \subseteq Msgs
    <3> SUFFICES ASSUME NEW m \in wire'
                 PROVE  m \in Msgs
      OBVIOUS
    <3>1. PICK w \in wire : m = [w EXCEPT !.sid = Forgotten(w.sid)]
      BY <1>19 DEF ServerForgets
    <3> QED
      BY <2>1, <3>1
  <2> QED
    BY <1>19, <2>1, <2>2, <2>3 DEF ServerForgets, path
<1>20. ASSUME Tick PROVE Types'
  BY <1>20 DEF Tick
<1> QED
  BY <1>1, <1>2, <1>3, <1>4, <1>5, <1>6, <1>7, <1>8, <1>9, <1>10, <1>11, <1>12, <1>13, <1>14, <1>15, <1>16, <1>17, <1>18, <1>19, <1>20 DEF Next, Own, Locking, Replies

\* The lock is taken to introduce oneself, and let go of with it.
LEMMA LockStep ==
  ASSUME CallAssumption, IInv, Next PROVE LockInv'
<1> USE DEF IInv, Types, Tries, Msgs, Clocks, LockInv, Introducing, CallAssumption, Actors
<1>1. ASSUME NEW c \in Calls, Decide(c) PROVE LockInv'
  BY <1>1 DEF Decide, Go, End
<1>2. ASSUME NEW c \in Calls, Answer(c) PROVE LockInv'
  BY <1>2 DEF Answer, Go, End
<1>3. ASSUME NEW c \in Calls, Expire(c) PROVE LockInv'
  BY <1>3 DEF Expire, Overdue, Go, End
<1>4. ASSUME NEW c \in Calls, Dispatch(c) PROVE LockInv'
  BY <1>4 DEF Dispatch, Go, End
<1>5. ASSUME NEW c \in Calls, Ran(c) PROVE LockInv'
  BY <1>5 DEF Ran, Go, End
<1>6. ASSUME NEW c \in Calls, Run(c) PROVE LockInv'
  BY <1>6 DEF Run
<1>7. ASSUME NEW c \in Calls, HangUp(c) PROVE LockInv'
  BY <1>7 DEF HangUp, Go, Release, Live
<1>8. ASSUME NEW a \in Actors, Enter(a) PROVE LockInv'
  BY <1>8 DEF Enter, Go, Post, path
<1>9. ASSUME NEW a \in Actors, Forget(a) PROVE LockInv'
  BY <1>9 DEF Forget, Go, path
<1>10. ASSUME NEW a \in Actors, IntroFails(a) PROVE LockInv'
  BY <1>10 DEF IntroFails, Give, End, Go
<1>11. ASSUME NEW a \in Actors, Introduced(a) PROVE LockInv'
  BY <1>11 DEF Introduced, Go, Post, Rejects, path
<1>12. ASSUME NEW a \in Actors, Lost(a) PROVE LockInv'
  BY <1>12 DEF Lost, Give, End, Go
<1>13. ASSUME NEW a \in Actors, Answered(a) PROVE LockInv'
  BY <1>13 DEF Answered, Give, End, Go
<1>14. ASSUME NEW a \in Actors, Rejected(a) PROVE LockInv'
  BY <1>14 DEF Rejected, Give, End, Go
<1>15. ASSUME NEW a \in Actors, Introduce(a) PROVE LockInv'
  BY <1>15 DEF Introduce, Go, path
<1>16. ASSUME NEW m \in wire, Take(m) PROVE LockInv'
  BY <1>16 DEF Take, Go, Waits, Rejects
<1>17. ASSUME Ping PROVE LockInv'
  BY <1>17 DEF Ping, Go, path
<1>18. ASSUME PingTimeout PROVE LockInv'
  BY <1>18 DEF PingTimeout, Give, Go, Release
<1>19. ASSUME ServerForgets PROVE LockInv'
  BY <1>19 DEF ServerForgets, Forgotten, Waits, path
<1>20. ASSUME Tick PROVE LockInv'
  BY <1>20 DEF Tick
<1> QED
  BY <1>1, <1>2, <1>3, <1>4, <1>5, <1>6, <1>7, <1>8, <1>9, <1>10, <1>11, <1>12, <1>13, <1>14, <1>15, <1>16, <1>17, <1>18, <1>19, <1>20 DEF Next, Own, Locking, Replies

\* A request sent by an actor with none under way.
LEMMA PostWire ==
  ASSUME Types, WireInv, NEW a \in Actors, pc[a] \notin {"posted", "done", "gone"},
         NEW sid \in Sids, Post(a, sid)
  PROVE  WireInv'
<1>1. \A m \in wire : m.by # a
  BY DEF WireInv
<1>2. /\ pc'[a] = "posted" /\ try'[a].n = try[a].n
      /\ \A b \in Actors \ {a} : pc'[b] = pc[b] /\ try'[b] = try[b]
  BY DEF Types, Post, Go
<1>3. \A m \in wire : m.by \in Actors \ {a}
  BY <1>1 DEF Types, Msgs
<1>4. \A m \in wire' : m = [by |-> a, n |-> try[a].n, sid |-> sid] \/ m \in wire
  BY DEF Post
<1> QED
  BY <1>2, <1>3, <1>4 DEF WireInv

\* What the server forgets are the sessions of what is still waited for.
LEMMA ForgetWire ==
  ASSUME Types, ServerForgets, NEW m \in wire'
  PROVE  \E w \in wire : /\ w.by = m.by /\ w.n = m.n /\ w.by \in Actors /\ Waits(w)
                         /\ m = [w EXCEPT !.sid = Forgotten(w.sid)]
<1>1. PICK w \in {v \in wire : Waits(v)} : m = [w EXCEPT !.sid = Forgotten(w.sid)]
  BY DEF ServerForgets
<1>2. w \in Msgs
  BY DEF Types
<1>3. m.by = w.by /\ m.n = w.n
  BY <1>1, <1>2 DEF Msgs
<1> QED
  BY <1>1, <1>2, <1>3 DEF Msgs

\* ... and of whoever is in the middle of an rpc, which is then marked.
LEMMA ForgetTry ==
  ASSUME Types, ServerForgets, NEW a \in Actors
  PROVE  try'[a].n = try[a].n /\ try'[a].again = (pc[a] = "stale" \/ try[a].n = 2)
<1>1. try[a] \in Tries /\ Forgotten(try[a].sid) \in Sids
  BY DEF Types, Tries, Sids, Forgotten
<1>2. try'[a] = [try[a] EXCEPT !.sid = Forgotten(try[a].sid),
                               !.again = pc[a] = "stale" \/ try[a].n = 2]
  BY DEF ServerForgets
<1>3. (pc[a] = "stale" \/ try[a].n = 2) \in BOOLEAN
  OBVIOUS
<1> QED
  BY <1>1, <1>2, <1>3 DEF Tries

\* A request leaves with its actor posted, and nothing else of it under way.
LEMMA WireStep ==
  ASSUME CallAssumption, IInv, Next PROVE WireInv'
<1> USE DEF IInv, Types, Tries, Msgs, Clocks, WireInv, CallAssumption, Actors
<1>1. ASSUME NEW c \in Calls, Decide(c) PROVE WireInv'
  BY <1>1 DEF Decide, Go, End
<1>2. ASSUME NEW c \in Calls, Answer(c) PROVE WireInv'
  BY <1>2 DEF Answer, Go, End
<1>3. ASSUME NEW c \in Calls, Expire(c) PROVE WireInv'
  BY <1>3 DEF Expire, Overdue, Go, End
<1>4. ASSUME NEW c \in Calls, Dispatch(c) PROVE WireInv'
  BY <1>4 DEF Dispatch, Go, End
<1>5. ASSUME NEW c \in Calls, Ran(c) PROVE WireInv'
  BY <1>5 DEF Ran, Go, End
<1>6. ASSUME NEW c \in Calls, Run(c) PROVE WireInv'
  BY <1>6 DEF Run
<1>7. ASSUME NEW c \in Calls, HangUp(c) PROVE WireInv'
  BY <1>7 DEF HangUp, Go, Release, Live
<1>8. ASSUME NEW a \in Actors, Enter(a) PROVE WireInv'
  <2>1. CASE session # "none"
    BY <1>8, <2>1, PostWire DEF Enter
  <2>2. CASE session = "none"
    BY <1>8, <2>2 DEF Enter, Go
  <2> QED
    BY <2>1, <2>2
<1>9. ASSUME NEW a \in Actors, Forget(a) PROVE WireInv'
  BY <1>9 DEF Forget, Go, path
<1>10. ASSUME NEW a \in Actors, IntroFails(a) PROVE WireInv'
  BY <1>10 DEF IntroFails, Give, End, Go
<1>11. ASSUME NEW a \in Actors, Introduced(a) PROVE WireInv'
  BY <1>11, PostWire DEF Introduced
<1>12. ASSUME NEW a \in Actors, Lost(a) PROVE WireInv'
  BY <1>12 DEF Lost, Give, End, Go
<1>13. ASSUME NEW a \in Actors, Answered(a) PROVE WireInv'
  BY <1>13 DEF Answered, Give, End, Go
<1>14. ASSUME NEW a \in Actors, Rejected(a) PROVE WireInv'
  BY <1>14 DEF Rejected, Give, End, Go
<1>15. ASSUME NEW a \in Actors, Introduce(a) PROVE WireInv'
  BY <1>15 DEF Introduce, Go, path
<1>16. ASSUME NEW m \in wire, Take(m) PROVE WireInv'
  BY <1>16 DEF Take, Go, Waits, Rejects
<1>17. ASSUME Ping PROVE WireInv'
  BY <1>17 DEF Ping, Go, path
<1>18. ASSUME PingTimeout PROVE WireInv'
  BY <1>18 DEF PingTimeout, Give, Go, Release
<1>19. ASSUME ServerForgets PROVE WireInv'
  <2>1. \A a \in Actors : try'[a].n = try[a].n
    BY <1>19, ForgetTry
  <2>2. pc' = pc
    BY <1>19 DEF ServerForgets
  <2> QED
    BY <1>19, <2>1, <2>2, ForgetWire DEF Waits
<1>20. ASSUME Tick PROVE WireInv'
  BY <1>20 DEF Tick
<1> QED
  BY <1>1, <1>2, <1>3, <1>4, <1>5, <1>6, <1>7, <1>8, <1>9, <1>10, <1>11, <1>12, <1>13, <1>14, <1>15, <1>16, <1>17, <1>18, <1>19, <1>20 DEF Next, Own, Locking, Replies

\* Only a command that runs and a request that is taken act.
LEMMA ActsStep ==
  ASSUME CallAssumption, IInv, Next PROVE ActsInv'
<1> USE DEF IInv, Types, Tries, Msgs, Clocks, WireInv, ActsInv, Sent, CallAssumption, Actors
<1>1. ASSUME NEW c \in Calls, Decide(c) PROVE ActsInv'
  BY <1>1 DEF Decide, Go, End
<1>2. ASSUME NEW c \in Calls, Answer(c) PROVE ActsInv'
  BY <1>2 DEF Answer, Go, End
<1>3. ASSUME NEW c \in Calls, Expire(c) PROVE ActsInv'
  BY <1>3 DEF Expire, Overdue, Go, End
<1>4. ASSUME NEW c \in Calls, Dispatch(c) PROVE ActsInv'
  BY <1>4 DEF Dispatch, Go, End
<1>5. ASSUME NEW c \in Calls, Ran(c) PROVE ActsInv'
  BY <1>5 DEF Ran, Go, End
<1>6. ASSUME NEW c \in Calls, Run(c) PROVE ActsInv'
  <2>1. ~Sent(c) /\ Sent(c)' = Sent(c)
    BY <1>6 DEF Run
  <2> QED
    BY <1>6, <2>1 DEF Run
<1>7. ASSUME NEW c \in Calls, HangUp(c) PROVE ActsInv'
  BY <1>7 DEF HangUp, Go, Release, Live
<1>8. ASSUME NEW a \in Actors, Enter(a) PROVE ActsInv'
  BY <1>8 DEF Enter, Go, Post, path
<1>9. ASSUME NEW a \in Actors, Forget(a) PROVE ActsInv'
  BY <1>9 DEF Forget, Go, path
<1>10. ASSUME NEW a \in Actors, IntroFails(a) PROVE ActsInv'
  BY <1>10, ZenonT(40) DEF IntroFails, Give, End, Go
<1>11. ASSUME NEW a \in Actors, Introduced(a) PROVE ActsInv'
  BY <1>11 DEF Introduced, Go, Post, Rejects, path
<1>12. ASSUME NEW a \in Actors, Lost(a) PROVE ActsInv'
  BY <1>12 DEF Lost, Give, End, Go
<1>13. ASSUME NEW a \in Actors, Answered(a) PROVE ActsInv'
  BY <1>13 DEF Answered, Give, End, Go
<1>14. ASSUME NEW a \in Actors, Rejected(a) PROVE ActsInv'
  BY <1>14 DEF Rejected, Give, End, Go
<1>15. ASSUME NEW a \in Actors, Introduce(a) PROVE ActsInv'
  BY <1>15 DEF Introduce, Go, path
<1>16. ASSUME NEW m \in wire, Take(m) PROVE ActsInv'
  BY <1>16 DEF Take, Go, Waits, Rejects
<1>17. ASSUME Ping PROVE ActsInv'
  BY <1>17 DEF Ping, Go, path
<1>18. ASSUME PingTimeout PROVE ActsInv'
  BY <1>18 DEF PingTimeout, Give, Go, Release
<1>19. ASSUME ServerForgets PROVE ActsInv'
  BY <1>19, ZenonT(40) DEF ServerForgets, Forgotten, Waits, path
<1>20. ASSUME Tick PROVE ActsInv'
  BY <1>20 DEF Tick
<1> QED
  BY <1>1, <1>2, <1>3, <1>4, <1>5, <1>6, <1>7, <1>8, <1>9, <1>10, <1>11, <1>12, <1>13, <1>14, <1>15, <1>16, <1>17, <1>18, <1>19, <1>20 DEF Next, Own, Locking, Replies

\* A row is written once, by the end of the call.
LEMMA RowStep ==
  ASSUME CallAssumption, IInv, Next PROVE RowInv'
<1> USE DEF IInv, Types, Tries, Msgs, Clocks, WireInv, ActsInv, RowInv, Sent, Refusals, CallAssumption, Actors
<1>1. ASSUME NEW c \in Calls, Decide(c) PROVE RowInv'
  <2>1. pc[c] = "idle" /\ row[c] = "none" /\ acts[c] = 0 /\ ~Sent(c)
    BY <1>1 DEF Decide
  <2>2. \E r \in Rows \ {"ok", "replayed"} : row' = [row EXCEPT ![c] = r] /\ (r = "none" \/ pc' = [pc EXCEPT ![c] = "done"])
    <3>1. PICK k \in Fires[c] :
            \/ UNCHANGED row
            \/ End(c, "approval_timeout")
            \/ Decision(k) \notin {"allow", "ask"} /\ End(c, Decision(k))
      BY <1>1 DEF Decide
    <3>2. Decision(k) \in {"unknown", "deny", "allow", "ask"}
      BY DecisionMeans DEF Kinds
    <3> QED
      BY <2>1, <3>1, <3>2 DEF End, Go, Rows
  <2>3. \A d \in Calls : Sent(d)' = Sent(d)
    BY <1>1 DEF Decide
  <2>4. acts' = acts /\ \A d \in Calls \ {c} : pc'[d] = pc[d] /\ row'[d] = row[d] /\ call'[d] = call[d]
    BY <1>1, <2>2 DEF Decide, End, Go
  <2>5. row'[c] \notin {"ok", "replayed"} /\ (row'[c] # "none" => pc'[c] = "done")
    BY <2>2
  <2> QED
    BY <2>1, <2>3, <2>4, <2>5
<1>2. ASSUME NEW c \in Calls, Answer(c) PROVE RowInv'
  BY <1>2 DEF Answer, Go, End
<1>3. ASSUME NEW c \in Calls, Expire(c) PROVE RowInv'
  BY <1>3 DEF Expire, Overdue, Go, End
<1>4. ASSUME NEW c \in Calls, Dispatch(c) PROVE RowInv'
  BY <1>4 DEF Dispatch, Go, End
<1>5. ASSUME NEW c \in Calls, Ran(c) PROVE RowInv'
  BY <1>5 DEF Ran, Go, End
<1>6. ASSUME NEW c \in Calls, Run(c) PROVE RowInv'
  BY <1>6 DEF Run
<1>7. ASSUME NEW c \in Calls, HangUp(c) PROVE RowInv'
  BY <1>7 DEF HangUp, Go, Release, Live
<1>8. ASSUME NEW a \in Actors, Enter(a) PROVE RowInv'
  BY <1>8 DEF Enter, Go, Post, path
<1>9. ASSUME NEW a \in Actors, Forget(a) PROVE RowInv'
  BY <1>9 DEF Forget, Go, path
<1>10. ASSUME NEW a \in Actors, IntroFails(a) PROVE RowInv'
  BY <1>10 DEF IntroFails, Give, End, Go
<1>11. ASSUME NEW a \in Actors, Introduced(a) PROVE RowInv'
  BY <1>11 DEF Introduced, Go, Post, Rejects, path
<1>12. ASSUME NEW a \in Actors, Lost(a) PROVE RowInv'
  BY <1>12 DEF Lost, Give, End, Go
<1>13. ASSUME NEW a \in Actors, Answered(a) PROVE RowInv'
  BY <1>13 DEF Answered, Give, End, Go
<1>14. ASSUME NEW a \in Actors, Rejected(a) PROVE RowInv'
  BY <1>14 DEF Rejected, Give, End, Go
<1>15. ASSUME NEW a \in Actors, Introduce(a) PROVE RowInv'
  BY <1>15 DEF Introduce, Go, path
<1>16. ASSUME NEW m \in wire, Take(m) PROVE RowInv'
  BY <1>16 DEF Take, Go, Waits, Rejects
<1>17. ASSUME Ping PROVE RowInv'
  BY <1>17 DEF Ping, Go, path
<1>18. ASSUME PingTimeout PROVE RowInv'
  BY <1>18 DEF PingTimeout, Give, Go, Release
<1>19. ASSUME ServerForgets PROVE RowInv'
  <2>1. \A c \in Calls : Sent(c)' => Sent(c)
    BY <1>19, ForgetWire
  <2> QED
    BY <1>19, <2>1 DEF ServerForgets, path
<1>20. ASSUME Tick PROVE RowInv'
  BY <1>20 DEF Tick
<1> QED
  BY <1>1, <1>2, <1>3, <1>4, <1>5, <1>6, <1>7, <1>8, <1>9, <1>10, <1>11, <1>12, <1>13, <1>14, <1>15, <1>16, <1>17, <1>18, <1>19, <1>20 DEF Next, Own, Locking, Replies

\* Nothing passes the hold but what was let through.
LEMMA DecidedStep ==
  ASSUME CallAssumption, IInv, Next PROVE DecidedInv'
<1> USE DEF IInv, Types, Tries, Msgs, Clocks, WireInv, ActsInv, DecidedInv, Decided, Sent, CallAssumption, Actors
<1>1. ASSUME NEW c \in Calls, Decide(c) PROVE DecidedInv'
  <2>1. acts[c] = 0 /\ ~Sent(c) /\ \A d \in Calls : Sent(d)' = Sent(d)
    BY <1>1 DEF Decide
  <2>2. PICK k \in Fires[c] :
          /\ call' = [call EXCEPT ![c] = k]
          /\ \/ Decision(k) = "allow" /\ Go(c, "deciding")
             \/ Decision(k) = "ask" /\ Go(c, "held")
             \/ Go(c, "done")
    BY <1>1 DEF Decide, End
  <2>3. /\ Decision(k) \in {"allow", "ask"} => k.tool # "unknown" /\ k.says # "deny"
        /\ Decision(k) = "allow" => \/ k.by = "client" /\ k.says = "allow"
                                    \/ k.by = "hand" /\ k.tool = "read"
    BY DecisionMeans DEF Kinds
  <2> QED
    BY <1>1, <2>1, <2>2, <2>3 DEF Decide, Go
<1>2. ASSUME NEW c \in Calls, Answer(c) PROVE DecidedInv'
  <2>1. acts[c] = 0 /\ ~Sent(c) /\ \A d \in Calls : Sent(d)' = Sent(d)
    BY <1>2 DEF Answer
  <2>2. PICK o \in {"allow", "deny", "shutdown"} :
          /\ asked' = [asked EXCEPT ![c] = o]
          /\ \/ o = "allow" /\ Go(c, "deciding")
             \/ o # "allow" /\ Go(c, "done")
    BY <1>2 DEF Answer, End
  <2> QED
    BY <1>2, <2>1, <2>2 DEF Answer, Go
<1>3. ASSUME NEW c \in Calls, Expire(c) PROVE DecidedInv'
  BY <1>3 DEF Expire, Overdue, Go, End
<1>4. ASSUME NEW c \in Calls, Dispatch(c) PROVE DecidedInv'
  BY <1>4 DEF Dispatch, Go, End
<1>5. ASSUME NEW c \in Calls, Ran(c) PROVE DecidedInv'
  BY <1>5 DEF Ran, Go, End
<1>6. ASSUME NEW c \in Calls, Run(c) PROVE DecidedInv'
  BY <1>6 DEF Run
<1>7. ASSUME NEW c \in Calls, HangUp(c) PROVE DecidedInv'
  BY <1>7 DEF HangUp, Go, Release, Live
<1>8. ASSUME NEW a \in Actors, Enter(a) PROVE DecidedInv'
  BY <1>8, SMTT(30) DEF Enter, Go, Post, path
<1>9. ASSUME NEW a \in Actors, Forget(a) PROVE DecidedInv'
  BY <1>9 DEF Forget, Go, path
<1>10. ASSUME NEW a \in Actors, IntroFails(a) PROVE DecidedInv'
  BY <1>10 DEF IntroFails, Give, End, Go
<1>11. ASSUME NEW a \in Actors, Introduced(a) PROVE DecidedInv'
  BY <1>11 DEF Introduced, Go, Post, Rejects, path
<1>12. ASSUME NEW a \in Actors, Lost(a) PROVE DecidedInv'
  BY <1>12 DEF Lost, Give, End, Go
<1>13. ASSUME NEW a \in Actors, Answered(a) PROVE DecidedInv'
  BY <1>13 DEF Answered, Give, End, Go
<1>14. ASSUME NEW a \in Actors, Rejected(a) PROVE DecidedInv'
  BY <1>14 DEF Rejected, Give, End, Go
<1>15. ASSUME NEW a \in Actors, Introduce(a) PROVE DecidedInv'
  BY <1>15 DEF Introduce, Go, path
<1>16. ASSUME NEW m \in wire, Take(m) PROVE DecidedInv'
  BY <1>16 DEF Take, Go, Waits, Rejects
<1>17. ASSUME Ping PROVE DecidedInv'
  BY <1>17 DEF Ping, Go, path
<1>18. ASSUME PingTimeout PROVE DecidedInv'
  BY <1>18 DEF PingTimeout, Give, Go, Release
<1>19. ASSUME ServerForgets PROVE DecidedInv'
  <2>1. \A c \in Calls : Sent(c)' => Sent(c)
    BY <1>19, ForgetWire
  <2> QED
    BY <1>19, <2>1 DEF ServerForgets, path
<1>20. ASSUME Tick PROVE DecidedInv'
  BY <1>20 DEF Tick
<1> QED
  BY <1>1, <1>2, <1>3, <1>4, <1>5, <1>6, <1>7, <1>8, <1>9, <1>10, <1>11, <1>12, <1>13, <1>14, <1>15, <1>16, <1>17, <1>18, <1>19, <1>20 DEF Next, Own, Locking, Replies

\* The clocks stop where the deadlines are.
LEMMA ClockStep ==
  ASSUME CallAssumption, IInv, Next PROVE ClockInv'
<1> USE DEF IInv, Types, Tries, Msgs, Clocks, ClockInv, Started, Wait, CallAssumption, Actors
<1>1. ASSUME NEW c \in Calls, Decide(c) PROVE ClockInv'
  BY <1>1 DEF Decide, Go, End
<1>2. ASSUME NEW c \in Calls, Answer(c) PROVE ClockInv'
  BY <1>2 DEF Answer, Go, End
<1>3. ASSUME NEW c \in Calls, Expire(c) PROVE ClockInv'
  BY <1>3 DEF Expire, Overdue, Go, End
<1>4. ASSUME NEW c \in Calls, Dispatch(c) PROVE ClockInv'
  <2>1. \/ \E r \in {"failed", "replayed"} : End(c, r)
        \/ Go(c, "entering") /\ age' = [age EXCEPT ![c] = Started]
        \/ Go(c, "running") /\ age' = [age EXCEPT ![c] = [age[c] EXCEPT !.part = 0]]
    BY <1>4 DEF Dispatch
  <2>2. age[c] \in Clocks
    OBVIOUS
  <2>3. [age[c] EXCEPT !.part = 0].all = age[c].all /\ [age[c] EXCEPT !.part = 0].part = 0
    BY <2>2
  <2>4. pc[c] = "deciding" /\ call' = call
    BY <1>4 DEF Dispatch
  <2>5. CASE \E r \in {"failed", "replayed"} : End(c, r)
    BY <2>4, <2>5 DEF Go, End
  <2>6. CASE Go(c, "entering") /\ age' = [age EXCEPT ![c] = Started]
    BY <2>4, <2>6 DEF Go
  <2>7. CASE Go(c, "running") /\ age' = [age EXCEPT ![c] = [age[c] EXCEPT !.part = 0]]
    <3>1. age'[c].all = age[c].all /\ age'[c].part = 0 /\ pc'[c] = "running"
      BY <2>3, <2>7 DEF Go
    <3>2. \A d \in Calls \ {c} : age'[d] = age[d] /\ pc'[d] = pc[d]
      BY <2>7 DEF Go
    <3>3. call[c].by = "client" => age[c].all <= Deadline - 1
      BY <2>4
    <3> QED
      BY <2>2, <2>4, <3>1, <3>2, <3>3
  <2> QED
    BY <2>1, <2>5, <2>6, <2>7
<1>5. ASSUME NEW c \in Calls, Ran(c) PROVE ClockInv'
  BY <1>5, SMTT(30) DEF Ran, Go, End
<1>6. ASSUME NEW c \in Calls, Run(c) PROVE ClockInv'
  BY <1>6 DEF Run
<1>7. ASSUME NEW c \in Calls, HangUp(c) PROVE ClockInv'
  BY <1>7 DEF HangUp, Go, Release, Live
<1>8. ASSUME NEW a \in Actors, Enter(a) PROVE ClockInv'
  BY <1>8 DEF Enter, Go, Post, path
<1>9. ASSUME NEW a \in Actors, Forget(a) PROVE ClockInv'
  BY <1>9 DEF Forget, Go, path
<1>10. ASSUME NEW a \in Actors, IntroFails(a) PROVE ClockInv'
  BY <1>10, SMTT(30) DEF IntroFails, Give, End, Go
<1>11. ASSUME NEW a \in Actors, Introduced(a) PROVE ClockInv'
  BY <1>11 DEF Introduced, Go, Post, Rejects, path
<1>12. ASSUME NEW a \in Actors, Lost(a) PROVE ClockInv'
  BY <1>12, SMTT(30) DEF Lost, Give, End, Go
<1>13. ASSUME NEW a \in Actors, Answered(a) PROVE ClockInv'
  BY <1>13 DEF Answered, Give, End, Go
<1>14. ASSUME NEW a \in Actors, Rejected(a) PROVE ClockInv'
  BY <1>14 DEF Rejected, Give, End, Go
<1>15. ASSUME NEW a \in Actors, Introduce(a) PROVE ClockInv'
  BY <1>15 DEF Introduce, Go, path
<1>16. ASSUME NEW m \in wire, Take(m) PROVE ClockInv'
  BY <1>16 DEF Take, Go, Waits, Rejects
<1>17. ASSUME Ping PROVE ClockInv'
  BY <1>17 DEF Ping, Go, path
<1>18. ASSUME PingTimeout PROVE ClockInv'
  BY <1>18 DEF PingTimeout, Give, Go, Release
<1>19. ASSUME ServerForgets PROVE ClockInv'
  BY <1>19 DEF ServerForgets, Forgotten, Waits, path
<1>20. ASSUME Tick PROVE ClockInv'
  <2> SUFFICES ASSUME NEW c \in Calls
               PROVE  /\ pc[c] = "idle" => age'[c] = Started
                      /\ pc[c] = "held" => age'[c].all = age'[c].part /\ age'[c].part <= Wait(call[c])
                      /\ pc[c] # "deciding"
                      /\ pc[c] = "running" =>
                           /\ age'[c].part <= Deadline
                           /\ call[c].by = "client" => age'[c].all <= age'[c].part + Deadline - 1
    BY <1>20 DEF Tick
  <2>1. ~Due(c) /\ pc[c] # "deciding" /\ age[c] \in Clocks /\ call[c] \in Kinds
    BY <1>20 DEF Tick
  <2>2. CASE pc[c] \in {"held", "running"}
    <3>1. age'[c].all = age[c].all + 1 /\ age'[c].part = age[c].part + 1
      BY <1>20, <2>2 DEF Tick
    <3>2. Wait(call[c]) \in Nat /\ Deadline \in Nat
      BY <2>1, WaitFits
    <3> QED
      BY <2>1, <2>2, <3>1, <3>2 DEF Due, Overdue
  <2>3. CASE pc[c] \notin {"held", "running"}
    BY <1>20, <2>1, <2>3 DEF Tick
  <2> QED
    BY <2>2, <2>3
<1> QED
  BY <1>1, <1>2, <1>3, <1>4, <1>5, <1>6, <1>7, <1>8, <1>9, <1>10, <1>11, <1>12, <1>13, <1>14, <1>15, <1>16, <1>17, <1>18, <1>19, <1>20 DEF Next, Own, Locking, Replies

\* A step that neither sends nor is refused, whether or not it ends the rpc.
LEMMA SessionKept ==
  ASSUME Types, SessionInv, NEW a \in Actors, NEW p \in Places \ {"posted", "rejected"}, Go(a, p),
         try' = try \/ try' = [try EXCEPT ![a] = NoTry],
         UNCHANGED <<session, stateful, wire>>
  PROVE  SessionInv'
<1>1. /\ pc'[a] = p /\ \A b \in Actors \ {a} : pc'[b] = pc[b] /\ try'[b] = try[b]
      /\ try'[a] = try[a] \/ try'[a] = NoTry
  BY DEF Types, Go
<1>2. \A b \in Actors : Anew(b)' => Anew(b) /\ try'[b] = try[b]
  BY <1>1 DEF Anew, NoTry
<1>3. \A m \in wire : m.by \in Actors
  BY DEF Types, Msgs
<1> QED
  BY <1>1, <1>2, <1>3 DEF SessionInv

\* What is sent again carries a session from after the first refusal.
LEMMA SessionStep ==
  ASSUME CallAssumption, IInv, Next PROVE SessionInv'
<1> USE DEF IInv, Types, Tries, Msgs, Clocks, WireInv, SessionInv, Anew, NoTry, CallAssumption, Actors
<1>1. ASSUME NEW c \in Calls, Decide(c) PROVE SessionInv'
  <2>1. /\ \E p \in Places \ {"posted", "rejected"} : Go(c, p)
        /\ try' = try \/ try' = [try EXCEPT ![c] = NoTry]
    BY <1>1 DEF Decide, End, Places
  <2> QED
    BY <1>1, <2>1, SessionKept DEF Decide
<1>2. ASSUME NEW c \in Calls, Answer(c) PROVE SessionInv'
  <2>1. /\ \E p \in Places \ {"posted", "rejected"} : Go(c, p)
        /\ try' = try \/ try' = [try EXCEPT ![c] = NoTry]
    BY <1>2 DEF Answer, End, Places
  <2> QED
    BY <1>2, <2>1, SessionKept DEF Answer
<1>3. ASSUME NEW c \in Calls, Expire(c) PROVE SessionInv'
  <2>1. /\ \E p \in Places \ {"posted", "rejected"} : Go(c, p)
        /\ try' = try \/ try' = [try EXCEPT ![c] = NoTry]
    BY <1>3 DEF Expire, End, Places
  <2> QED
    BY <1>3, <2>1, SessionKept DEF Expire
<1>4. ASSUME NEW c \in Calls, Dispatch(c) PROVE SessionInv'
  <2>1. CASE End(c, "failed") \/ End(c, "replayed")
    BY <1>4, <2>1, SessionKept DEF Dispatch, End, Places
  <2>2. CASE ~(End(c, "failed") \/ End(c, "replayed"))
    <3>1. \E p \in {"running", "entering"} : Go(c, p)
      BY <1>4, <2>2 DEF Dispatch
    <3>2. try' = [try EXCEPT ![c].n = 1]
      BY <1>4, <2>2 DEF Dispatch
    <3> QED
      BY <1>4, <3>1, <3>2 DEF Dispatch, Go
  <2> QED
    BY <2>1, <2>2
<1>5. ASSUME NEW c \in Calls, Ran(c) PROVE SessionInv'
  <2>1. /\ \E p \in Places \ {"posted", "rejected"} : Go(c, p)
        /\ try' = try \/ try' = [try EXCEPT ![c] = NoTry]
    BY <1>5 DEF Ran, End, Places
  <2> QED
    BY <1>5, <2>1, SessionKept DEF Ran
<1>6. ASSUME NEW c \in Calls, Run(c) PROVE SessionInv'
  BY <1>6 DEF Run
<1>7. ASSUME NEW c \in Calls, HangUp(c) PROVE SessionInv'
  BY <1>7 DEF HangUp, Go, Release, Live
<1>8. ASSUME NEW a \in Actors, Enter(a) PROVE SessionInv'
  <2>1. CASE session # "none"
    <3>1. /\ \A b \in Actors : Anew(b)' = Anew(b) /\ try'[b].n = try[b].n
          /\ \A b \in Actors \ {a} : try'[b] = try[b] /\ pc'[b] = pc[b]
          /\ try'[a].sid = session /\ pc'[a] = "posted"
      BY <1>8, <2>1 DEF Enter, Post, Go
    <3>2. \A m \in wire' : m = [by |-> a, n |-> try[a].n, sid |-> session] \/ m \in wire
      BY <1>8, <2>1 DEF Enter, Post
    <3>3. \A m \in wire : m.by \in Actors \ {a}
      BY <1>8 DEF Enter
    <3>4. session' = session /\ stateful' = stateful
      BY <1>8 DEF Enter
    <3>5. \A b \in Actors : Anew(b) => session # "forgotten" /\ try[b].sid # "forgotten"
      OBVIOUS
    <3>6. \A b \in Actors : Anew(b)' => session' # "forgotten" /\ try'[b].sid # "forgotten"
      BY <3>1, <3>4, <3>5
    <3>7. \A m \in wire' : m.n = 2 /\ pc'[m.by] = "posted" /\ Anew(m.by)' => m.sid # "forgotten"
      BY <3>1, <3>2, <3>3, <3>5
    <3>8. \A b \in Actors : pc'[b] = "rejected" => stateful' /\ ~Anew(b)'
      BY <3>1, <3>4
    <3> QED
      BY <3>6, <3>7, <3>8
  <2>2. CASE session = "none"
    BY <1>8, <2>2, SessionKept DEF Enter, Places
  <2> QED
    BY <2>1, <2>2
<1>9. ASSUME NEW a \in Actors, Forget(a) PROVE SessionInv'
  BY <1>9 DEF Forget, Go, path
<1>10. ASSUME NEW a \in Actors, IntroFails(a) PROVE SessionInv'
  <2>1. Go(a, "done") /\ "done" \in Places \ {"posted", "rejected"}
        /\ try' = [try EXCEPT ![a] = NoTry]
    BY <1>10 DEF IntroFails, Give, End, Places
  <2> QED
    BY <1>10, <2>1, SessionKept DEF IntroFails
<1>11. ASSUME NEW a \in Actors, Introduced(a) PROVE SessionInv'
  BY <1>11, SMTT(30) DEF Introduced, Go, Post, Rejects, path
<1>12. ASSUME NEW a \in Actors, Lost(a) PROVE SessionInv'
  <2>1. Go(a, "done") /\ "done" \in Places \ {"posted", "rejected"}
        /\ try' = [try EXCEPT ![a] = NoTry]
    BY <1>12 DEF Lost, Give, End, Places
  <2> QED
    BY <1>12, <2>1, SessionKept DEF Lost
<1>13. ASSUME NEW a \in Actors, Answered(a) PROVE SessionInv'
  <2>1. Go(a, "done") /\ "done" \in Places \ {"posted", "rejected"}
        /\ try' = [try EXCEPT ![a] = NoTry]
    BY <1>13 DEF Answered, Give, End, Places
  <2> QED
    BY <1>13, <2>1, SessionKept DEF Answered
<1>14. ASSUME NEW a \in Actors, Rejected(a) PROVE SessionInv'
  <2>1. CASE try[a].n = 1
    <3>1. /\ pc'[a] = "stale" /\ try'[a].n = 1
          /\ \A b \in Actors \ {a} : pc'[b] = pc[b] /\ try'[b] = try[b]
      BY <1>14, <2>1 DEF Rejected, Go
    <3>2. \A m \in wire : m.by \in Actors \ {a}
      BY <1>14 DEF Rejected
    <3> QED
      BY <1>14, <3>1, <3>2 DEF Rejected
  <2>2. CASE try[a].n # 1
    BY <1>14, <2>2, SessionKept DEF Rejected, Give, End, Places
  <2> QED
    BY <2>1, <2>2
<1>15. ASSUME NEW a \in Actors, Introduce(a) PROVE SessionInv'
  BY <1>15 DEF Introduce, Go, path
<1>16. ASSUME NEW m \in wire, Take(m) PROVE SessionInv'
  BY <1>16 DEF Take, Go, Waits, Rejects
<1>17. ASSUME Ping PROVE SessionInv'
  BY <1>17 DEF Ping, Go, path
<1>18. ASSUME PingTimeout PROVE SessionInv'
  BY <1>18 DEF PingTimeout, Give, Go, Release
<1>19. ASSUME ServerForgets PROVE SessionInv'
  <2>1. \A a \in Actors : ~Anew(a)'
    BY <1>19, ForgetTry
  <2>2. \A m \in wire' : m.by \in Actors
    BY ForgetWire, <1>19
  <2> QED
    BY <1>19, <2>1, <2>2 DEF ServerForgets
<1>20. ASSUME Tick PROVE SessionInv'
  BY <1>20 DEF Tick
<1> QED
  BY <1>1, <1>2, <1>3, <1>4, <1>5, <1>6, <1>7, <1>8, <1>9, <1>10, <1>11, <1>12, <1>13, <1>14, <1>15, <1>16, <1>17, <1>18, <1>19, <1>20 DEF Next, Own, Locking, Replies


\* Whoever is past the dispatch of an rpc has counted a request.
LEMMA TryStep ==
  ASSUME CallAssumption, IInv, Next PROVE TryInv'
<1> USE DEF IInv, Types, Tries, TryInv, CallAssumption, Actors
<1>1. ASSUME NEW c \in Calls, Decide(c) PROVE TryInv'
  BY <1>1 DEF Decide, Go, End
<1>2. ASSUME NEW c \in Calls, Answer(c) PROVE TryInv'
  BY <1>2 DEF Answer, Go, End
<1>3. ASSUME NEW c \in Calls, Expire(c) PROVE TryInv'
  BY <1>3 DEF Expire, Overdue, Go, End
<1>4. ASSUME NEW c \in Calls, Dispatch(c) PROVE TryInv'
  BY <1>4, SMTT(30) DEF Dispatch, Go, End
<1>5. ASSUME NEW c \in Calls, Ran(c) PROVE TryInv'
  BY <1>5 DEF Ran, Go, End
<1>6. ASSUME NEW c \in Calls, Run(c) PROVE TryInv'
  BY <1>6 DEF Run
<1>7. ASSUME NEW c \in Calls, HangUp(c) PROVE TryInv'
  BY <1>7 DEF HangUp, Go, Release, Live
<1>8. ASSUME NEW a \in Actors, Enter(a) PROVE TryInv'
  BY <1>8, SMTT(30) DEF Enter, Go, Post, path
<1>9. ASSUME NEW a \in Actors, Forget(a) PROVE TryInv'
  BY <1>9 DEF Forget, Go, path
<1>10. ASSUME NEW a \in Actors, IntroFails(a) PROVE TryInv'
  BY <1>10 DEF IntroFails, Give, End, Go
<1>11. ASSUME NEW a \in Actors, Introduced(a) PROVE TryInv'
  BY <1>11 DEF Introduced, Go, Post, Rejects, path
<1>12. ASSUME NEW a \in Actors, Lost(a) PROVE TryInv'
  BY <1>12 DEF Lost, Give, End, Go
<1>13. ASSUME NEW a \in Actors, Answered(a) PROVE TryInv'
  BY <1>13 DEF Answered, Give, End, Go
<1>14. ASSUME NEW a \in Actors, Rejected(a) PROVE TryInv'
  BY <1>14 DEF Rejected, Give, End, Go
<1>15. ASSUME NEW a \in Actors, Introduce(a) PROVE TryInv'
  BY <1>15 DEF Introduce, Go, path
<1>16. ASSUME NEW m \in wire, Take(m) PROVE TryInv'
  BY <1>16 DEF Take, Go, Waits, Rejects
<1>17. ASSUME Ping PROVE TryInv'
  BY <1>17 DEF Ping, Go, path
<1>18. ASSUME PingTimeout PROVE TryInv'
  BY <1>18 DEF PingTimeout, Give, Go, Release
<1>19. ASSUME ServerForgets PROVE TryInv'
  <2>1. pc' = pc /\ \A a \in Actors : try'[a].n = try[a].n
    BY <1>19, ForgetTry DEF ServerForgets
  <2> QED
    BY <2>1
<1>20. ASSUME Tick PROVE TryInv'
  BY <1>20 DEF Tick
<1> QED
  BY <1>1, <1>2, <1>3, <1>4, <1>5, <1>6, <1>7, <1>8, <1>9, <1>10, <1>11, <1>12, <1>13, <1>14, <1>15, <1>16, <1>17, <1>18, <1>19, <1>20 DEF Next, Own, Locking, Replies

-----------------------------------------------------------------------------
(* The invariant, and what follows from it.                                *)

LEMMA IInit == ASSUME CallAssumption PROVE Init => IInv
<1> SUFFICES ASSUME Init PROVE IInv
  OBVIOUS
<1>1. NoCall \in Kinds /\ NoTry \in Tries /\ Started \in Clocks
  BY DEF NoCall, Kinds, NoTry, Tries, Sids, Started, Clocks
<1>2. Types /\ \A c \in Calls : pc[c] = "idle" /\ row[c] = "none" /\ acts[c] = 0
  BY <1>1 DEF Init, Types, Actors, Places, Sids, Rows, Msgs
<1>3. LockInv
  BY DEF Init, LockInv, Introducing, CallAssumption, Actors
<1>4. WireInv /\ \A c \in Calls : ~Sent(c)
  BY DEF Init, WireInv, Sent
<1>5. ActsInv /\ RowInv /\ DecidedInv
  BY <1>2, <1>4 DEF ActsInv, RowInv, DecidedInv, Refusals
<1>6. ClockInv
  BY <1>2 DEF Init, ClockInv
<1>7. SessionInv /\ TryInv
  BY DEF Init, SessionInv, Anew, NoTry, TryInv
<1> QED
  BY <1>2, <1>3, <1>4, <1>5, <1>6, <1>7 DEF IInv

LEMMA IStep == ASSUME CallAssumption PROVE IInv /\ [Next]_vars => IInv'
<1> SUFFICES ASSUME IInv, [Next]_vars PROVE IInv'
  OBVIOUS
<1>1. CASE Next
  BY <1>1, TypesStep, LockStep, WireStep, ActsStep, RowStep, DecidedStep, ClockStep,
     SessionStep, TryStep DEF IInv
<1>2. CASE UNCHANGED vars
  <2> USE <1>2 DEF vars
  <2>1. Types' /\ LockInv' /\ WireInv'
    BY DEF IInv, Types, LockInv, Introducing, WireInv
  <2>2. ActsInv' /\ RowInv' /\ DecidedInv'
    BY DEF IInv, ActsInv, RowInv, DecidedInv, Decided, Sent
  <2>3. ClockInv' /\ SessionInv' /\ TryInv'
    BY DEF IInv, ClockInv, SessionInv, Anew, TryInv
  <2> QED
    BY <2>1, <2>2, <2>3 DEF IInv
<1> QED
  BY <1>1, <1>2

\* IInv holds throughout: the state of every call, of the probe, of the session
\* they share and of every request under way fit together.
THEOREM Invariant == ASSUME CallAssumption PROVE Spec => []IInv
<1>1. Init => IInv
  BY IInit
<1>2. IInv /\ [Next]_vars => IInv'
  BY IStep
<1> QED
  BY <1>1, <1>2, PTL DEF Spec

\* Rows, sessions and the lock are of their types.
THEOREM TypesKept == ASSUME CallAssumption PROVE Spec => []TypeOK
<1>1. IInv => TypeOK
  BY DEF IInv, Types, TypeOK, Rows, Sids, Tries
<1> QED
  BY <1>1, Invariant, PTL

\* However many calls, probes, lost answers and forgotten sessions, a call takes
\* effect at most once.
THEOREM AtMostOnce == ASSUME CallAssumption PROVE Spec => []ActsAtMostOnce
<1>1. IInv => ActsAtMostOnce
  BY DEF IInv, ActsInv, ActsAtMostOnce
<1> QED
  BY <1>1, Invariant, PTL

\* The row of every call is true of what it did, and stays true.
THEOREM RowsAreTrue == ASSUME CallAssumption PROVE Spec => []RowTellsTruth
<1>1. IInv => RowTellsTruth
  BY DEF IInv, RowInv, RowTellsTruth, Refusals
<1> QED
  BY <1>1, Invariant, PTL

\* Nothing acts that a rule, an answer or a reading hand did not let through.
THEOREM DecidedFirst == ASSUME CallAssumption PROVE Spec => []ActsOnlyAsDecided
<1>1. IInv => ActsOnlyAsDecided
  BY DEF IInv, DecidedInv, Decided, ActsOnlyAsDecided
<1> QED
  BY <1>1, Invariant, PTL

\* A client's hold ends before its deadline, and its command before two are over.
THEOREM TwoDeadlines == ASSUME CallAssumption PROVE Spec => []WithinTwoDeadlines
<1>1. ASSUME IInv, NEW c \in Calls, call[c].by = "client"
      PROVE  /\ pc[c] = "held" => age[c].all < Deadline
             /\ pc[c] = "running" => age[c].all <= 2 * Deadline - 1
  <2>1. call[c] \in Kinds /\ age[c].all \in Nat /\ age[c].part \in Nat /\ Deadline \in Nat
    BY <1>1 DEF IInv, Types, Clocks, CallAssumption
  <2>2. Wait(call[c]) \in Nat /\ Wait(call[c]) <= Deadline - 1
    BY <1>1, <2>1, WaitFits
  <2> QED
    BY <1>1, <2>1, <2>2 DEF IInv, ClockInv
<1>2. IInv => WithinTwoDeadlines
  BY <1>1 DEF WithinTwoDeadlines
<1> QED
  BY <1>2, Invariant, PTL

\* Two never introduce themselves at once: whoever does holds the lock.
OneIntroduces == \A a, b \in Actors : Introducing(a) /\ Introducing(b) => a = b

\* The session's lock excludes: no call and no probe introduces itself while
\* another is, though any of them may be abandoned at any moment.
THEOREM LockExcludes == ASSUME CallAssumption PROVE Spec => []OneIntroduces
<1>1. IInv => OneIntroduces
  BY DEF IInv, LockInv, OneIntroduces
<1> QED
  BY <1>1, Invariant, PTL

\* A call that is refused a second time was forgotten a second time.
THEOREM StaleTwice == ASSUME CallAssumption PROVE Spec => StaleTwiceOnlyIfForgotten
<1> DEFINE Told == \A c \in Calls : row'[c] = "stale" /\ row[c] # "stale" => try[c].again
<1>1. ASSUME IInv, Next PROVE Told
  <2> SUFFICES ASSUME NEW d \in Calls, row'[d] = "stale", row[d] # "stale"
               PROVE  try[d].again
    OBVIOUS
  <2>1. \A c \in Calls, r \in Rows \ {"stale"} : ~End(c, r)
    <3>1. ASSUME NEW c \in Calls, NEW r \in Rows \ {"stale"}, End(c, r) PROVE FALSE
      BY <1>1, <3>1 DEF IInv, Types, End
    <3> QED
      BY <3>1
  <2>2. \A a \in Actors, r \in Rows \ {"stale"} : ~Give(a, r)
    BY <1>1, <2>1 DEF Give
  <2>3. row' # row
    OBVIOUS
  <2>4. PICK a \in Actors : Rejected(a)
    <3>1. \A c \in Calls : ~Decide(c) /\ ~Answer(c) /\ ~Expire(c) /\ ~Dispatch(c) /\ ~Ran(c)
      <4>1. \A c \in Calls : \A k \in Fires[c] :
              Decision(k) \in {"allow", "ask"} \cup (Rows \ {"stale"})
        BY DecisionMeans DEF CallAssumption, Kinds, Rows
      <4> QED
        BY <2>1, <2>3, <4>1 DEF Decide, Answer, Expire, Dispatch, Ran, Rows
    <3>2. \A c \in Calls : ~Run(c) /\ ~HangUp(c)
      BY <2>3 DEF Run, HangUp
    <3>3. \A a \in Actors : ~IntroFails(a) /\ ~Lost(a) /\ ~Answered(a)
      BY <2>2 DEF IntroFails, Lost, Answered, Rows
    <3>4. \A a \in Actors : ~Enter(a) /\ ~Forget(a) /\ ~Introduced(a) /\ ~Introduce(a)
      BY <2>3 DEF Enter, Forget, Introduced, Introduce, path
    <3>5. ~Ping /\ ~ServerForgets /\ ~Tick /\ \A m \in wire : ~Take(m)
      BY <2>3 DEF Ping, ServerForgets, Tick, Take, path
    <3>6. ~PingTimeout
      BY <2>2 DEF PingTimeout, Rows, Actors
    <3> QED
      BY <1>1, <3>1, <3>2, <3>3, <3>4, <3>5, <3>6 DEF Next, Own, Locking, Replies
  <2>5. pc[a] = "rejected" /\ try[a].n # 1 /\ Give(a, "stale")
    BY <2>3, <2>4 DEF Rejected
  <2>6. a = d
    BY <1>1, <2>3, <2>5 DEF IInv, Types, Give, End
  <2>7. stateful /\ ~Anew(d)
    BY <1>1, <2>5, <2>6 DEF IInv, SessionInv
  <2>8. try[d].n = 2
    BY <1>1, <2>5, <2>6 DEF IInv, Types, Tries, TryInv
  <2> QED
    BY <2>7, <2>8 DEF Anew
<1>2. ASSUME UNCHANGED vars PROVE Told
  BY <1>2 DEF vars
<1>3. IInv /\ [Next]_vars => [Told]_vars
  BY <1>1, <1>2
<1> QED
  BY <1>3, Invariant, PTL DEF StaleTwiceOnlyIfForgotten, Spec
-----------------------------------------------------------------------------
(* What the log promises.  Leaves and entries are read off one call at a   *)
(* time, so a step that leaves the other calls alone moves one of each.    *)

Leaves  == [c \in Calls |-> Leave(c)]
Entries == [c \in Calls |-> Entry(c)]

\* What a leave and an entry are read off does not change for d.
Still(d) == /\ pc'[d] = pc[d] /\ row'[d] = row[d] /\ acts'[d] = acts[d] /\ call'[d] = call[d]
            /\ Sent(d)' = Sent(d)

LEMMA StillMeans ==
  ASSUME NEW d \in Calls, Still(d) PROVE Leave(d)' = Leave(d) /\ Entry(d)' = Entry(d)
BY DEF Still, Leave, Entry, Sent

LEMMA OneEntry ==
  ASSUME NEW c \in Calls, \A d \in Calls \ {c} : Still(d)
  PROVE  /\ Leaves' = [Leaves EXCEPT ![c] = Leave(c)']
         /\ Entries' = [Entries EXCEPT ![c] = Entry(c)']
<1>1. \A d \in Calls \ {c} : Leave(d)' = Leave(d) /\ Entry(d)' = Entry(d)
  BY StillMeans
<1> QED
  BY <1>1 DEF Leaves, Entries

LEMMA NoEntry ==
  ASSUME UNCHANGED acts, \A d \in Calls : Leave(d)' = Leave(d) /\ Entry(d)' = Entry(d)
  PROVE  UNCHANGED Log!vars
<1>1. Leaves' = Leaves /\ Entries' = Entries
  BY DEF Leaves, Entries
<1> QED
  BY <1>1 DEF Log!vars, Leaves, Entries

\* The leaves of calls that are decided, that go on, and that are over.
LEMMA LeaveIs ==
  ASSUME IInv, NEW c \in Calls
  PROVE  /\ Leave(c) = IF acts[c] = 1 THEN "spent"
                       ELSE IF pc[c] \in {"idle", "held"} THEN "open"
                       ELSE IF pc[c] \notin {"done", "gone"} \/ Sent(c) THEN "armed" ELSE "spent"
         /\ acts[c] \in {0, 1}
         /\ Sent(c) => pc[c] \in {"posted", "done", "gone"} /\ acts[c] = 0
         /\ pc[c] # "done" => row[c] = "none" /\ Entry(c) = "none"
BY DEF IInv, Types, WireInv, ActsInv, RowInv, Sent, Leave, Entry, Refusals

\* The end of a call closes it, fails it, or tells what it did.
LEMMA EndLogs ==
  ASSUME IInv, NEW c \in Calls, NEW r \in Rows \ {"none"}, End(c, r), UNCHANGED <<acts, wire>>,
         \A d \in Calls \ {c} : call'[d] = call[d],
         pc[c] \notin {"done", "gone"},
         r \in Refusals => pc[c] \in {"idle", "held"},
         r = "ok" => acts[c] = 1,
         r \in {"failed", "stale"} => pc[c] \notin {"idle", "held"},
         r = "replayed" => /\ call'[c].once = call[c].once
                           /\ IF call[c].once THEN pc[c] = "deciding" ELSE acts[c] = 1
  PROVE  Log!Next
<1>1. /\ \A d \in Calls \ {c} : pc'[d] = pc[d] /\ row'[d] = row[d]
      /\ pc'[c] = "done" /\ row'[c] = r
  BY DEF IInv, Types, End, Go, Actors
<1>2. \A d \in Calls : Sent(d)' = Sent(d) /\ acts'[d] = acts[d]
  BY DEF Sent
<1>3. \A d \in Calls \ {c} : Still(d)
  BY <1>1, <1>2 DEF Still
<1>4. /\ Leaves' = [Leaves EXCEPT ![c] = Leave(c)']
      /\ Entries' = [Entries EXCEPT ![c] = Entry(c)']
  BY <1>3, OneEntry
<1>5. Leaves[c] = Leave(c) /\ Entries[c] = "none"
  BY LeaveIs DEF Leaves, Entries
<1>6. Leave(c)' = IF acts[c] = 0 /\ Sent(c) THEN "armed" ELSE "spent"
  BY <1>1, <1>2, LeaveIs DEF Leave, Sent
<1>7. CASE r \in Refusals
  <2>1. acts[c] = 0 /\ ~Sent(c)
    BY <1>7 DEF IInv, ActsInv, WireInv, Sent
  <2>2. Leave(c) = "open" /\ Leave(c)' = "spent" /\ Entry(c)' = "refused"
    BY <1>1, <1>6, <1>7, <2>1, LeaveIs DEF Entry
  <2>3. Log!Close(c, "open", "refused")
    BY <1>4, <1>5, <2>2 DEF Log!Close, Leaves, Entries
  <2> QED
    BY <2>3 DEF Log!Next
<1>8. CASE r = "replayed" /\ call[c].once
  <2>1. acts[c] = 0 /\ ~Sent(c) /\ pc[c] = "deciding"
    BY <1>8 DEF IInv, ActsInv, WireInv, Sent
  <2>2. Leave(c) = "armed" /\ Leave(c)' = "spent"
    BY <1>6, <2>1, LeaveIs
  <2>3. Entry(c)' = "replayed"
    BY <1>1, <1>8 DEF Entry, Refusals
  <2>4. Log!Close(c, "armed", "replayed")
    BY <1>4, <1>5, <2>2, <2>3 DEF Log!Close, Leaves, Entries
  <2> QED
    BY <2>4 DEF Log!Next
<1>9. CASE \/ r \in {"ok", "failed", "stale"}
           \/ r = "replayed" /\ ~call[c].once
  <2>1. Entry(c)' = IF r \in {"ok", "replayed"} THEN "ok" ELSE "failed"
    BY <1>1, <1>9 DEF Entry, Refusals
  <2>2. CASE acts[c] = 1
    <3>1. Leave(c)' = Leave(c)
      BY <1>6, <2>2, LeaveIs
    <3>2. Leaves' = Leaves
      BY <1>4, <1>5, <3>1 DEF Leaves
    <3>3. Entry(c)' \in {"ok", "failed"}
      BY <2>1
    <3>4. Log!Tell(c)
      BY <1>4, <1>5, <2>2, <3>2, <3>3 DEF Log!Tell, Leaves, Entries
    <3> QED
      BY <3>4 DEF Log!Next
  <2>3. CASE acts[c] # 1
    <3>1. Leave(c) = "armed"
      BY <1>9, <2>3, LeaveIs
    <3>2. Leave(c)' \in {"armed", "spent"} /\ Entry(c)' = "failed"
      BY <1>6, <1>9, <2>1, <2>3
    <3>3. Log!Fail(c)
      BY <1>4, <1>5, <3>1, <3>2 DEF Log!Fail, Leaves, Entries
    <3> QED
      BY <3>3 DEF Log!Next
  <2> QED
    BY <2>2, <2>3
<1> QED
  BY <1>7, <1>8, <1>9 DEF Rows, Refusals

\* Of an rpc, that is, when its caller is a call: the probe writes no row.
LEMMA GiveLogs ==
  ASSUME IInv, NEW a \in Actors, NEW r \in {"failed", "stale", "ok", "replayed"}, Give(a, r),
         UNCHANGED <<call, acts, wire>>,
         pc[a] \notin {"idle", "held", "done", "gone"},
         a \in Calls => /\ r = "ok" => acts[a] = 1
                        /\ r = "replayed" => ~call[a].once /\ acts[a] = 1
  PROVE  Log!Next \/ UNCHANGED Log!vars
<1>1. CASE a \in Calls
  <2>1. End(a, r) /\ r \in Rows \ {"none"} /\ r \notin Refusals
    BY <1>1 DEF Give, Rows, Refusals
  <2> QED
    BY <1>1, <2>1, EndLogs
<1>2. CASE a \notin Calls
  <2>1. \A d \in Calls : pc'[d] = pc[d] /\ row'[d] = row[d]
    BY <1>2 DEF IInv, Types, Give, Go, Actors
  <2>2. \A d \in Calls : Still(d)
    BY <2>1 DEF Still, Sent
  <2> QED
    BY <2>2, StillMeans, NoEntry
<1> QED
  BY <1>1, <1>2

\* Several calls at once may lose their leave, and nothing else.
LEMMA Drops ==
  ASSUME NEW S \in SUBSET Calls, UNCHANGED acts,
         \A d \in Calls : /\ Leave(d)' = IF d \in S THEN "spent" ELSE Leave(d)
                          /\ Entry(d)' = Entry(d)
  PROVE  Log!Next
<1>1. Leaves' = [d \in Calls |-> IF d \in S THEN "spent" ELSE Leaves[d]] /\ Entries' = Entries
  BY DEF Leaves, Entries
<1>2. Log!Drop(S)
  BY <1>1 DEF Log!Drop, Leaves, Entries
<1> QED
  BY <1>2 DEF Log!Next

\* A call that may act, acts.
LEMMA Acts ==
  ASSUME NEW c \in Calls, \A d \in Calls \ {c} : Still(d), acts \in [Calls -> Nat],
         acts' = [acts EXCEPT ![c] = @ + 1],
         Leave(c) = "armed", Leave(c)' = "spent", Entry(c)' = Entry(c)
  PROVE  Log!Next
<1>1. /\ Leaves' = [Leaves EXCEPT ![c] = "spent"]
      /\ Entries' = [Entries EXCEPT ![c] = Entry(c)]
  BY OneEntry
<1>2. Leaves[c] = "armed" /\ Entries' = Entries
  BY <1>1 DEF Leaves, Entries
<1>3. Log!Act(c)
  BY <1>1, <1>2 DEF Log!Act, Leaves, Entries
<1> QED
  BY <1>3 DEF Log!Next

\* A decision, the answer to a hold, and the hold's end: the call is let through,
\* waits on, or is closed.
LEMMA DecisionLogs ==
  ASSUME CallAssumption, IInv, NEW c \in Calls, Decide(c) \/ Answer(c) \/ Expire(c)
  PROVE  Log!Next \/ UNCHANGED Log!vars
<1>1. /\ pc[c] \in {"idle", "held"} /\ UNCHANGED <<acts, wire>>
      /\ \A d \in Calls \ {c} : call'[d] = call[d]
  BY DEF Decide, Answer, Expire, Overdue, IInv, Types
<1>2. \/ Go(c, "deciding") /\ UNCHANGED row
      \/ Go(c, "held") /\ UNCHANGED row
      \/ \E r \in Refusals : End(c, r)
  <2>1. ASSUME Decide(c) PROVE <1>2
    <3>1. PICK k \in Kinds : \/ Decision(k) \in {"allow", "ask"} /\ (Go(c, "deciding") \/ Go(c, "held")) /\ UNCHANGED row
                             \/ End(c, "approval_timeout")
                             \/ Decision(k) \notin {"allow", "ask"} /\ End(c, Decision(k))
      BY <2>1 DEF Decide, CallAssumption, Kinds
    <3> QED
      BY <3>1, DecisionMeans DEF Refusals
  <2>2. ASSUME Answer(c) PROVE <1>2
    BY <2>2 DEF Answer, Refusals
  <2>3. ASSUME Expire(c) PROVE <1>2
    BY <2>3 DEF Expire, Refusals
  <2> QED
    BY <2>1, <2>2, <2>3
<1>3. Leave(c) = "open" /\ acts[c] = 0 /\ Entry(c) = "none" /\ row[c] = "none"
  BY <1>1, LeaveIs DEF IInv, ActsInv
<1>4. CASE UNCHANGED row /\ (Go(c, "deciding") \/ Go(c, "held"))
  <2>1. /\ \A d \in Calls \ {c} : Still(d)
        /\ pc'[c] \in {"deciding", "held"}
    BY <1>1, <1>4 DEF IInv, Types, Actors, Go, Still, Sent
  <2>2. /\ Leaves' = [Leaves EXCEPT ![c] = Leave(c)']
        /\ Entries' = [Entries EXCEPT ![c] = Entry(c)']
    BY <2>1, OneEntry
  <2>3. /\ Leave(c)' \in {"open", "armed"}
        /\ Entry(c)' = "none"
    BY <1>1, <1>3, <1>4, <2>1 DEF Leave, Entry, Refusals
  <2>4. Leaves[c] = "open" /\ Entries[c] = "none"
    BY <1>3 DEF Leaves, Entries
  <2>5. Entries' = Entries
    BY <2>2, <2>3, <2>4 DEF Entries
  <2>6. CASE Leave(c)' = "open"
    <3>1. Leaves' = Leaves
      BY <2>2, <2>4, <2>6 DEF Leaves
    <3> QED
      BY <1>1, <2>5, <3>1 DEF Log!vars, Leaves, Entries
  <2>7. CASE Leave(c)' = "armed"
    <3>1. Log!Arm(c)
      BY <1>1, <2>2, <2>4, <2>5, <2>7 DEF Log!Arm, Leaves, Entries
    <3> QED
      BY <3>1 DEF Log!Next
  <2> QED
    BY <2>3, <2>6, <2>7
<1>5. ASSUME NEW r \in Refusals, End(c, r) PROVE Log!Next
  <2>1. r \in Rows \ {"none"} /\ r \notin {"ok", "failed", "stale", "replayed"}
    BY DEF Rows, Refusals
  <2> QED
    BY <1>1, <1>5, <2>1, EndLogs
<1> QED
  BY <1>2, <1>4, <1>5

\* dispatch, and the end of a command.
LEMMA DispatchLogs ==
  ASSUME IInv, NEW c \in Calls, Dispatch(c) \/ Ran(c)
  PROVE  Log!Next \/ UNCHANGED Log!vars
<1>1. pc[c] \in {"deciding", "running"} /\ UNCHANGED <<acts, wire, call>>
  BY DEF Dispatch, Ran
<1>2. CASE \E r \in {"failed", "replayed", "ok"} :
             /\ End(c, r)
             /\ r = "ok" => acts[c] = 1
             /\ r = "replayed" => call[c].once /\ pc[c] = "deciding"
  <2>1. PICK r \in {"failed", "replayed", "ok"} :
             /\ End(c, r)
             /\ r = "ok" => acts[c] = 1
             /\ r = "replayed" => call[c].once /\ pc[c] = "deciding"
    BY <1>2
  <2>2. r \in Rows \ {"none"} /\ r \notin Refusals
    BY DEF Rows, Refusals
  <2> QED
    BY <1>1, <2>1, <2>2, EndLogs
<1>3. CASE UNCHANGED row /\ pc[c] = "deciding" /\ (Go(c, "running") \/ Go(c, "entering"))
  <2>1. /\ \A d \in Calls \ {c} : Still(d)
        /\ pc'[c] \in {"running", "entering"}
    BY <1>1, <1>3 DEF IInv, Types, Actors, Go, Still, Sent
  <2>2. Leave(c) = "armed" /\ acts[c] = 0
    BY <1>1, <1>3, LeaveIs DEF IInv, ActsInv
  <2>3. Leave(c)' = Leave(c) /\ Entry(c)' = Entry(c)
    BY <1>1, <1>3, <2>1, <2>2 DEF Leave, Entry
  <2> QED
    BY <1>1, <2>1, <2>3, StillMeans, NoEntry
<1> QED
  BY <1>1, <1>2, <1>3 DEF Dispatch, Ran

\* A request the server takes acts, unless it is refused for its session; a
\* refused one nobody waits for is a leave lost.
LEMMA TakeLogs ==
  ASSUME IInv, NEW m \in wire, Take(m)
  PROVE  Log!Next \/ UNCHANGED Log!vars
<1>1. /\ m \in Msgs /\ pc[m.by] \in {"posted", "done", "gone"} /\ UNCHANGED <<call, row>>
      /\ wire' = wire \ {m}
  BY DEF Take, IInv, Types, WireInv
<1>2. \A d \in Calls : d # m.by => pc'[d] = pc[d] /\ Sent(d)' = Sent(d)
  BY <1>1 DEF Take, Go, IInv, Types, Msgs, Actors, Sent
<1>3. \A d \in Calls : d # m.by \/ UNCHANGED acts => acts'[d] = acts[d]
  BY <1>1 DEF Take, IInv, Types
<1>4. CASE m.by \notin Calls
  <2>1. UNCHANGED acts
    BY <1>4 DEF Take
  <2>2. \A d \in Calls : Still(d)
    BY <1>1, <1>2, <1>3, <1>4 DEF Still
  <2> QED
    BY <2>1, <2>2, StillMeans, NoEntry
<1>5. CASE m.by \in Calls
  <2> DEFINE c == m.by
  <2>1. c \in Calls /\ c \in Actors /\ Sent(c) /\ acts[c] = 0 /\ Leave(c) = "armed"
    BY <1>1, <1>5, LeaveIs DEF Sent, Actors
  <2>2. ~Sent(c)'
    BY <1>1 DEF IInv, WireInv, Sent
  <2>3. \A d \in Calls \ {c} : Still(d)
    BY <1>1, <1>2, <1>3 DEF Still
  <2>4. \A d \in Calls : Entry(d)' = Entry(d)
    BY <1>1 DEF Entry
  <2>5. CASE ~Rejects(m.sid)
    <3>1. acts' = [acts EXCEPT ![c] = @ + 1] /\ acts \in [Calls -> Nat]
      BY <1>5, <2>5 DEF Take, IInv, Types
    <3>2. acts'[c] = 1
      BY <2>1, <3>1
    <3>3. Leave(c)' = "spent"
      BY <3>2 DEF Leave
    <3> HIDE DEF c
    <3> QED
      BY <2>1, <2>3, <2>4, <3>1, <3>3, Acts
  <2>6. CASE Rejects(m.sid) /\ Waits(m)
    <3>1. UNCHANGED acts /\ pc'[c] = "rejected"
      BY <1>5, <2>1, <2>6 DEF Take, Go, IInv, Types
    <3>2. Leave(c)' = Leave(c)
      BY <2>1, <3>1 DEF Leave
    <3>3. \A d \in Calls : Leave(d)' = Leave(d)
      BY <2>3, <3>2, StillMeans
    <3> QED
      BY <2>4, <3>1, <3>3, NoEntry
  <2>7. CASE Rejects(m.sid) /\ ~Waits(m)
    <3>1. UNCHANGED <<acts, pc>> /\ pc[c] \in {"done", "gone"}
      BY <1>1, <2>7 DEF Take, Waits, IInv, WireInv
    <3>2. Leave(c)' = "spent"
      BY <2>1, <2>2, <3>1 DEF Leave, Sent
    <3>3. \A d \in Calls : Leave(d)' = IF d \in {c} THEN "spent" ELSE Leave(d)
      BY <2>3, <3>2, StillMeans
    <3> HIDE DEF c
    <3> QED
      BY <2>1, <2>4, <3>1, <3>3, Drops
  <2> QED
    BY <2>5, <2>6, <2>7
<1> QED
  BY <1>4, <1>5

\* A client leaves: its leave is lost, unless its request is under way.
LEMMA HangUpLogs ==
  ASSUME IInv, NEW c \in Calls, HangUp(c)
  PROVE  Log!Next \/ UNCHANGED Log!vars
<1>1. /\ UNCHANGED <<acts, wire, call, row>> /\ pc'[c] = "gone"
      /\ pc[c] \notin {"idle", "done", "gone"}
      /\ \A d \in Calls \ {c} : pc'[d] = pc[d]
  BY DEF HangUp, Live, Go, IInv, Types, Actors
<1>2. \A d \in Calls : Entry(d)' = Entry(d)
  BY <1>1 DEF Entry
<1>3. \A d \in Calls \ {c} : Still(d)
  BY <1>1 DEF Still, Sent
<1>4. CASE Sent(c) /\ acts[c] = 0
  <2>1. Leave(c)' = Leave(c)
    BY <1>1, <1>4, LeaveIs DEF Leave, Sent
  <2>2. \A d \in Calls : Leave(d)' = Leave(d)
    BY <1>3, <2>1, StillMeans
  <2> QED
    BY <1>1, <1>2, <2>2, NoEntry
<1>5. CASE ~(Sent(c) /\ acts[c] = 0)
  <2>1. Leave(c)' = "spent"
    BY <1>1, <1>5, LeaveIs DEF Leave, Sent
  <2>2. \A d \in Calls : Leave(d)' = IF d \in {c} THEN "spent" ELSE Leave(d)
    BY <1>3, <2>1, StillMeans
  <2> QED
    BY <1>1, <1>2, <2>2, Drops
<1> QED
  BY <1>4, <1>5

\* A server that restarts loses what nobody waits for.
LEMMA ForgetsLogs ==
  ASSUME IInv, ServerForgets
  PROVE  Log!Next
<1> DEFINE S == {d \in Calls : Sent(d) /\ ~Sent(d)'}
<1>1. UNCHANGED <<pc, call, row, acts>>
  BY DEF ServerForgets, path
<1>2. \A d \in Calls : Sent(d)' => Sent(d)
  BY DEF ServerForgets, Sent, IInv, Types, Msgs
<1>3. \A d \in S : pc[d] \in {"done", "gone"}
  <2>1. SUFFICES ASSUME NEW d \in Calls, Sent(d), pc[d] \notin {"done", "gone"} PROVE Sent(d)'
    OBVIOUS
  <2>2. PICK m \in wire : m.by = d
    BY <2>1 DEF Sent
  <2>3. Waits(m)
    BY <2>1, <2>2 DEF IInv, WireInv, Waits
  <2>4. [m EXCEPT !.sid = Forgotten(m.sid)] \in wire'
    BY <2>3 DEF ServerForgets
  <2>5. [m EXCEPT !.sid = Forgotten(m.sid)].by = d
    BY <2>2 DEF IInv, Types, Msgs
  <2> QED
    BY <2>4, <2>5 DEF Sent
<1>4. ASSUME NEW d \in Calls
      PROVE  Leave(d)' = IF d \in S THEN "spent" ELSE Leave(d)
  <2>1. CASE d \in S
    BY <1>1, <1>3, <2>1 DEF Leave, Sent
  <2>2. CASE d \notin S
    <3>1. Sent(d)' <=> Sent(d)
      BY <1>2, <2>2
    <3> QED
      BY <1>1, <2>2, <3>1 DEF Leave, Sent
  <2> QED
    BY <2>1, <2>2
<1>5. \A d \in Calls : Entry(d)' = Entry(d)
  BY <1>1 DEF Entry
<1> HIDE DEF S
<1>6. S \in SUBSET Calls
  BY DEF S
<1> QED
  BY <1>1, <1>4, <1>5, <1>6, Drops

\* The steps that decide nothing, send, or pass the time.
LEMMA QuietLogs ==
  ASSUME CallAssumption, IInv,
         \/ \E a \in Actors : Locking(a) \/ Introduce(a) \/ Introduced(a)
         \/ Ping \/ PingTimeout \/ Tick
  PROVE  UNCHANGED Log!vars
<1>1. SUFFICES /\ UNCHANGED <<acts, row, call>>
               /\ \A d \in Calls : Leave(d)' = Leave(d)
  BY NoEntry DEF Entry
<1>2. ASSUME NEW a \in Actors, Locking(a) \/ Introduce(a) \/ Introduced(a)
      PROVE  <1>1!1
  <2>1. /\ UNCHANGED <<acts, row, call>>
        /\ pc[a] \in {"entering", "stale", "introducing", "notifying"}
        /\ pc'[a] \in {"introducing", "posted", "entering", "notifying"}
        /\ \A d \in Actors \ {a} : pc'[d] = pc[d]
    BY <1>2 DEF Locking, Enter, Forget, Introduce, Introduced, Post, Go, path, IInv, Types
  <2>2. wire' = wire \/ \E m : m.by = a /\ wire' = wire \cup {m}
    BY <1>2 DEF Locking, Enter, Forget, Introduce, Introduced, Post
  <2>3. ASSUME NEW d \in Calls PROVE Leave(d)' = Leave(d)
    <3>1. CASE d = a
      BY <2>1, <3>1 DEF Leave
    <3>2. CASE d # a
      <4>1. Sent(d)' <=> Sent(d)
        BY <2>2, <3>2 DEF Sent
      <4> QED
        BY <2>1, <3>2, <4>1 DEF Leave, Sent, Actors
    <3> QED
      BY <3>1, <3>2
  <2> QED
    BY <2>1, <2>3
<1>3. ASSUME Ping \/ PingTimeout \/ Tick PROVE <1>1!1
  <2>1. /\ UNCHANGED <<acts, row, call>>
        /\ \A d \in Calls : pc'[d] = pc[d]
        /\ wire' \in {wire, {m \in wire : m.by # Probe}}
    BY <1>3 DEF Ping, PingTimeout, Tick, Give, Go, path, IInv, Types, Actors, CallAssumption
  <2>2. ASSUME NEW d \in Calls PROVE Leave(d)' = Leave(d)
    <3>1. Sent(d)' <=> Sent(d)
      BY <2>1 DEF Sent, CallAssumption
    <3> QED
      BY <2>1, <3>1 DEF Leave, Sent
  <2> QED
    BY <2>1, <2>2
<1> QED
  BY <1>2, <1>3

\* Every step of the path is a step of the log's, or none.
LEMMA LogStep ==
  ASSUME CallAssumption, IInv, [Next]_vars
  PROVE  [Log!Next]_(Log!vars)
<1>1. ASSUME NEW c \in Calls, Decide(c) \/ Answer(c) \/ Expire(c)
      PROVE  Log!Next \/ UNCHANGED Log!vars
  BY <1>1, DecisionLogs
<1>2. ASSUME NEW c \in Calls, Dispatch(c) \/ Ran(c)
      PROVE  Log!Next \/ UNCHANGED Log!vars
  BY <1>2, DispatchLogs
<1>3. ASSUME NEW c \in Calls, Run(c)
      PROVE  Log!Next \/ UNCHANGED Log!vars
  <2>1. /\ pc[c] = "running" /\ acts' = [acts EXCEPT ![c] = @ + 1] /\ acts'[c] = 1
        /\ UNCHANGED <<pc, call, row, wire>> /\ acts \in [Calls -> Nat]
    BY <1>3 DEF Run, IInv, Types
  <2>2. \A d \in Calls \ {c} : Still(d)
    BY <2>1 DEF Still, Sent
  <2>3. Leave(c) = "armed" /\ Leave(c)' = "spent" /\ Entry(c)' = Entry(c)
    BY <1>3, <2>1, LeaveIs DEF Run, Leave, Entry
  <2> QED
    BY <2>1, <2>2, <2>3, Acts
<1>4. ASSUME NEW c \in Calls, HangUp(c)
      PROVE  Log!Next \/ UNCHANGED Log!vars
  BY <1>4, HangUpLogs
<1>5. ASSUME NEW a \in Actors, IntroFails(a) \/ Lost(a)
      PROVE  Log!Next \/ UNCHANGED Log!vars
  BY <1>5, GiveLogs DEF IntroFails, Lost
<1>6. ASSUME NEW a \in Actors, Answered(a)
      PROVE  Log!Next \/ UNCHANGED Log!vars
  <2>1. pc[a] = "answered" /\ UNCHANGED <<call, acts, wire>>
    BY <1>6 DEF Answered
  <2>2. a \in Calls => acts[a] = 1
    BY <2>1 DEF IInv, ActsInv
  <2> QED
    BY <1>6, <2>1, <2>2, GiveLogs DEF Answered
<1>7. ASSUME NEW a \in Actors, Rejected(a)
      PROVE  Log!Next \/ UNCHANGED Log!vars
  <2>1. pc[a] = "rejected" /\ UNCHANGED <<call, acts, wire>>
    BY <1>7 DEF Rejected
  <2>2. CASE Give(a, "stale")
    BY <2>1, <2>2, GiveLogs
  <2>3. CASE Go(a, "stale") /\ UNCHANGED row
    <3>1. pc'[a] = "stale" /\ \A d \in Actors \ {a} : pc'[d] = pc[d]
      BY <2>3 DEF Go, IInv, Types
    <3>2. \A d \in Calls : Leave(d)' = Leave(d) /\ Entry(d)' = Entry(d)
      BY <2>1, <2>3, <3>1 DEF Leave, Entry, Actors
    <3> QED
      BY <2>1, <3>2, NoEntry
  <2> QED
    BY <1>7, <2>2, <2>3 DEF Rejected
<1>8. ASSUME NEW m \in wire, Take(m)
      PROVE  Log!Next \/ UNCHANGED Log!vars
  BY <1>8, TakeLogs
<1>9. ASSUME ServerForgets
      PROVE  Log!Next \/ UNCHANGED Log!vars
  BY <1>9, ForgetsLogs
<1>10. ASSUME \/ \E a \in Actors : Locking(a) \/ Introduce(a) \/ Introduced(a)
              \/ Ping \/ PingTimeout \/ Tick
       PROVE  Log!Next \/ UNCHANGED Log!vars
  BY <1>10, QuietLogs
<1>11. ASSUME UNCHANGED vars
       PROVE  Log!Next \/ UNCHANGED Log!vars
  BY <1>11, NoEntry DEF vars, Leave, Entry
<1> QED
  BY <1>1, <1>2, <1>3, <1>4, <1>5, <1>6, <1>7, <1>8, <1>9, <1>10, <1>11 DEF Next, Own, Replies

\* Whatever is lost, sent again, abandoned or forgotten, the path does only what
\* the log promises of a call: it is an implementation of CallLog.
THEOREM RefinesCallLog == ASSUME CallAssumption PROVE Spec => ImplementsCallLog
<1>1. Init => Log!Init
  <2> SUFFICES ASSUME Init PROVE Log!Init
    OBVIOUS
  <2>1. \A c \in Calls : Leave(c) = "open" /\ Entry(c) = "none"
    BY DEF Init, Leave, Entry, Refusals, Actors
  <2> QED
    BY <2>1 DEF Init, Log!Init
<1>2. IInv /\ [Next]_vars => [Log!Next]_(Log!vars)
  BY LogStep
<1>3. Spec => []IInv
  BY Invariant
<1> QED
  BY <1>1, <1>2, <1>3, PTL DEF Spec, ImplementsCallLog, Log!Spec

=============================================================================
