---------------------------- MODULE FrontProofs ----------------------------
(***************************************************************************)
(* What a request meets at the door and past it.  Which keys let one in,   *)
(* and which turn one away, for any number of requests, signing keys and   *)
(* rotations; then the parts of Forms, for whatever tools, operations,     *)
(* requests and calls; then the configuration file, for whatever it and    *)
(* the environment say; then packs, for whatever they and it hold.         *)
(***************************************************************************)
EXTENDS Front, Trade, Integers, SequenceTheorems, WellFoundedInduction, TLAPS

Stages == {"keys", "asking", "told", "in"} \cup Done
Reqs   == [stage : Stages, kid : Keys \cup {"none"}, had : BOOLEAN,
           id : {"none", "issued", "access", "bearer_identity"},
           began : 0..MaxTime, forced : BOOLEAN, got : SUBSET Keys]
Stamps == [is : {"coming", "published", "withdrawn"}, since : 0..MaxTime]

Types == /\ clock \in 0..MaxTime /\ access \in BOOLEAN
         /\ key \in [Keys -> Stamps] /\ req \in [Requests -> Reqs]
         /\ cache \in [kept : BOOLEAN, at : 0..MaxTime, keys : SUBSET Keys]

KeyInv == \A k \in Keys : key[k].since <= clock

\* A key of a set that was asked for at time t: if the team has withdrawn it,
\* then no earlier than that.
SeenAt(k, t) == \/ key[k].is = "published"
                \/ key[k].is = "withdrawn" /\ t <= key[k].since

\* A fetch takes no longer than its timeout; what it was told was true after it
\* began; and a key that was published as the request came is still missing from
\* it only because it has been withdrawn.
Honest(q) ==
  /\ q.stage \in {"asking", "told"} => q.began <= clock /\ clock <= q.began + Fetch
  /\ q.stage = "told" => \A k \in q.got : SeenAt(k, q.began)
  /\ q.had => q.stage \in {"keys", "asking", "told"} /\ q.kid \in Keys /\ key[q.kid].is # "coming"
  /\ q.had /\ q.stage = "told" /\ q.kid \notin q.got => key[q.kid].is = "withdrawn"

ReqInv == \A r \in Requests : Honest(req[r])

\* The set that was kept is a fetch older than it says, at most.
CacheInv == cache.kept => /\ cache.at <= clock
                          /\ \A k \in cache.keys : SeenAt(k, cache.at - Fetch)

IInv == Types /\ KeyInv /\ ReqInv /\ CacheInv
-----------------------------------------------------------------------------
(* The requests that the operators build.                                  *)

Quiet(q) == q \in Reqs /\ q.stage \notin {"asking", "told"} /\ ~q.had

LEMMA IdleIn == ASSUME FrontAssumption
                PROVE  Idle \in Reqs /\ ~Idle.had /\ Idle.stage = "away"
<1>1. 0 \in 0..MaxTime
  BY DEF FrontAssumption
<1> QED
  BY <1>1 DEF Idle, Reqs, Stages, Done

LEMMA IdleIs == ASSUME FrontAssumption, NEW s \in Stages \ {"asking", "told"}
                PROVE  Quiet([Idle EXCEPT !.stage = s])
<1>1. [Idle EXCEPT !.stage = s] \in Reqs
  BY IdleIn DEF Reqs
<1>2. [Idle EXCEPT !.stage = s].stage = s /\ ~[Idle EXCEPT !.stage = s].had
  BY IdleIn DEF Reqs
<1> QED
  BY <1>1, <1>2 DEF Quiet

LEMMA OutIs == ASSUME FrontAssumption, NEW why \in Refusals
               PROVE  Quiet(Out(why)) /\ Out(why).stage = why
<1>1. why \in Stages \ {"asking", "told"}
  BY DEF Refusals, Stages, Done
<1>2. Out(why).stage = why
  BY DEF Out, Idle
<1> QED
  BY <1>1, <1>2, IdleIs DEF Out

LEMMA JudgedAre == ASSUME FrontAssumption, NEW q \in Reqs, NEW p \in Judged(q)
                   PROVE  Quiet(p) /\ p.stage # "no such key"
<1>1. CASE p = Out("bad credentials") \/ p = Out("not allowed")
  BY <1>1, OutIs DEF Refusals
<1>2. CASE p = [Idle EXCEPT !.stage = "in", !.id = q.id, !.kid = q.kid]
  <2>1. p \in Reqs
    BY <1>2, IdleIn DEF Reqs, Stages
  <2>2. p.stage = "in" /\ ~p.had
    BY <1>2, IdleIn DEF Reqs
  <2> QED
    BY <2>1, <2>2 DEF Quiet
<1> QED
  BY <1>1, <1>2 DEF Judged

LEMMA AskingIs == ASSUME FrontAssumption, Types, NEW q \in Reqs, NEW f \in BOOLEAN
                  PROVE  /\ Asking(q, f) \in Reqs
                         /\ Asking(q, f).stage = "asking" /\ Asking(q, f).began = clock
                         /\ Asking(q, f).kid = q.kid /\ Asking(q, f).had = q.had
<1>1. [q EXCEPT !.stage = "asking", !.began = clock, !.forced = f, !.got = {}] \in Reqs
  BY DEF Types, Reqs, Stages
<1> QED
  BY <1>1 DEF Asking, Reqs

LEMMA QuietHonest == ASSUME NEW q, Quiet(q) PROVE Honest(q)
BY DEF Quiet, Honest

LEMMA AskingHonest == ASSUME FrontAssumption, IInv, NEW q \in Reqs, NEW f \in BOOLEAN,
                            Honest(q), q.stage \in {"keys", "asking", "told"}
                     PROVE  Honest(Asking(q, f))
BY AskingIs DEF IInv, Types, Honest, FrontAssumption
-----------------------------------------------------------------------------
(* One request moves, the team rotates a key, the clock ticks.             *)

\* A request that moves to a sound place leaves the others where they were.
LEMMA OneMoves ==
  ASSUME IInv, NEW r \in Requests, NEW q \in Reqs, Honest(q),
         req' = [req EXCEPT ![r] = q], UNCHANGED <<clock, access, key>>
  PROVE  req' \in [Requests -> Reqs] /\ KeyInv' /\ ReqInv'
<1>1. req' \in [Requests -> Reqs] /\ KeyInv'
  BY DEF IInv, Types, KeyInv
<1>2. ASSUME NEW p \in Requests PROVE Honest(req[p])'
  <2>1. Honest(q)'
    BY DEF Honest, SeenAt
  <2>2. CASE p = r
    BY <2>1, <2>2 DEF IInv, Types
  <2>3. CASE p # r
    <3>1. req'[p] = req[p]
      BY <2>3 DEF IInv, Types
    <3> QED
      BY <3>1 DEF IInv, ReqInv, Honest, SeenAt
  <2> QED
    BY <2>2, <2>3
<1> QED
  BY <1>1, <1>2 DEF ReqInv

\* The cached set stays what it was.
LEMMA Uncached ==
  ASSUME IInv, NEW r \in Requests, NEW q \in Reqs, Honest(q),
         req' = [req EXCEPT ![r] = q], UNCHANGED <<clock, access, key, cache>>
  PROVE  IInv'
<1>1. CacheInv'
  BY DEF IInv, CacheInv, SeenAt
<1> QED
  BY <1>1, OneMoves DEF IInv, Types

LEMMA ArriveStep == ASSUME FrontAssumption, IInv, NEW r \in Requests, Arrive(r) PROVE IInv'
<1>1. PICK b \in Bearers, j \in {"none", "malformed", "signed"}, k \in Keys :
        Set(r, IF BearerError(b) # "none" THEN Out(BearerError(b))
               ELSE IF ~access THEN [[Idle EXCEPT !.id = Identity(b)] EXCEPT !.stage = "in"]
               ELSE CASE j = "none"      -> Out("missing credentials")
                      [] j = "malformed" -> Out("bad credentials")
                      [] j = "signed"    -> [[Idle EXCEPT !.id = Identity(b)] EXCEPT
                                               !.stage = "keys", !.kid = k, !.had = k \in Published])
  BY DEF Arrive
<1> DEFINE i == [[Idle EXCEPT !.id = Identity(b)] EXCEPT !.stage = "in"]
           s == [[Idle EXCEPT !.id = Identity(b)] EXCEPT
                    !.stage = "keys", !.kid = k, !.had = k \in Published]
<1>2. Identity(b) \in {"none", "issued", "access", "bearer_identity"}
  BY DEF Identity
<1>3. i \in Reqs /\ Honest(i)
  <2>1. i \in Reqs
    BY <1>2, IdleIn DEF Reqs, Stages
  <2>2. i.stage = "in" /\ ~i.had
    BY IdleIn DEF Reqs
  <2>3. Quiet(i)
    BY <2>1, <2>2 DEF Quiet
  <2> QED
    BY <2>3, QuietHonest DEF Quiet
<1>4. s \in Reqs /\ Honest(s)
  <2>1. (k \in Published) \in BOOLEAN
    OBVIOUS
  <2>2. s \in Reqs
    BY <1>2, <2>1, IdleIn DEF Reqs, Stages
  <2>3. s.stage = "keys" /\ s.kid = k /\ s.had = (k \in Published)
    BY DEF Idle
  <2> HIDE DEF s
  <2> QED
    BY <2>2, <2>3 DEF Honest, Published
<1>5. \A w \in Refusals : Out(w) \in Reqs /\ Honest(Out(w))
  BY OutIs, QuietHonest DEF Quiet
<1>6. BearerError(b) \in Refusals \cup {"none"}
  BY DEF BearerError, Refusals
<1> HIDE DEF i, s
<1>7. \E q \in Reqs : Honest(q) /\ Set(r, q)
  <2>1. CASE BearerError(b) # "none"
    BY <1>1, <1>5, <1>6, <2>1
  <2>2. CASE BearerError(b) = "none" /\ ~access
    BY <1>1, <1>3, <2>2 DEF i
  <2>3. CASE BearerError(b) = "none" /\ access /\ j \in {"none", "malformed"}
    BY <1>1, <1>5, <2>3 DEF Refusals
  <2>4. CASE BearerError(b) = "none" /\ access /\ j = "signed"
    BY <1>1, <1>4, <2>4 DEF s
  <2> QED
    BY <2>1, <2>2, <2>3, <2>4 DEF IInv, Types
<1> QED
  BY <1>7, Uncached DEF Arrive, Set

LEMMA LookStep == ASSUME FrontAssumption, IInv, NEW r \in Requests, Look(r) PROVE IInv'
<1>1. req[r] \in Reqs /\ Honest(req[r])
  BY DEF IInv, Types, ReqInv
<1>2. Fresh \in BOOLEAN
  BY DEF IInv, Types, Fresh
<1>3. Asking(req[r], Fresh) \in Reqs /\ Honest(Asking(req[r], Fresh))
  BY <1>1, <1>2, AskingIs, AskingHonest DEF IInv, Look
<1>4. \A q \in Judged(req[r]) : q \in Reqs /\ Honest(q)
  BY <1>1, JudgedAre, QuietHonest DEF Quiet
<1>5. \E q \in Reqs : Honest(q) /\ req' = [req EXCEPT ![r] = q]
  BY <1>3, <1>4 DEF Look, Become
<1> QED
  BY <1>5, Uncached DEF Look

LEMMA TeamAnswersStep ==
  ASSUME FrontAssumption, IInv, NEW r \in Requests, TeamAnswers(r) PROVE IInv'
<1> DEFINE q == [req[r] EXCEPT !.stage = "told", !.got = Published]
<1>1. req[r] \in Reqs /\ Honest(req[r]) /\ req[r].stage = "asking"
  BY DEF IInv, Types, ReqInv, TeamAnswers
<1>2. q \in Reqs
  BY <1>1 DEF Reqs, Stages, Published
<1>3. /\ q.stage = "told" /\ q.got = Published /\ q.began = req[r].began
      /\ q.kid = req[r].kid /\ q.had = req[r].had
  BY <1>1 DEF Reqs
<1>4. \A k \in Keys : key[k].is \in {"coming", "published", "withdrawn"}
  BY DEF IInv, Types, Stamps
<1> HIDE DEF q
<1>5. Honest(q)
  <2>1. req[r].began <= clock /\ clock <= req[r].began + Fetch
    BY <1>1 DEF Honest
  <2>2. \A k \in q.got : SeenAt(k, q.began)
    BY <1>3 DEF SeenAt, Published
  <2>3. q.had => q.kid \in Keys /\ key[q.kid].is # "coming"
    BY <1>1, <1>3 DEF Honest
  <2>4. q.had /\ q.kid \notin q.got => key[q.kid].is = "withdrawn"
    BY <1>3, <1>4, <2>3 DEF Published
  <2> QED
    BY <1>3, <2>1, <2>2, <2>3, <2>4 DEF Honest
<1> QED
  BY <1>2, <1>5, Uncached DEF TeamAnswers, Set, q

\* What is kept was told to a fetch that began no longer than its timeout ago.
LEMMA KeepStep == ASSUME FrontAssumption, IInv, NEW r \in Requests, Keep(r) PROVE IInv'
<1>1. req[r] \in Reqs /\ Honest(req[r]) /\ req[r].stage = "told"
  BY DEF IInv, Types, ReqInv, Keep
<1>2. Asking(req[r], TRUE) \in Reqs /\ Honest(Asking(req[r], TRUE))
  BY <1>1, AskingIs, AskingHonest DEF IInv
<1>3. \A q \in Judged(req[r]) \cup {Out("no such key")} : q \in Reqs /\ Honest(q)
  BY <1>1, JudgedAre, OutIs, QuietHonest DEF Quiet, Refusals
<1>4. PICK q \in Reqs : Honest(q) /\ req' = [req EXCEPT ![r] = q]
  BY <1>2, <1>3 DEF Keep, Become
<1>5. req' \in [Requests -> Reqs] /\ KeyInv' /\ ReqInv'
  BY <1>4, OneMoves DEF Keep
<1>6. cache' \in [kept : BOOLEAN, at : 0..MaxTime, keys : SUBSET Keys]
  BY <1>1 DEF Keep, IInv, Types, Reqs
<1>7. CacheInv'
  <2>1. cache'.at = clock /\ cache'.keys = req[r].got /\ clock' = clock /\ key' = key
    BY DEF Keep
  <2>2. clock - Fetch <= req[r].began
    BY <1>1 DEF Honest, IInv, Types, Reqs, FrontAssumption
  <2>3. \A k \in req[r].got : k \in Keys /\ SeenAt(k, req[r].began)
    BY <1>1 DEF Honest, Reqs
  <2>4. \A k \in req[r].got : SeenAt(k, clock - Fetch)
    BY <1>1, <2>2, <2>3 DEF SeenAt, IInv, Types, Reqs, Stamps, FrontAssumption
  <2> QED
    BY <2>1, <2>4 DEF CacheInv, SeenAt, IInv, Types
<1> QED
  BY <1>5, <1>6, <1>7 DEF IInv, Types, Keep

\* The steps after which nothing is asked for any more.
LEMMA EndStep ==
  ASSUME FrontAssumption, IInv, NEW r \in Requests, FetchFails(r) \/ Serve(r) \/ HangUp(r)
  PROVE  IInv'
<1>1. \A s \in Stages \ {"asking", "told"} : Quiet([Idle EXCEPT !.stage = s])
  BY IdleIs
<1>2. Quiet([Idle EXCEPT !.stage = "calling", !.id = req[r].id])
  <2> DEFINE q == [Idle EXCEPT !.stage = "calling", !.id = req[r].id]
  <2>1. req[r].id \in {"none", "issued", "access", "bearer_identity"}
    BY DEF IInv, Types, Reqs
  <2>2. q \in Reqs
    BY <2>1, IdleIn DEF Reqs, Stages, Done
  <2>3. q.stage = "calling" /\ ~q.had
    BY IdleIn DEF Reqs
  <2> QED
    BY <2>2, <2>3 DEF Quiet
<1>3. Quiet(Out("no keys"))
  BY OutIs DEF Refusals
<1>4. \E q : Quiet(q) /\ req' = [req EXCEPT ![r] = q]
  BY <1>1, <1>2, <1>3 DEF FetchFails, Serve, HangUp, Set, Stages, Done
<1> QED
  BY <1>4, QuietHonest, Uncached DEF Quiet, FetchFails, Serve, HangUp

\* A key is withdrawn now, and so no earlier than anything was asked.
LEMMA RotateStep == ASSUME FrontAssumption, IInv, NEW k \in Keys, Rotate(k) PROVE IInv'
<1>1. key' \in [Keys -> Stamps] /\ KeyInv'
  <2>1. [is |-> IF key[k].is = "coming" THEN "published" ELSE "withdrawn", since |-> clock] \in Stamps
    BY DEF IInv, Types, Stamps
  <2> QED
    BY <2>1 DEF Rotate, IInv, Types, KeyInv, FrontAssumption
<1>2. ASSUME NEW j \in Keys, NEW t \in Int, t <= clock, SeenAt(j, t) PROVE SeenAt(j, t)'
  <2>1. CASE j = k
    BY <1>2, <2>1 DEF Rotate, SeenAt, IInv, Types
  <2>2. CASE j # k
    BY <1>2, <2>2 DEF Rotate, SeenAt, IInv, Types
  <2> QED
    BY <2>1, <2>2
<1>3. \A j \in Keys : /\ key[j].is # "coming" => key'[j].is # "coming"
                      /\ key[j].is = "withdrawn" => key'[j].is = "withdrawn"
  BY DEF Rotate, IInv, Types
<1>4. ReqInv'
  <2> SUFFICES ASSUME NEW r \in Requests PROVE Honest(req[r])'
    BY DEF ReqInv
  <2>1. req[r] \in Reqs /\ Honest(req[r]) /\ req' = req /\ clock' = clock
    BY DEF IInv, Types, ReqInv, Rotate
  <2>2. req[r].stage = "told" => \A j \in req[r].got : SeenAt(j, req[r].began)'
    BY <1>2, <2>1 DEF Honest, Reqs
  <2> QED
    BY <1>3, <2>1, <2>2 DEF Honest, Reqs
<1>5. CacheInv'
  <2>1. cache' = cache /\ clock' = clock /\ cache.at - Fetch \in Int
    BY DEF Rotate, IInv, Types, FrontAssumption
  <2>2. cache.kept => cache.at - Fetch <= clock
    BY DEF IInv, Types, CacheInv, FrontAssumption
  <2>3. cache.kept => \A j \in cache.keys : SeenAt(j, cache.at - Fetch)'
    BY <1>2, <2>1, <2>2 DEF IInv, CacheInv, Types
  <2> QED
    BY <2>1, <2>3 DEF CacheInv, IInv
<1> QED
  BY <1>1, <1>4, <1>5 DEF IInv, Types, Rotate

\* No tick lets a fetch outlast its timeout.
LEMMA TickStep == ASSUME FrontAssumption, IInv, Tick PROVE IInv'
<1>1. clock' \in 0..MaxTime /\ clock <= clock'
  BY DEF Tick, IInv, Types, FrontAssumption
<1>2. KeyInv'
  BY <1>1 DEF Tick, IInv, Types, KeyInv, Stamps
<1>3. ReqInv'
  <2> SUFFICES ASSUME NEW r \in Requests PROVE Honest(req[r])'
    BY DEF ReqInv
  <2>1. req[r] \in Reqs /\ Honest(req[r]) /\ req' = req /\ key' = key
    BY DEF IInv, Types, ReqInv, Tick
  <2>2. req[r].stage \in {"asking", "told"} => req[r].began <= clock' /\ clock' <= req[r].began + Fetch
    BY <2>1 DEF Honest, Tick, IInv, Types, Reqs, FrontAssumption
  <2> QED
    BY <2>1, <2>2 DEF Honest, SeenAt
<1>4. CacheInv'
  BY <1>1 DEF Tick, IInv, Types, CacheInv, SeenAt
<1> QED
  BY <1>1, <1>2, <1>3, <1>4 DEF IInv, Types, Tick
-----------------------------------------------------------------------------
(* Who moved.                                                              *)

\* A request that changes its stage does so in a step of its own.
LEMMA OneAtATime ==
  ASSUME IInv, Next, NEW r \in Requests, req'[r].stage # req[r].stage
  PROVE  Arrive(r) \/ Step(r) \/ TeamAnswers(r) \/ HangUp(r)
<1>1. ASSUME NEW p \in Requests, p # r, NEW q, req' = [req EXCEPT ![p] = q] PROVE req'[r] = req[r]
  BY <1>1 DEF IInv, Types
<1>2. ASSUME NEW p \in Requests, p # r PROVE ~(Arrive(p) \/ Step(p) \/ TeamAnswers(p) \/ HangUp(p))
  BY <1>1, <1>2 DEF Arrive, Step, Look, Keep, FetchFails, Serve, TeamAnswers, HangUp, Set, Become
<1> QED
  BY <1>2 DEF Next, Rotate, Tick

\* With [auth.access] configured no request gets in on its bearer alone.
LEMMA ArrivesWithAccess ==
  ASSUME FrontAssumption, Types, access, NEW r \in Requests, Arrive(r) PROVE req'[r].stage # "in"
<1>1. PICK b \in Bearers, j \in {"none", "malformed", "signed"}, k \in Keys :
        Set(r, IF BearerError(b) # "none" THEN Out(BearerError(b))
               ELSE CASE j = "none"      -> Out("missing credentials")
                      [] j = "malformed" -> Out("bad credentials")
                      [] j = "signed"    -> [[Idle EXCEPT !.id = Identity(b)] EXCEPT
                                               !.stage = "keys", !.kid = k, !.had = k \in Published])
  BY DEF Arrive
<1>2. \A w \in Refusals : Out(w).stage # "in"
  BY OutIs DEF Refusals
<1>3. BearerError(b) \in Refusals \cup {"none"}
  BY DEF BearerError, Refusals
<1>4. [[Idle EXCEPT !.id = Identity(b)] EXCEPT !.stage = "keys", !.kid = k, !.had = k \in Published].stage
        = "keys"
  BY DEF Idle
<1>5. \E q : q.stage # "in" /\ req' = [req EXCEPT ![r] = q]
  BY <1>1, <1>2, <1>3, <1>4 DEF Set, Refusals
<1> QED
  BY <1>5 DEF Types
-----------------------------------------------------------------------------
(* The invariant, and what follows from it.                                *)

LEMMA IInit == ASSUME FrontAssumption PROVE Init => IInv
<1> SUFFICES ASSUME Init PROVE IInv
  OBVIOUS
<1>1. Quiet(Idle)
  BY DEF FrontAssumption, Idle, Quiet, Reqs, Stages, Done
<1>2. key \in [Keys -> Stamps] /\ KeyInv
  BY DEF Init, Stamps, KeyInv, FrontAssumption
<1>3. req \in [Requests -> Reqs] /\ ReqInv
  BY <1>1, QuietHonest DEF Init, ReqInv, Quiet
<1> QED
  BY <1>2, <1>3 DEF Init, IInv, Types, CacheInv, NoCache, FrontAssumption

LEMMA IStep == ASSUME FrontAssumption PROVE IInv /\ [Next]_vars => IInv'
<1> SUFFICES ASSUME IInv, [Next]_vars PROVE IInv'
  OBVIOUS
<1>1. CASE Next
  BY <1>1, ArriveStep, LookStep, TeamAnswersStep, KeepStep, EndStep, RotateStep, TickStep
  DEF Next, Step
<1>2. CASE UNCHANGED vars
  BY <1>2 DEF vars, IInv, Types, KeyInv, ReqInv, Honest, SeenAt, CacheInv
<1> QED
  BY <1>1, <1>2

\* IInv holds throughout: however requests, fetches and rotations interleave,
\* the cached set is never staler than one fetch.
THEOREM Invariant == ASSUME FrontAssumption PROVE Spec => []IInv
<1>1. Init => IInv
  BY IInit
<1>2. IInv /\ [Next]_vars => IInv'
  BY IStep
<1> QED
  BY <1>1, <1>2, PTL DEF Spec

\* The types of what handle_mcp and the key cache keep.
THEOREM TypesKept == ASSUME FrontAssumption PROVE Spec => []TypeOK
<1>1. ASSUME IInv PROVE TypeOK
  BY <1>1 DEF IInv, Types, TypeOK, Stamps, Reqs, Stages
<1> QED
  BY <1>1, Invariant, PTL

\* A withdrawn key lets nobody in any more once an hour and one fetch have
\* passed, though requests that fetch side by side may keep an older set last.
THEOREM KeysExpire == ASSUME FrontAssumption PROVE Spec => WithdrawnKeyExpires
<1> DEFINE Good(k) == \/ k.is = "published"
                      \/ k.is = "withdrawn" /\ clock < k.since + TTL + Fetch
           InTime == \A r \in Requests :
                       access /\ req[r].stage # "in" /\ req'[r].stage = "in" =>
                         Good(key[req[r].kid])
<1>1. ASSUME FrontAssumption, IInv, NEW r \in Requests, Look(r), req'[r].stage = "in" PROVE Good(key[req[r].kid])
  <2>1. req[r] \in Reqs
    BY <1>1 DEF IInv, Types
  <2>2. Fresh /\ req[r].kid \in cache.keys
    <3>1. Asking(req[r], Fresh).stage = "asking"
      BY <1>1, <2>1, AskingIs DEF IInv, Types, Fresh
    <3>2. ASSUME req' = [req EXCEPT ![r] = Asking(req[r], Fresh)] PROVE FALSE
      BY <1>1, <3>1, <3>2 DEF IInv, Types
    <3> QED
      BY <1>1, <3>2 DEF Look, Become
  <2>3. req[r].kid \in Keys /\ clock - cache.at < TTL /\ SeenAt(req[r].kid, cache.at - Fetch)
    BY <1>1, <2>2 DEF IInv, Types, Fresh, CacheInv
  <2> QED
    BY <1>1, <2>3 DEF SeenAt, IInv, Types, Stamps, FrontAssumption
<1>2. ASSUME FrontAssumption, IInv, NEW r \in Requests, Keep(r), req'[r].stage = "in" PROVE Good(key[req[r].kid])
  <2>1. req[r] \in Reqs /\ Honest(req[r]) /\ req[r].stage = "told"
    BY <1>2 DEF IInv, Types, ReqInv, Keep
  <2>2. req[r].kid \in req[r].got
    <3>1. Asking(req[r], TRUE).stage = "asking" /\ Out("no such key").stage = "no such key"
      BY <1>2, <2>1, AskingIs, OutIs DEF IInv, Refusals
    <3>2. ASSUME NEW q, req' = [req EXCEPT ![r] = q] PROVE q.stage = "in"
      BY <1>2, <3>2 DEF IInv, Types
    <3> QED
      BY <1>2, <3>1, <3>2 DEF Keep, Become
  <2>3. req[r].kid \in Keys /\ clock <= req[r].began + Fetch /\ SeenAt(req[r].kid, req[r].began)
    BY <2>1, <2>2 DEF Honest, Reqs
  <2> QED
    BY <1>2, <2>1, <2>3 DEF SeenAt, IInv, Types, Reqs, Stamps, FrontAssumption
<1>3. ASSUME IInv, Next PROVE InTime
  <2> SUFFICES ASSUME NEW r \in Requests, access, req[r].stage # "in", req'[r].stage = "in"
               PROVE  Good(key[req[r].kid])
    OBVIOUS
  <2>1. Arrive(r) \/ Step(r) \/ TeamAnswers(r) \/ HangUp(r)
    BY <1>3, OneAtATime
  <2>2. CASE Look(r) \/ Keep(r)
    BY <1>1, <1>2, <1>3, <2>2
  <2>3. ~Arrive(r)
    BY <1>3, ArrivesWithAccess DEF IInv
  <2>4. ~(FetchFails(r) \/ Serve(r) \/ TeamAnswers(r) \/ HangUp(r))
    BY <1>3, OutIs, ZenonT(40) DEF FetchFails, Serve, TeamAnswers, HangUp, Set, IInv, Types, Reqs, Idle, Refusals
  <2> QED
    BY <2>1, <2>2, <2>3, <2>4 DEF Step
<1>4. IInv /\ [Next]_vars => [InTime]_vars
  BY <1>3
<1>5. Spec => [][InTime]_vars
  BY <1>4, Invariant, PTL DEF Spec
<1> QED
  BY <1>5 DEF WithdrawnKeyExpires

\* Good tokens are not turned away for a key that the team has published all along.
THEOREM SteadyKeys == ASSUME FrontAssumption PROVE Spec => SteadyKeyIsFound
<1> DEFINE Held == \A r \in Requests : req[r].had /\ req'[r].stage = "no such key" =>
                     key[req[r].kid].is = "withdrawn"
<1>1. ASSUME IInv, Next PROVE Held
  <2> SUFFICES ASSUME NEW r \in Requests, req[r].had, req'[r].stage = "no such key"
               PROVE  key[req[r].kid].is = "withdrawn"
    OBVIOUS
  <2>1. req[r] \in Reqs /\ Honest(req[r]) /\ req[r].stage \in {"keys", "asking", "told"}
    BY <1>1 DEF IInv, Types, ReqInv, Honest
  <2>2. \A q : req' = [req EXCEPT ![r] = q] => q.stage = "no such key"
    BY <1>1 DEF IInv, Types
  <2>3. Arrive(r) \/ Step(r) \/ TeamAnswers(r) \/ HangUp(r)
    BY <1>1, <2>1, OneAtATime
  <2>4. /\ \A f \in BOOLEAN : Asking(req[r], f).stage = "asking"
        /\ \A q \in Judged(req[r]) : q.stage # "no such key"
    BY <1>1, <2>1, AskingIs, JudgedAre DEF IInv
  <2>5. Fresh \in BOOLEAN
    BY <1>1 DEF IInv, Types, Fresh
  <2>6. ~(Arrive(r) \/ Look(r))
    BY <2>1, <2>2, <2>4, <2>5 DEF Arrive, Done, Refusals, Look, Become
  <2>7. /\ Out("no keys").stage # "no such key"
        /\ \A s : [Idle EXCEPT !.stage = s].stage = s
        /\ \A i : [Idle EXCEPT !.stage = "calling", !.id = i].stage = "calling"
        /\ [req[r] EXCEPT !.stage = "told", !.got = Published].stage = "told"
    BY <2>1, OutIs DEF Reqs, Idle, Refusals
  <2>8. ~(FetchFails(r) \/ Serve(r) \/ TeamAnswers(r) \/ HangUp(r))
    <3>1. req' # [req EXCEPT ![r] = Out("no keys")]
      BY <2>2, <2>7
    <3>2. ASSUME NEW s, s # "no such key", req' = [req EXCEPT ![r] = [Idle EXCEPT !.stage = s]]
          PROVE  FALSE
      <4>1. [Idle EXCEPT !.stage = s].stage = "no such key"
        BY ONLY <2>2, <3>2
      <4> QED
        BY ONLY <2>7, <3>2, <4>1
    <3>3. ASSUME NEW i, req' = [req EXCEPT ![r] = [Idle EXCEPT !.stage = "calling", !.id = i]]
          PROVE  FALSE
      <4>1. [Idle EXCEPT !.stage = "calling", !.id = i].stage = "no such key"
        BY ONLY <2>2, <3>3
      <4> QED
        BY ONLY <2>7, <4>1
    <3>4. req' # [req EXCEPT ![r] = [req[r] EXCEPT !.stage = "told", !.got = Published]]
      BY <2>2, <2>7
    <3> QED
      BY <3>1, <3>2, <3>3, <3>4 DEF FetchFails, Serve, TeamAnswers, HangUp, Set
  <2>9. CASE Keep(r)
    <3>1. req[r].stage = "told" /\ req[r].kid \notin req[r].got
      BY <2>2, <2>4, <2>9 DEF Keep, Become
    <3> QED
      BY <2>1, <3>1 DEF Honest
  <2> QED
    BY <2>3, <2>6, <2>9, <2>8 DEF Step
<1>2. IInv /\ [Next]_vars => [Held]_vars
  <2>1. ASSUME IInv, UNCHANGED vars PROVE Held
    BY <2>1 DEF vars, IInv, ReqInv, Honest
  <2> QED
    BY <1>1, <2>1
<1> QED
  BY <1>2, Invariant, PTL DEF SteadyKeyIsFound, Spec
-----------------------------------------------------------------------------
(* Forms: its inputs.                                                      *)

\* Each input is one of those the environment has.
FormsInv ==
  /\ kind = "wire" => in \in Wires
  /\ kind = "line" => in \in Lines
  /\ kind = "request" => \E o \in Ops, a \in Fills : in = [op |-> o, args |-> a]
  /\ kind = "call" => \E t \in Tools, f \in Sends, win \in BOOLEAN :
                        ArgumentsFit(t) /\ in = [raw |-> t, tool |-> Runs(t, win), sent |-> f]

\* Whatever is taken up is one of the inputs there are.
THEOREM FormsInvariance == FormsSpec => []FormsInv
<1>1. FormsInit => FormsInv
  BY DEF FormsInit, FormsInv
<1>2. FormsInv /\ [FormsNext]_<<kind, in>> => FormsInv'
  <2> SUFFICES ASSUME FormsInv, [FormsNext]_<<kind, in>> PROVE FormsInv'
    OBVIOUS
  <2>1. CASE UNCHANGED <<kind, in>>
    BY <2>1 DEF FormsInv
  <2>2. CASE TakeCall
    BY <2>2 DEF FormsInv, TakeCall, Picked
  <2>3. CASE TakeLine
    BY <2>3 DEF FormsInv, TakeLine, Picked
  <2>4. CASE TakeRequest
    BY <2>4 DEF FormsInv, TakeRequest, Picked
  <2>5. CASE TakeWire
    BY <2>5 DEF FormsInv, TakeWire, Picked
  <2> QED
    BY <2>1, <2>2, <2>3, <2>4, <2>5 DEF FormsNext
<1> QED
  BY <1>1, <1>2, PTL DEF FormsSpec

-----------------------------------------------------------------------------
(* One request's revision of the protocol.                                 *)

\* A modern request is one whose headers mirror what it says of itself.
LEMMA ModernMirrors ==
  ASSUME NEW w \in Wires, Negotiate(w) = "modern"
  PROVE  /\ w.method # "initialize"
         /\ w.meta \in ModernVersions /\ w.header = w.meta /\ w.hmethod = "same"
         /\ w.method = "tools/call" => w.hname = "same"
BY DEF Wires, Negotiate, Classify, Declared, Versioned, Mirrored, ModernVersions, LegacyVersions

\* What is answered in one of the two eras says a version that is known.
LEMMA EraIsKnown ==
  ASSUME NEW w \in Wires, Negotiate(w) \in {"legacy", "modern"}, w.method # "initialize"
  PROVE  Declared(w) \in ModernVersions \cup LegacyVersions \cup {"none"}
BY DEF Negotiate, Classify

\* Every request is served as it says it is.
LEMMA ServedState == ASSUME FormsInv PROVE ServedAsDeclared
<1> SUFFICES ASSUME kind = "wire" PROVE ServedAsDeclared
  BY DEF ServedAsDeclared
<1>1. in \in Wires /\ in.method \in Methods
  BY DEF FormsInv, Wires
<1>2. Stamped(in, {}) # {} => Negotiate(in) = "modern"
  BY DEF Stamped
<1>3. Reply(in).reply = "call" => in.method = "tools/call"
  BY <1>1 DEF Reply, Methods, Negotiate, Classify
<1>4. Reply(in).reply \in {"result", "call"} =>
        Negotiate(in) \in {"legacy", "modern"} /\ (in.method # "ping" => Reply(in).row = in.method)
  BY <1>1 DEF Reply, Methods, Negotiate, Classify
<1>5. "private" \in Stamped(in, {}) => in.method # "tools/call"
  BY DEF Stamped
<1> QED
  BY <1>1, <1>2, <1>3, <1>4, <1>5, ModernMirrors, EraIsKnown DEF ServedAsDeclared

\* What is served as a revision is what the request said of itself in every
\* place, whatever it says (ServedAsDeclared; protocol.rs).
THEOREM RequestsAreServedAsDeclared == FormsSpec => []ServedAsDeclared
<1>1. FormsInv => ServedAsDeclared
  BY ServedState
<1> QED
  BY <1>1, FormsInvariance, PTL

-----------------------------------------------------------------------------
(* Numbers.                                                                *)

\* A set of numbers has a least one.
LEMMA Least == ASSUME NEW S \in SUBSET Nat, S # {} PROVE \E x \in S : \A y \in S : x <= y
<1> DEFINE R == OpToRel(<, Nat)
<1>1. IsWellFoundedOn(R, Nat)
  BY NatLessThanWellFounded
<1>2. \A x, y \in Nat : x < y => <<x, y>> \in R
  BY DEF OpToRel
<1> HIDE DEF R
<1>3. PICK x \in S : \A y \in S : <<y, x>> \notin R
  BY <1>1, WFMin
<1>4. ASSUME NEW y \in S PROVE x <= y
  <2>1. x \in Nat /\ y \in Nat /\ ~(y < x)
    BY <1>2, <1>3
  <2> QED
    BY <2>1
<1> QED
  BY <1>4

-----------------------------------------------------------------------------
(* Requests to a REST upstream.                                            *)

\* What is encoded is no dot segment and has no slash in it.
LEMMA EncodedStays ==
  ASSUME NEW x, PathTakes(x)
  PROVE  Encoded(x) \notin {".", "..", "a/b"}
BY Zenon DEF PathTakes, Scalars, Texts, Encoded

\* Neither is what a text and what follows it make together.
LEMMA JoinedStays ==
  ASSUME NEW a, NEW x, a \notin {".", "..", "a/b"}, x \notin {".", "..", "a/b"}
  PROVE  Joined(a, x) \notin {".", "..", "a/b"}
<1>1. Joined(a, x) \in {a, x, "word"}
  BY Zenon DEF Joined
<1>2. "word" \notin {".", "..", "a/b"}
  OBVIOUS
<1> QED
  BY <1>1, <1>2

\* The parser leaves a path alone that has no dot segment in it, and no slash
\* within a segment.
LEMMA PlainPathStays ==
  ASSUME NEW S, NEW p \in Seq(S), \A i \in 1..Len(p) : p[i] \notin {".", "..", "a/b"}
  PROVE  Resolved(p) = p
<1> DEFINE g == [n \in 0..Len(p) |-> SubSeq(p, 1, n)]
           Rec(f) == f = [n \in 0..Len(p) |-> IF n = 0 THEN <<>> ELSE Walked(f[n - 1], p[n])]
           taken == CHOOSE f : Rec(f)
<1>1. Len(p) \in Nat
  BY LenProperties
<1>2. \A n \in 1..Len(p) : \A d : Walked(d, p[n]) = Append(d, p[n])
  BY Zenon DEF Walked
<1>3. \A n \in 1..Len(p) : SubSeq(p, 1, n) = Append(SubSeq(p, 1, n - 1), p[n])
  <2> TAKE n \in 1..Len(p)
  <2>1. n \in Nat /\ 1 <= n /\ 1 <= Len(p)
    BY <1>1
  <2>2. /\ SubSeq(p, 1, n) \in Seq(S) /\ SubSeq(p, 1, n - 1) \in Seq(S)
        /\ Len(SubSeq(p, 1, n)) = n /\ Len(SubSeq(p, 1, n - 1)) = n - 1
        /\ \A i \in 1..n : SubSeq(p, 1, n)[i] = p[i]
        /\ \A i \in 1..(n - 1) : SubSeq(p, 1, n - 1)[i] = p[i]
    BY <1>1, <2>1
  <2>3. Append(SubSeq(p, 1, n - 1), p[n]) \in Seq(S)
    BY <1>1, <2>1, <2>2
  <2> QED
    BY <2>1, <2>2, <2>3, SeqEqual
<1>4. SubSeq(p, 1, 0) = <<>>
  BY SubSeqEmpty
<1>5. /\ g = [n \in 0..Len(p) |-> g[n]]
      /\ \A n \in 0..Len(p) : g[n] = SubSeq(p, 1, n)
  OBVIOUS
<1> HIDE DEF g
<1>6. ASSUME NEW n \in 0..Len(p)
      PROVE  g[n] = IF n = 0 THEN <<>> ELSE Walked(g[n - 1], p[n])
  <2>1. CASE n = 0
    BY <1>4, <1>5, <2>1
  <2>2. CASE n # 0
    <3>1. n \in 1..Len(p) /\ n - 1 \in 0..Len(p)
      BY <1>1, <2>2
    <3> QED
      BY <1>2, <1>3, <1>5, <2>2, <3>1
  <2> QED
    BY <2>1, <2>2
<1>7. Rec(g)
  BY <1>5, <1>6
<1>8. ASSUME NEW f, Rec(f) PROVE f = g
  <2> DEFINE off == {n \in 0..Len(p) : f[n] # g[n]}
  <2>1. off = {}
    <3> SUFFICES ASSUME off # {} PROVE FALSE
      OBVIOUS
    <3>1. off \in SUBSET Nat
      BY <1>1
    <3>2. PICK n \in off : \A k \in off : n <= k
      <4> HIDE DEF off
      <4> QED
        BY <3>1, Least
    <3>3. f[n] = IF n = 0 THEN <<>> ELSE Walked(f[n - 1], p[n])
      BY <1>8, <3>2
    <3>4. n # 0 => f[n - 1] = g[n - 1]
      <4> SUFFICES ASSUME n # 0, f[n - 1] # g[n - 1] PROVE FALSE
        OBVIOUS
      <4>1. n \in 1..Len(p) /\ n - 1 \in 0..Len(p)
        BY <1>1, <3>2
      <4>2. n - 1 \in off
        BY <4>1
      <4> QED
        BY <3>2, <4>1, <4>2
    <3> QED
      BY <1>6, <3>2, <3>3, <3>4
  <2>2. \A n \in 0..Len(p) : f[n] = g[n]
    BY <2>1
  <2>3. f = [n \in 0..Len(p) |-> f[n]]
    BY <1>8
  <2> HIDE DEF off
  <2> QED
    BY <1>5, <2>2, <2>3
<1>9. taken = g
  BY <1>7, <1>8
<1>10. Resolved(p) = taken[Len(p)]
  BY DEF Resolved
<1>11. SubSeq(p, 1, Len(p)) = p
  BY SubSeqFull
<1>12. g[Len(p)] = p
  BY <1>1, <1>5, <1>11
<1> HIDE DEF taken
<1> QED
  BY <1>9, <1>10, <1>12

\* Where a path that can be filled leads.
LEMMA PathLeads ==
  ASSUME NEW path \in Seq(Segments), NEW args, PathRenders(path, args), Straight(path)
  PROVE  /\ Len(PathOf(path, args)) = Len(path)
         /\ \A i \in DOMAIN path : ~path[i].hole => PathOf(path, args)[i] = path[i].text
         /\ Resolved(PathOf(path, args)) = PathOf(path, args)
<1> DEFINE p == PathOf(path, args)
           S == {p[i] : i \in 1..Len(path)}
<1>1. Len(path) \in Nat /\ DOMAIN path = 1..Len(path)
  BY LenProperties
<1>2. p = [i \in 1..Len(path) |->
             IF path[i].hole THEN Joined(path[i].text, Encoded(args[path[i].name]))
             ELSE path[i].text]
  BY <1>1 DEF PathOf
<1>3. p \in Seq(S) /\ Len(p) = Len(path)
  BY <1>1, <1>2
<1>4. \A i \in 1..Len(p) : p[i] \notin {".", "..", "a/b"}
  <2> TAKE i \in 1..Len(p)
  <2>1. path[i] \in Segments /\ i \in DOMAIN path
    BY <1>1, <1>3, ElementOfSeq
  <2>2. path[i].text \notin {".", "..", "a/b"}
    BY <2>1 DEF Straight, Segments
  <2>3. CASE path[i].hole
    <3>1. Encoded(args[path[i].name]) \notin {".", "..", "a/b"}
      BY <2>1, <2>3, EncodedStays DEF PathRenders
    <3>2. p[i] = Joined(path[i].text, Encoded(args[path[i].name]))
      BY <1>1, <1>2, <2>1, <2>3
    <3> QED
      BY <2>2, <3>1, <3>2, JoinedStays
  <2>4. CASE ~path[i].hole
    <3>1. p[i] = path[i].text
      BY <1>1, <1>2, <2>1, <2>4
    <3> QED
      BY <2>2, <3>1
  <2> QED
    BY <2>3, <2>4
<1>5. Resolved(p) = p
  <2> HIDE DEF p, S
  <2> QED
    BY <1>3, <1>4, PlainPathStays
<1> QED
  BY <1>1, <1>2, <1>3, <1>5

\* Which entries a request that can be made has, and with which values.
LEMMA EntriesAreDeclared ==
  ASSUME NEW es, NEW args,
         \A k \in DOMAIN es : es[k].shape \in Shapes,
         NEW query \in BOOLEAN,
         \A k \in DOMAIN es : LeftOut(es[k], args) \/ EntryRenders(es[k], args, query)
  PROVE  /\ \A k \in DOMAIN es :
              k \in DOMAIN Entries(es, args)
                <=> (es[k].shape = "sole" => es[k].name \in DOMAIN args)
         /\ query => \A k \in DOMAIN Entries(es, args) :
                       Entries(es, args)[k].value \in Scalars \cup {"plain"}
<1>1. DOMAIN Entries(es, args) = {k \in DOMAIN es : ~LeftOut(es[k], args)}
  BY DEF Entries
<1>2. \A k \in DOMAIN Entries(es, args) : Entries(es, args)[k] = EntryOf(es[k], args)
  BY DEF Entries
<1>3. ASSUME NEW k \in DOMAIN Entries(es, args), query
      PROVE  EntryOf(es[k], args).value \in Scalars \cup {"plain"}
  <2>1. es[k].shape \in Shapes /\ EntryRenders(es[k], args, TRUE)
    BY <1>1, <1>3
  <2>2. CASE es[k].shape = "plain"
    BY <2>2 DEF EntryOf
  <2>3. CASE es[k].shape \in {"sole", "text"}
    <3>1. args[es[k].name] \in Scalars
      BY <2>1, <2>3 DEF EntryRenders
    <3> QED
      BY <2>3, <3>1 DEF EntryOf
  <2> QED
    BY <2>1, <2>2, <2>3 DEF Shapes
<1> QED
  BY <1>1, <1>2, <1>3 DEF LeftOut, Optional

\* Every request goes where its operation says.
LEMMA RequestState == ASSUME FormsAssumption, FormsInv PROVE RequestIsAsDeclared
<1> SUFFICES ASSUME kind = "request", Renders(in.op, in.args) PROVE RequestIsAsDeclared
  BY DEF RequestIsAsDeclared
<1>1. PICK o \in Ops, a \in Fills : in.op = o /\ in.args = a
  BY DEF FormsInv
<1>2. o.declared /\ PathRenders(o.path, a)
  BY <1>1 DEF Renders
<1>3. Straight(o.path) =>
        LET p == PathOf(o.path, a) IN
        /\ Resolved(p) = p /\ Len(p) = Len(o.path)
        /\ \A i \in DOMAIN o.path : ~o.path[i].hole => p[i] = o.path[i].text
  BY <1>2, PathLeads DEF FormsAssumption
<1>4. /\ \A k \in DOMAIN o.query :
           k \in DOMAIN Entries(o.query, a) <=> (o.query[k].shape = "sole" => o.query[k].name \in DOMAIN a)
      /\ \A k \in DOMAIN Entries(o.query, a) :
           Entries(o.query, a)[k].value \in Scalars \cup {"plain"}
  <2>1. \A k \in DOMAIN o.query : o.query[k].shape \in Shapes
    BY DEF FormsAssumption
  <2>2. \A k \in DOMAIN o.query : LeftOut(o.query[k], a) \/ EntryRenders(o.query[k], a, TRUE)
    BY <1>1 DEF Renders
  <2> QED
    BY <2>1, <2>2, EntriesAreDeclared
<1>5. \A k \in DOMAIN o.body :
        k \in DOMAIN Entries(o.body, a) <=> (o.body[k].shape = "sole" => o.body[k].name \in DOMAIN a)
  <2>1. \A k \in DOMAIN o.body : o.body[k].shape \in Shapes
    BY DEF FormsAssumption
  <2>2. \A k \in DOMAIN o.body : LeftOut(o.body[k], a) \/ EntryRenders(o.body[k], a, FALSE)
    BY <1>1 DEF Renders
  <2> QED
    BY <2>1, <2>2, EntriesAreDeclared
<1> QED
  BY <1>1, <1>2, <1>3, <1>4, <1>5 DEF RequestIsAsDeclared, Request

\* A request goes where the operator wrote, for any path, query and body, and
\* whatever is sent for their placeholders (RequestIsAsDeclared; http.rs).
THEOREM RequestsStayInPlace == ASSUME FormsAssumption PROVE FormsSpec => []RequestIsAsDeclared
<1>1. FormsInv => RequestIsAsDeclared
  BY RequestState
<1> QED
  BY <1>1, FormsInvariance, PTL

-----------------------------------------------------------------------------
(* Calls.                                                                  *)

\* A tool as it is called, and the tool that was declared: elements without a
\* placeholder may stand before the templates of it.
Called(t, raw) ==
  /\ t.arguments = raw.arguments /\ t.own = raw.own /\ t.idempotent = raw.idempotent
  /\ t.stdin = raw.stdin /\ t.quick = raw.quick
  /\ \E lead \in Seq(Templates) : /\ \A i \in DOMAIN lead : lead[i].holes = <<>>
                                  /\ t.args = lead \o raw.args

\* What the validation of its arguments says of a tool.
Fits(t) ==
  /\ t.arguments \in Seq(Declarations)
  /\ \A i, j \in DOMAIN t.arguments : t.arguments[i].name = t.arguments[j].name => i = j
  /\ Holes(t.args) \cup Holes(t.stdin) \cup UNION {Holes(t.quick[k]) : k \in DOMAIN t.quick}
       \subseteq {Trimmed(n) : n \in NamesIn(t.arguments)}

\* A called tool is the declared one, with some elements before its templates.
LEMMA RunsIsCalled ==
  ASSUME NEW raw \in ToolForms, NEW win \in BOOLEAN
  PROVE  Called(Runs(raw, win), raw)
<1>1. raw.args \in Seq(Templates)
  BY DEF ToolForms
<1>2. CASE raw.does = "exec"
  <2>1. <<>> \in Seq(Templates) /\ raw.args = <<>> \o raw.args
    BY <1>1, ConcatEmptySeq
  <2>2. \A i \in DOMAIN <<>> : <<>>[i].holes = <<>>
    OBVIOUS
  <2> QED
    BY <1>2, <2>1, <2>2 DEF Called, Runs
<1>3. CASE raw.does # "exec"
  <2> DEFINE cmd  == CommandFor("python3", win, {"py", "python3"}, {"python3"})
             opts == LeadingArgs("python3", cmd)
             pre  == [i \in DOMAIN opts |-> [dash |-> TRUE, text |-> FALSE, holes |-> <<>>]]
             lead == pre \o <<[dash |-> FALSE, text |-> TRUE, holes |-> <<>>]>>
             t    == Runs(raw, win)
  <2>1. opts \in Seq({"-3", "-I"})
    <3>1. opts = (IF cmd = "py" THEN <<"-3">> ELSE <<>>) \o <<"-I">>
      BY DEF LeadingArgs
    <3>2. ASSUME NEW x, NEW y
          PROVE  <<x>> \o <<y>> \in Seq({x, y}) /\ <<>> \o <<y>> \in Seq({x, y})
      <4>1. <<x>> \in Seq({x, y}) /\ <<y>> \in Seq({x, y}) /\ <<>> \in Seq({x, y})
        OBVIOUS
      <4> QED
        BY <4>1, ConcatProperties
    <3>3. /\ <<"-3">> \o <<"-I">> \in Seq({"-3", "-I"})
          /\ <<>> \o <<"-I">> \in Seq({"-3", "-I"})
      BY <3>2, Zenon
    <3> HIDE DEF cmd, opts
    <3>4. CASE cmd = "py"
      BY <3>1, <3>3, <3>4, Zenon
    <3>5. CASE cmd # "py"
      BY <3>1, <3>3, <3>5, Zenon
    <3> QED
      BY <3>4, <3>5
  <2>2. pre \in Seq(Templates) /\ \A i \in DOMAIN pre : pre[i].holes = <<>>
    <3>1. Len(opts) \in Nat /\ DOMAIN opts = 1..Len(opts)
      BY <2>1, LenProperties
    <3>2. [dash |-> TRUE, text |-> FALSE, holes |-> <<>>] \in Templates
      BY DEF Templates
    <3> HIDE DEF opts
    <3> QED
      BY <3>1, <3>2
  <2>3. lead \in Seq(Templates) /\ \A i \in DOMAIN lead : lead[i].holes = <<>>
    <3>1. [dash |-> FALSE, text |-> TRUE, holes |-> <<>>] \in Templates
      BY DEF Templates
    <3> HIDE DEF pre
    <3> QED
      BY <2>2, <3>1
  <2>4. t.args = lead \o raw.args
    BY <1>3 DEF ToolForms, Runs, Lower, Def
  <2>5. /\ t.arguments = raw.arguments /\ t.own = raw.own /\ t.idempotent = raw.idempotent
        /\ t.stdin = raw.stdin /\ t.quick = raw.quick
    BY <1>3 DEF ToolForms, Runs, Lower
  <2> HIDE DEF lead, t
  <2> QED
    BY <2>3, <2>4, <2>5 DEF Called, t
<1> QED
  BY <1>2, <1>3

\* What a tool passes, it passes as it is called.
LEMMA CalledFits ==
  ASSUME NEW raw \in ToolForms, NEW t, Called(t, raw), ArgumentsFit(raw), t.arguments # <<>>
  PROVE  Fits(t)
<1>1. /\ \A i, j \in DOMAIN raw.arguments :
           i # j => Trimmed(raw.arguments[i].name) # Trimmed(raw.arguments[j].name)
      /\ Holes(raw.args) \cup Holes(raw.stdin)
           \cup UNION {Holes(raw.quick[k]) : k \in DOMAIN raw.quick}
         \subseteq {Trimmed(n) : n \in NamesIn(raw.arguments)}
  BY Zenon DEF ArgumentsFit, Called
<1>2. PICK lead \in Seq(Templates) : /\ \A i \in DOMAIN lead : lead[i].holes = <<>>
                                     /\ t.args = lead \o raw.args
  BY DEF Called
<1>3. raw.args \in Seq(Templates) /\ raw.arguments \in Seq(Declarations)
  BY DEF ToolForms
<1>4. Holes(t.args) \subseteq Holes(raw.args)
  <2> SUFFICES ASSUME NEW i \in DOMAIN t.args, NEW j \in DOMAIN t.args[i].holes
               PROVE  t.args[i].holes[j] \in Holes(raw.args)
    BY DEF Holes
  <2>1. /\ Len(lead) \in Nat /\ Len(raw.args) \in Nat /\ DOMAIN raw.args = 1..Len(raw.args)
        /\ DOMAIN lead = 1..Len(lead) /\ i \in 1..(Len(lead) + Len(raw.args))
        /\ t.args[i] = IF i <= Len(lead) THEN lead[i] ELSE raw.args[i - Len(lead)]
    BY <1>2, <1>3, LenProperties, ConcatProperties
  <2>2. i > Len(lead)
    BY <1>2, <2>1
  <2>3. i - Len(lead) \in DOMAIN raw.args /\ t.args[i] = raw.args[i - Len(lead)]
    BY <2>1, <2>2
  <2> QED
    BY <2>3 DEF Holes
<1> QED
  BY <1>1, <1>3, <1>4 DEF Fits, Called

\* In a tool that fits, an argument's name stands for it.
LEMMA FirstIsIt ==
  ASSUME NEW t, Fits(t), NEW i \in DOMAIN t.arguments
  PROVE  First(t.arguments, t.arguments[i].name) = t.arguments[i]
<1> DEFINE n == t.arguments[i].name
           is(k) == t.arguments[k].name = n /\ \A j \in 1..(k - 1) : t.arguments[j].name # n
           it == CHOOSE k \in DOMAIN t.arguments : is(k)
<1>1. Len(t.arguments) \in Nat /\ DOMAIN t.arguments = 1..Len(t.arguments)
  BY LenProperties DEF Fits
<1>2. is(i)
  BY <1>1 DEF Fits
<1>3. it \in DOMAIN t.arguments /\ is(it)
  <2> HIDE DEF is
  <2> QED
    BY <1>2
<1>4. it = i
  BY <1>3 DEF Fits
<1> QED
  BY <1>4 DEF First

\* What a declared type takes.
LEMMA TypesAreAccepted ==
  ASSUME NEW k, NEW v, v.json \in {k} \cup (IF k = "number" THEN {"integer"} ELSE {})
  PROVE  Accepts(k, v)
BY Zenon DEF Accepts

\* The schema, spelled out for a tool that declares arguments.
LEMMA SchemaSays ==
  ASSUME NEW t, Fits(t), ~t.own, t.arguments # <<>>
  PROVE  /\ ~Schema(t).open
         /\ DOMAIN Schema(t).types = NamesIn(t.arguments) \cup (IF AddsKey(t) THEN {Key} ELSE {})
         /\ \A i \in DOMAIN t.arguments :
              Schema(t).types[t.arguments[i].name] = t.arguments[i].kind
         /\ Schema(t).required =
              {t.arguments[i].name : i \in {k \in DOMAIN t.arguments : t.arguments[k].required}}
                \cup (IF AddsKey(t) THEN {Key} ELSE {})
<1>1. \A i \in DOMAIN t.arguments : First(t.arguments, t.arguments[i].name) = t.arguments[i]
  BY FirstIsIt
<1>2. AddsKey(t) => Key \notin NamesIn(t.arguments)
  BY DEF AddsKey, NamesIn, Named
<1>3. \A i \in DOMAIN t.arguments : t.arguments[i].name \in NamesIn(t.arguments)
  BY DEF NamesIn
<1>4. {n \in NamesIn(t.arguments) : First(t.arguments, n).required} =
        {t.arguments[i].name : i \in {k \in DOMAIN t.arguments : t.arguments[k].required}}
  BY <1>1 DEF NamesIn
<1> QED
  BY <1>1, <1>2, <1>3, <1>4 DEF Schema

\* A call that keeps to the schema passes the check.
LEMMA ConformingIsChecked ==
  ASSUME NEW t, t.arguments # <<>> /\ ~t.own => Fits(t),
         NEW sent, Conforms(t, sent), ~KeyLeftOpen(t)
  PROVE  Checked(t, sent)
<1> SUFFICES ASSUME t.arguments # <<>>, ~t.own PROVE Checked(t, sent)
  BY DEF Checked
<1> DEFINE s == Schema(t)
<1>1. Fits(t)
  OBVIOUS
<1>2. /\ ~s.open
      /\ DOMAIN s.types = NamesIn(t.arguments) \cup (IF AddsKey(t) THEN {Key} ELSE {})
      /\ \A i \in DOMAIN t.arguments : s.types[t.arguments[i].name] = t.arguments[i].kind
      /\ s.required = {t.arguments[i].name : i \in {k \in DOMAIN t.arguments : t.arguments[k].required}}
                        \cup (IF AddsKey(t) THEN {Key} ELSE {})
  BY <1>1, SchemaSays
<1>3. /\ s.required \subseteq DOMAIN sent
      /\ \A n \in DOMAIN sent :
           IF n \in DOMAIN s.types
           THEN sent[n].json \in {s.types[n]} \cup (IF s.types[n] = "number" THEN {"integer"} ELSE {})
           ELSE s.open
  BY DEF Conforms
<1> HIDE DEF s
<1>4. ASSUME NEW n \in DOMAIN sent
      PROVE  \/ t.idempotent /\ n = Key
             \/ Named(t.arguments, n) /\ Accepts(First(t.arguments, n).kind, sent[n])
  <2>1. n \in DOMAIN s.types
    BY <1>2, <1>3
  <2>2. CASE AddsKey(t) /\ n = Key
    BY <2>2 DEF AddsKey
  <2>3. CASE n \in NamesIn(t.arguments)
    <3>1. PICK i \in DOMAIN t.arguments : n = t.arguments[i].name
      BY <2>3 DEF NamesIn
    <3>2. First(t.arguments, n) = t.arguments[i] /\ s.types[n] = t.arguments[i].kind
      BY <1>1, <1>2, <3>1, FirstIsIt
    <3> QED
      BY <1>3, <2>1, <3>1, <3>2, TypesAreAccepted DEF Named
  <2> QED
    BY <1>2, <2>1, <2>2, <2>3
<1>5. ASSUME NEW i \in DOMAIN t.arguments, t.arguments[i].required
      PROVE  t.arguments[i].name \in DOMAIN sent /\ sent[t.arguments[i].name].json # "null"
  <2>1. t.arguments[i].name \in DOMAIN sent
    BY <1>2, <1>3, <1>5
  <2>2. t.arguments[i].name \in DOMAIN s.types /\ s.types[t.arguments[i].name] = t.arguments[i].kind
    BY <1>2 DEF NamesIn
  <2>3. t.arguments[i].kind \in {"string", "integer", "number", "boolean"}
    <3>1. t.arguments[i] \in Declarations
      BY <1>1, LenProperties, ElementOfSeq DEF Fits
    <3> QED
      BY <3>1 DEF Declarations
  <2> QED
    BY <1>3, <2>1, <2>2, <2>3
<1>6. t.idempotent => Key \in DOMAIN sent
  <2> SUFFICES ASSUME t.idempotent PROVE Key \in DOMAIN sent
    OBVIOUS
  <2>1. CASE AddsKey(t)
    BY <1>2, <1>3, <2>1
  <2>2. CASE ~AddsKey(t)
    <3>1. PICK i \in DOMAIN t.arguments : t.arguments[i].name = Key
      BY <2>2 DEF AddsKey, Named
    <3>2. t.arguments[i].required
      BY <1>1, <2>2, <3>1, FirstIsIt DEF KeyLeftOpen, AddsKey
    <3> QED
      BY <1>5, <3>1, <3>2
  <2> QED
    BY <2>1, <2>2
<1> QED
  BY <1>4, <1>5, <1>6 DEF Checked, CheckedRequired

\* The description names what is required as the schema does.
LEMMA DescriptionAgrees ==
  ASSUME NEW t, Fits(t), ~t.own, t.arguments # <<>>
  PROVE  {d[1] : d \in {x \in Described(t) : x[3]}} = Schema(t).required
<1> DEFINE entry(i) == <<t.arguments[i].name, t.arguments[i].kind, t.arguments[i].required>>
           named == {entry(i) : i \in DOMAIN t.arguments}
           its   == IF AddsKey(t) THEN {<<Key, "string", TRUE>>} ELSE {}
<1>1. Described(t) = named \cup its
  BY DEF Described
<1>2. {d[1] : d \in {x \in named : x[3]}} =
        {t.arguments[i].name : i \in {k \in DOMAIN t.arguments : t.arguments[k].required}}
  <2>1. \A i \in DOMAIN t.arguments : /\ entry(i)[1] = t.arguments[i].name
                                      /\ entry(i)[3] = t.arguments[i].required
    OBVIOUS
  <2> HIDE DEF entry
  <2> QED
    BY <2>1
<1>3. {d[1] : d \in {x \in its : x[3]}} = IF AddsKey(t) THEN {Key} ELSE {}
  <2> DEFINE e == <<Key, "string", TRUE>>
  <2>1. e[1] = Key /\ e[3]
    OBVIOUS
  <2>2. its = IF AddsKey(t) THEN {e} ELSE {}
    OBVIOUS
  <2> HIDE DEF e, its
  <2> QED
    BY <2>1, <2>2
<1>4. {d[1] : d \in {x \in Described(t) : x[3]}} =
        {d[1] : d \in {x \in named : x[3]}} \cup {d[1] : d \in {x \in its : x[3]}}
  <2> HIDE DEF named, its
  <2> QED
    BY <1>1
<1>5. Schema(t).required =
        {t.arguments[i].name : i \in {k \in DOMAIN t.arguments : t.arguments[k].required}}
          \cup (IF AddsKey(t) THEN {Key} ELSE {})
  BY SchemaSays
<1> QED
  BY <1>2, <1>3, <1>4, <1>5

\* Of what passes the check, what is not the gateway's own key was declared.
LEMMA CheckedIsNamed ==
  ASSUME NEW t, t.arguments # <<>>, ~t.own, NEW sent, Checked(t, sent),
         NEW n \in DOMAIN sent, ~(n = Key /\ AddsKey(t))
  PROVE  Named(t.arguments, n)
BY DEF Checked, AddsKey

\* A placeholder that is filled is a declared argument's.
LEMMA FilledIsNamed ==
  ASSUME NEW t, Fits(t), t.arguments # <<>>, ~t.own, NEW sent, Checked(t, sent),
         NEW h \in {Trimmed(n) : n \in NamesIn(t.arguments)}, h \in DOMAIN Vars(sent)
  PROVE  Named(t.arguments, h)
<1>1. h \in DOMAIN sent
  BY DEF Vars
<1>2. CASE h = Key
  <2>1. h \in NamesIn(t.arguments)
    BY <1>2 DEF Trimmed, Key
  <2> QED
    BY <2>1 DEF NamesIn, Named
<1>3. CASE h # Key
  BY <1>1, <1>3, CheckedIsNamed
<1> QED
  BY <1>2, <1>3

\* The placeholders of a list of templates.
LEMMA HoleIsIn ==
  ASSUME NEW ts, NEW i \in DOMAIN ts, NEW j \in DOMAIN ts[i].holes
  PROVE  ts[i].holes[j] \in Holes(ts)
BY DEF Holes

\* A command, the fallback or the one it stands in for, acts on what was sent.
LEMMA BuiltActsOn ==
  ASSUME NEW t, Fits(t), t.arguments # <<>>, ~t.own, NEW sent, Checked(t, sent),
         NEW args, Buildable(t, args, Vars(sent)),
         Holes(args) \subseteq {Trimmed(n) : n \in NamesIn(t.arguments)},
         \A i \in DOMAIN t.stdin : Fillable(t.stdin[i], Vars(sent))
  PROVE  ActsOn(t, args, sent)
<1> DEFINE given == Vars(sent)
           names == {Trimmed(n) : n \in NamesIn(t.arguments)}
           pairs == Pairs(Appended(t, args), given)
<1>1. /\ DOMAIN given = {m \in DOMAIN sent : sent[m].json # "null"}
      /\ \A n \in DOMAIN given : given[n] = sent[n].text
  BY DEF Vars
<1>2. Given(t, args, sent) = {Filled(args[i], given) : i \in DOMAIN args} \cup pairs
                               \cup {Filled(t.stdin[i], given) : i \in DOMAIN t.stdin}
  BY DEF Given, Argv
<1>3. pairs = UNION {{Option(n), Operand(n, given[n])} : n \in Appended(t, args) \cap DOMAIN given}
  BY DEF Pairs
<1>4. \A tm : /\ Filled(tm, given).from = tm.holes /\ DOMAIN Filled(tm, given).vals = DOMAIN tm.holes
              /\ \A j \in DOMAIN tm.holes : Filled(tm, given).vals[j] = given[tm.holes[j]]
  BY DEF Filled
<1>5. \A i \in DOMAIN args : \A j \in DOMAIN args[i].holes : args[i].holes[j] \in DOMAIN given
  BY DEF Buildable, Fillable
<1>6. \A i \in DOMAIN t.stdin : \A j \in DOMAIN t.stdin[i].holes : t.stdin[i].holes[j] \in DOMAIN given
  BY DEF Fillable
<1> HIDE DEF given, pairs
<1>7. ASSUME NEW n \in DOMAIN sent, sent[n].json # "null", ~(n = Key /\ AddsKey(t))
      PROVE  \E e \in Given(t, args, sent) :
               \E j \in DOMAIN e.vals : e.from[j] = n /\ e.vals[j] = sent[n].text
  <2>1. n \in NamesIn(t.arguments)
    BY <1>7, CheckedIsNamed DEF Named, NamesIn
  <2>2. n \in DOMAIN given /\ given[n] = sent[n].text
    BY <1>1, <1>7
  <2>3. CASE n \in Holes(args)
    <3>1. PICK i \in DOMAIN args : \E j \in DOMAIN args[i].holes : args[i].holes[j] = n
      BY <2>3 DEF Holes
    <3>2. Filled(args[i], given) \in Given(t, args, sent)
      BY <1>2
    <3>3. PICK j \in DOMAIN args[i].holes : args[i].holes[j] = n
      BY <3>1
    <3>4. /\ j \in DOMAIN Filled(args[i], given).vals
          /\ Filled(args[i], given).from[j] = n /\ Filled(args[i], given).vals[j] = given[n]
      BY <1>4, <3>3
    <3> QED
      BY <2>2, <3>2, <3>4
  <2>4. CASE n \in Holes(t.stdin)
    <3>1. PICK i \in DOMAIN t.stdin : \E j \in DOMAIN t.stdin[i].holes : t.stdin[i].holes[j] = n
      BY <2>4 DEF Holes
    <3>2. Filled(t.stdin[i], given) \in Given(t, args, sent)
      BY <1>2
    <3>3. PICK j \in DOMAIN t.stdin[i].holes : t.stdin[i].holes[j] = n
      BY <3>1
    <3>4. /\ j \in DOMAIN Filled(t.stdin[i], given).vals
          /\ Filled(t.stdin[i], given).from[j] = n /\ Filled(t.stdin[i], given).vals[j] = given[n]
      BY <1>4, <3>3
    <3> QED
      BY <2>2, <3>2, <3>4
  <2>5. CASE n \notin Holes(args) \cup Holes(t.stdin)
    <3>1. n \in Appended(t, args)
      BY <2>1, <2>5 DEF Appended
    <3>2. Operand(n, given[n]) \in Given(t, args, sent)
      BY <1>2, <1>3, <2>2, <3>1
    <3>3. /\ DOMAIN Operand(n, given[n]).vals = {1} /\ Operand(n, given[n]).from[1] = n
          /\ Operand(n, given[n]).vals[1] = given[n]
      BY DEF Operand
    <3> QED
      BY <2>2, <3>2, <3>3
  <2> QED
    BY <2>3, <2>4, <2>5
<1>8. ASSUME NEW e \in Given(t, args, sent), NEW j \in DOMAIN e.from
      PROVE  Named(t.arguments, e.from[j])
  <2>1. CASE e \in {Filled(args[i], given) : i \in DOMAIN args}
    <3>1. PICK i \in DOMAIN args : e.from = args[i].holes
      BY <1>4, <2>1
    <3>2. e.from[j] \in names /\ e.from[j] \in DOMAIN given
      BY <1>5, <3>1, HoleIsIn
    <3> QED
      BY <3>2, FilledIsNamed DEF given
  <2>2. CASE e \in {Filled(t.stdin[i], given) : i \in DOMAIN t.stdin}
    <3>1. PICK i \in DOMAIN t.stdin : e.from = t.stdin[i].holes
      BY <1>4, <2>2
    <3>2. e.from[j] \in names /\ e.from[j] \in DOMAIN given
      BY <1>6, <3>1, HoleIsIn DEF Fits
    <3> QED
      BY <3>2, FilledIsNamed DEF given
  <2>3. CASE e \in pairs
    <3>1. PICK n \in Appended(t, args) : e = Option(n) \/ e = Operand(n, given[n])
      BY <1>3, <2>3
    <3>2. e.from = <<n>>
      BY <3>1 DEF Option, Operand
    <3>3. n \in NamesIn(t.arguments)
      BY DEF Appended
    <3> QED
      BY <3>2, <3>3 DEF NamesIn, Named
  <2> QED
    BY <1>2, <2>1, <2>2, <2>3
<1> QED
  BY <1>7, <1>8 DEF ActsOn

\* The interpreter's own part takes no value, and no option is appended that
\* the preview does not show.
LEMMA BuiltAsPreviewed ==
  ASSUME NEW raw \in ToolForms, NEW t, Called(t, raw), NEW sent
  PROVE  AsPreviewed(t, raw, sent)
<1> DEFINE given == Vars(sent)
           argv == Argv(t, t.args, given)
<1>1. ASSUME NEW e \in argv.added, e.vals = <<>> PROVE e \in Preview(t).added
  <2>1. e \in Pairs(Appended(t, t.args), given)
    BY DEF Argv
  <2>2. PICK n \in Appended(t, t.args) : e = Option(n) \/ e = Operand(n, given[n])
    BY <2>1 DEF Pairs
  <2>3. e # Operand(n, given[n])
    <3>1. \A x : <<x>> # <<>>
      OBVIOUS
    <3>2. Operand(n, given[n]).vals = <<given[n]>>
      BY DEF Operand
    <3> HIDE DEF given
    <3> QED
      BY <1>1, <3>1, <3>2
  <2> QED
    BY <2>2, <2>3 DEF Preview
<1>2. ASSUME NEW i \in 1..(Len(t.args) - Len(raw.args)) PROVE argv.placed[i].vals = <<>>
  <2>1. raw.args \in Seq(Templates)
    BY DEF ToolForms
  <2>2. PICK lead \in Seq(Templates) : /\ \A k \in DOMAIN lead : lead[k].holes = <<>>
                                       /\ t.args = lead \o raw.args
    BY DEF Called
  <2>3. /\ Len(lead) \in Nat /\ Len(raw.args) \in Nat /\ Len(t.args) = Len(lead) + Len(raw.args)
        /\ DOMAIN lead = 1..Len(lead) /\ DOMAIN t.args = 1..Len(t.args)
        /\ \A k \in 1..Len(lead) : t.args[k] = lead[k]
    BY <2>1, <2>2, LenProperties, ConcatProperties
  <2>4. i \in DOMAIN t.args /\ t.args[i].holes = <<>>
    BY <2>2, <2>3
  <2>5. argv.placed[i] = Filled(t.args[i], given)
    BY <2>4 DEF Argv
  <2>6. Filled(t.args[i], given).vals = [j \in DOMAIN <<>> |-> given[<<>>[j]]]
    BY <2>4 DEF Filled
  <2>7. \A f : [j \in DOMAIN <<>> |-> f[<<>>[j]]] = <<>>
    OBVIOUS
  <2> QED
    BY <2>5, <2>6, <2>7
<1> QED
  BY <1>1, <1>2 DEF AsPreviewed

\* Every call acts on what was sent.
LEMMA CallState == ASSUME FormsAssumption, FormsInv PROVE SentIsActedOn
<1> SUFFICES ASSUME kind = "call" PROVE SentIsActedOn
  BY DEF SentIsActedOn
<1>1. PICK raw \in Tools, f \in Sends, win \in BOOLEAN :
        ArgumentsFit(raw) /\ in = [raw |-> raw, tool |-> Runs(raw, win), sent |-> f]
  BY DEF FormsInv
<1> DEFINE t == in.tool
<1>2. raw \in ToolForms /\ in.raw = raw /\ in.sent = f /\ t = Runs(raw, win)
  BY <1>1 DEF FormsAssumption
<1>3. Called(t, raw)
  BY <1>2, RunsIsCalled
<1> HIDE DEF t
<1>4. t.arguments # <<>> => Fits(t)
  BY <1>1, <1>2, <1>3, CalledFits
<1>5. Conforms(t, f) /\ ~KeyLeftOpen(t) => Checked(t, f)
  BY <1>4, ConformingIsChecked
<1>6. ASSUME t.arguments # <<>>, ~t.own, Starts(t, f)
      PROVE  /\ ActsOn(t, t.args, f)
             /\ \A k \in DOMAIN t.quick : ActsOn(t, t.quick[k], f)
             /\ AsPreviewed(t, raw, f)
  <2>1. /\ Checked(t, f) /\ Buildable(t, t.args, Vars(f))
        /\ \A i \in DOMAIN t.stdin : Fillable(t.stdin[i], Vars(f))
        /\ \A k \in DOMAIN t.quick : Buildable(t, t.quick[k], Vars(f))
    BY <1>6 DEF Starts
  <2>2. /\ Fits(t)
        /\ Holes(t.args) \subseteq {Trimmed(n) : n \in NamesIn(t.arguments)}
        /\ \A k \in DOMAIN t.quick : Holes(t.quick[k]) \subseteq {Trimmed(n) : n \in NamesIn(t.arguments)}
    BY <1>4, <1>6 DEF Fits
  <2>3. ActsOn(t, t.args, f)
    BY <1>6, <2>1, <2>2, BuiltActsOn
  <2>4. \A k \in DOMAIN t.quick : ActsOn(t, t.quick[k], f)
    BY <1>6, <2>1, <2>2, BuiltActsOn
  <2>5. AsPreviewed(t, raw, f)
    BY <1>2, <1>3, BuiltAsPreviewed
  <2> QED
    BY <2>3, <2>4, <2>5
<1>7. ~t.own /\ t.arguments # <<>> =>
        {d[1] : d \in {x \in Described(t) : x[3]}} = Schema(t).required
  BY <1>4, DescriptionAgrees
<1> QED
  BY <1>2, <1>5, <1>6, <1>7 DEF SentIsActedOn, t

\* A call that keeps to the schema passes the check, and a command that starts
\* acts on all that was sent and on nothing else, for any declared arguments,
\* templates and values (SentIsActedOn; config.rs, actions/exec.rs).
THEOREM CallsActOnWhatWasSent == ASSUME FormsAssumption PROVE FormsSpec => []SentIsActedOn
<1>1. FormsInv => SentIsActedOn
  BY CallState
<1> QED
  BY <1>1, FormsInvariance, PTL
-----------------------------------------------------------------------------
(* The configuration file.                                                 *)

\* The fields of a configuration.
Fields == {"listen", "bearer", "who", "access", "via", "funnel", "tunnel", "tunnelEnv", "deadline",
           "upstreams", "tools", "scripts", "seeds", "fromEnv", "dir"}

\* They are those that the default one has.
LEMMA ConfigFields == DOMAIN Default = Fields
  BY DEF Default, Fields

\* The default configuration has no credential.
LEMMA DefaultIsEmpty == /\ Configured(Default) /\ Default.fromEnv = {} /\ Default.bearer = Blank
                        /\ Default.tunnel = Blank /\ Default.upstreams = <<>>
  BY DEF Default, Configured, Sequence

\* A sequence may be told from its domain.
LEMMA SequenceIs ==
  ASSUME NEW seq
  PROVE  Sequence(seq) <=> \E n \in Nat : seq = [i \in 1..n |-> seq[i]]
<1> DEFINE S == {seq[i] : i \in DOMAIN seq}
<1>1. ASSUME Sequence(seq) PROVE \E n \in Nat : seq = [i \in 1..n |-> seq[i]]
  BY <1>1, LenProperties DEF Sequence
<1>2. ASSUME NEW n \in Nat, seq = [i \in 1..n |-> seq[i]] PROVE Sequence(seq)
  BY <1>2, SeqDef DEF Sequence
<1> QED
  BY <1>1, <1>2

\* `find` takes the first of that name, and there is one.
LEMMA FirstFound ==
  ASSUME NEW seq, Sequence(seq), NEW n, Named(seq, n)
  PROVE  \E i \in DOMAIN seq : seq[i].name = n /\ IsFirst(seq, i) /\ First(seq, n) = seq[i]
<1> DEFINE is(k) == seq[k].name = n /\ \A j \in 1..(k - 1) : seq[j].name # n
           all == {k \in DOMAIN seq : seq[k].name = n}
           it == CHOOSE k \in DOMAIN seq : is(k)
<1>1. DOMAIN seq = 1..Len(seq) /\ Len(seq) \in Nat
  BY LenProperties DEF Sequence
<1>2. all \in SUBSET Nat /\ all # {}
  BY <1>1 DEF Named
<1> HIDE DEF all
<1>2a. PICK i \in all : \A y \in all : i <= y
  BY <1>2, Least
<1> USE DEF all
<1>3. is(i)
  BY <1>1, <1>2a
<1>4. it \in DOMAIN seq /\ is(it)
  <2> HIDE DEF is
  <2> QED
    BY <1>2, <1>3
<1>5. seq[it].name = n /\ IsFirst(seq, it) /\ First(seq, n) = seq[it]
  <2>1. First(seq, n) = seq[it]
    BY DEF First
  <2> HIDE DEF it
  <2> QED
    BY <1>4, <2>1 DEF IsFirst
<1> QED
  BY <1>4, <1>5

\* One that no other of its name precedes is the one that is found.
LEMMA FoundFirst ==
  ASSUME NEW seq, Sequence(seq), NEW i \in DOMAIN seq, IsFirst(seq, i)
  PROVE  First(seq, seq[i].name) = seq[i]
<1>1. DOMAIN seq = 1..Len(seq) /\ Len(seq) \in Nat
  BY LenProperties DEF Sequence
<1>2. PICK j \in DOMAIN seq : seq[j].name = seq[i].name /\ IsFirst(seq, j) /\ First(seq, seq[i].name) = seq[j]
  BY FirstFound DEF Named
<1>3. i = j
  BY <1>1, <1>2 DEF IsFirst
<1> QED
  BY <1>2, <1>3

\* What zero has, and each number has after the one before it, all of them have.
LEMMA Upwards ==
  ASSUME NEW S, 0 \in S, \A k \in Nat : k \in S => k + 1 \in S
  PROVE  \A k \in Nat : k \in S
<1> DEFINE bad == {k \in Nat : k \notin S}
<1>1. ASSUME bad # {} PROVE FALSE
  <2>1. bad \in SUBSET Nat
    OBVIOUS
  <2>2. PICK k \in bad : \A y \in bad : k <= y
    <3> HIDE DEF bad
    <3> QED
      BY <1>1, <2>1, Least
  <2>3. k - 1 \in Nat /\ k = (k - 1) + 1
    BY <2>2
  <2>4. k - 1 \in S
    BY <2>2, <2>3
  <2> QED
    BY <2>2, <2>3, <2>4
<1> QED
  BY <1>1

\* The last of the first numbers.
LEMMA LastOf ==
  ASSUME NEW n \in Nat, NEW s \in SUBSET (1..n), n \in s
  PROVE  Max(s) = n
<1>1. \A y \in s : n >= y
  OBVIOUS
<1>2. \A x \in s : (\A y \in s : x >= y) => x = n
  BY <1>1
<1> QED
  BY <1>1, <1>2 DEF Max

\* Things are put in one after the other.
PutSteps(f, seq, new) == /\ f[0] = seq /\ f[Len(new)] = PutAll(seq, new)
                         /\ \A k \in 1..Len(new) : f[k] = Put(f[k - 1], new[k])

LEMMA PutInSteps ==
  ASSUME NEW seq, NEW new, Sequence(new)
  PROVE  \E f : PutSteps(f, seq, new)
<1> DEFINE next(f, s) == IF s = {} THEN seq ELSE LET x == Max(s) IN Put(f[s \ {x}], new[x])
           step(f, n) == [s \in SUBSET (1..n) |-> next(f, s)]
           upTo == CHOOSE f : f = step(f, Len(new))
           steps == [k \in 0..Len(new) |-> upTo[1..k]]
<1>1. DOMAIN new = 1..Len(new) /\ Len(new) \in Nat
  BY LenProperties DEF Sequence
<1>2. PutAll(seq, new) = upTo[1..Len(new)]
  BY <1>1 DEF PutAll, FoldLeft, MapThenFoldSet
<1>3. \E f : f = step(f, 0)
  <2> DEFINE g == [s \in SUBSET (1..0) |-> seq]
  <2>1. g = step(g, 0)
    OBVIOUS
  <2> QED
    BY <2>1
<1>4. ASSUME NEW n \in Nat, \E f : f = step(f, n) PROVE \E f : f = step(f, n + 1)
  <2>1. PICK f : f = step(f, n)
    BY <1>4
  <2> DEFINE g == [s \in SUBSET (1..(n + 1)) |-> IF n + 1 \in s THEN Put(f[s \ {n + 1}], new[n + 1]) ELSE f[s]]
  <2>2. ASSUME NEW s \in SUBSET (1..(n + 1)), n + 1 \in s PROVE g[s] = next(g, s)
    <3>1. s \ {n + 1} \in SUBSET (1..(n + 1)) /\ Max(s) = n + 1
      BY <2>2, LastOf
    <3>2. g[s \ {n + 1}] = f[s \ {n + 1}]
      BY <3>1
    <3>3. g[s] = Put(f[s \ {n + 1}], new[n + 1])
      BY <2>2
    <3> HIDE DEF g
    <3> QED
      BY <2>2, <3>1, <3>2, <3>3
  <2>3. ASSUME NEW s \in SUBSET (1..(n + 1)), n + 1 \notin s PROVE g[s] = next(g, s)
    <3>1. s \in SUBSET (1..n)
      BY <2>3
    <3>2. f[s] = next(f, s)
      BY <2>1, <3>1
    <3>3. \A x : g[s \ {x}] = f[s \ {x}]
      BY <2>3
    <3>4. g[s] = f[s]
      BY <2>3
    <3> HIDE DEF g
    <3> QED
      BY <3>2, <3>3, <3>4
  <2>4. g = step(g, n + 1)
    <3>1. \A s \in SUBSET (1..(n + 1)) : g[s] = next(g, s)
      BY <2>2, <2>3
    <3> DEFINE G == [s \in SUBSET (1..(n + 1)) |-> g[s]]
    <3>2. g = G
      OBVIOUS
    <3> HIDE DEF g, next
    <3> QED
      BY <3>1, <3>2
  <2> QED
    BY <2>4
<1>5. \A n \in Nat : \E f : f = step(f, n)
  <2> DEFINE S == {n \in Nat : \E f : f = step(f, n)}
  <2> HIDE DEF step
  <2>1. 0 \in S /\ \A n \in Nat : n \in S => n + 1 \in S
    BY <1>3, <1>4
  <2>2. \A n \in Nat : n \in S
    <3> HIDE DEF S
    <3> QED
      BY <2>1, Upwards
  <2> QED
    BY <2>2
<1>6. upTo = step(upTo, Len(new))
  <2> HIDE DEF step
  <2> QED
    BY <1>1, <1>5
<1> HIDE DEF upTo
<1>7. \A s \in SUBSET (1..Len(new)) : upTo[s] = next(upTo, s)
  BY <1>6
<1>8. steps[0] = seq
  <2>1. 1..0 \in SUBSET (1..Len(new)) /\ 1..0 = {}
    BY <1>1
  <2>2. upTo[1..0] = seq
    BY <1>7, <2>1
  <2> QED
    BY <1>1, <2>2
<1>9. ASSUME NEW k \in 1..Len(new) PROVE steps[k] = Put(steps[k - 1], new[k])
  <2>1. k \in Nat /\ k \in 1..k /\ 1..k \in SUBSET (1..Len(new))
    BY <1>1
  <2>2. (1..k) \ {k} = 1..(k - 1)
    <3> SUFFICES ASSUME NEW i PROVE i \in (1..k) \ {k} <=> i \in 1..(k - 1)
      OBVIOUS
    <3> QED
      BY <2>1
  <2>3. Max(1..k) = k
    BY <2>1, LastOf
  <2>4. upTo[1..k] = Put(upTo[1..(k - 1)], new[k])
    <3> HIDE DEF steps
    <3>1. upTo[1..k] = next(upTo, 1..k)
      BY <1>7, <2>1
    <3> QED
      BY <2>1, <2>2, <2>3, <3>1
  <2> QED
    BY <1>1, <2>4
<1> QED
  <2>1. steps[Len(new)] = PutAll(seq, new)
    BY <1>1, <1>2
  <2> QED
    BY <1>8, <1>9, <2>1 DEF PutSteps

\* Nothing is put in, or one thing.
LEMMA PutSome ==
  ASSUME NEW seq, NEW new, new = <<>> \/ \E x : new = <<x>>
  PROVE  PutAll(seq, new) = IF new = <<>> THEN seq ELSE Put(seq, new[1])
<1>1. new = <<>> => Sequence(new) /\ Len(new) = 0
  BY DEF Sequence
<1>2. new # <<>> => Sequence(new) /\ Len(new) = 1
  <2>1. ASSUME NEW x, new = <<x>> PROVE new \in Seq({x}) /\ Len(new) = 1 /\ {new[i] : i \in DOMAIN new} = {x}
    BY <2>1
  <2> QED
    BY <2>1 DEF Sequence
<1> QED
  BY <1>1, <1>2, PutInSteps DEF PutSteps

\* Two sequences with the same names in the same places have the same firsts.
LEMMA FirstOfBoth ==
  ASSUME NEW a, NEW b, Sequence(a), Sequence(b), DOMAIN a = DOMAIN b,
         \A i \in DOMAIN a : b[i].name = a[i].name, NEW n, Named(a, n)
  PROVE  \E i \in DOMAIN a : /\ a[i].name = n /\ IsFirst(a, i)
                             /\ First(a, n) = a[i] /\ First(b, n) = b[i]
<1>1. PICK i \in DOMAIN a : a[i].name = n /\ IsFirst(a, i) /\ First(a, n) = a[i]
  BY FirstFound
<1>2. DOMAIN a = 1..Len(a) /\ Len(a) \in Nat
  BY LenProperties DEF Sequence
<1>3. IsFirst(b, i)
  BY <1>1, <1>2 DEF IsFirst
<1> QED
  BY <1>1, <1>3, FoundFirst

\* What each kind of slot stands for.
LEMMA SecretsAre ==
  ASSUME NEW c
  PROVE  /\ Secret(c, <<"bearer">>) = c.bearer
         /\ Secret(c, <<"tunnel">>) = c.tunnel
         /\ \A n : Secret(c, <<"upstream", n>>) =
                     IF Named(c.upstreams, n) THEN First(c.upstreams, n).token ELSE Blank
  BY DEF Secret

\* There is a slot for the bearer, one for the tunnel, and one for each upstream.
LEMMA SlotsAre ==
  ASSUME NEW c, NEW s
  PROVE  s \in Slots(c) <=> \/ s = <<"bearer">> \/ s = <<"tunnel">>
                            \/ \E n : s = <<"upstream", n>> /\ Named(c.upstreams, n)
  BY DEF Slots, NamesIn, Named

\* Nothing but three fields has a credential.
LEMMA SameSecrets ==
  ASSUME NEW c, NEW d, c.bearer = d.bearer, c.tunnel = d.tunnel, c.upstreams = d.upstreams
  PROVE  Slots(c) = Slots(d) /\ \A s : Secret(c, s) = Secret(d, s)
  BY DEF Slots, Secret

\* Nothing but the names of the upstreams makes a slot.
LEMMA SameSlots ==
  ASSUME NEW c, NEW d, \A n : Named(c.upstreams, n) <=> Named(d.upstreams, n)
  PROVE  Slots(c) = Slots(d)
<1>1. \A n : n \in NamesIn(c.upstreams) <=> n \in NamesIn(d.upstreams)
  BY DEF NamesIn, Named
<1>2. NamesIn(c.upstreams) = NamesIn(d.upstreams)
  BY <1>1
<1> QED
  BY <1>2 DEF Slots

\* Every credential that is put back is there.
LEMMA SecretsPutBack ==
  ASSUME NEW c, Configured(c), NEW value
  PROVE  LET d == WithSecrets(c, value)
         IN /\ Configured(d) /\ Slots(d) = Slots(c) /\ d.fromEnv = c.fromEnv
            /\ \A s \in Slots(c) : Secret(d, s) = value[s]
<1> DEFINE d == WithSecrets(c, value)
           us == [i \in DOMAIN c.upstreams |->
                    IF IsFirst(c.upstreams, i)
                    THEN [c.upstreams[i] EXCEPT !.token = value[<<"upstream", c.upstreams[i].name>>]]
                    ELSE c.upstreams[i]]
<1>1. /\ DOMAIN d = DOMAIN c /\ d.fromEnv = c.fromEnv /\ d.upstreams = us
      /\ d.bearer = value[<<"bearer">>] /\ d.tunnel = value[<<"tunnel">>]
  BY ConfigFields DEF Configured, WithSecrets, Fields
<1>2. /\ Sequence(us) /\ DOMAIN us = DOMAIN c.upstreams
      /\ \A i \in DOMAIN us : DOMAIN us[i] = DOMAIN c.upstreams[i] /\ us[i].name = c.upstreams[i].name
  BY SequenceIs DEF Configured
<1> HIDE DEF d
<1>3. Configured(d)
  <2> HIDE DEF us
  <2> QED
    BY <1>1, <1>2 DEF Configured
<1>4. \A n : Named(us, n) <=> Named(c.upstreams, n)
  <2> HIDE DEF us
  <2> QED
    BY <1>2 DEF Named
<1>5. Slots(d) = Slots(c)
  <2> HIDE DEF us
  <2> QED
    BY <1>1, <1>4, SameSlots
<1>6. ASSUME NEW n, Named(c.upstreams, n) PROVE Secret(d, <<"upstream", n>>) = value[<<"upstream", n>>]
  <2>1. PICK i \in DOMAIN c.upstreams : /\ c.upstreams[i].name = n /\ IsFirst(c.upstreams, i)
                                        /\ First(us, n) = us[i]
    <3> HIDE DEF us
    <3> QED
      BY <1>2, <1>6, FirstOfBoth DEF Configured
  <2>2. us[i].token = value[<<"upstream", n>>]
    BY <2>1 DEF Configured
  <2> HIDE DEF us
  <2> QED
    BY <1>1, <1>4, <1>6, <2>1, <2>2, SecretsAre
<1>7. ASSUME NEW s \in Slots(c) PROVE Secret(d, s) = value[s]
  BY <1>1, <1>6, SlotsAre, SecretsAre
<1> QED
  BY <1>1, <1>3, <1>5, <1>7 DEF d

\* The environment changes no slot, and nothing else of note.
LEMMA EnvironmentGives ==
  ASSUME NEW c, Configured(c), NEW env
  PROVE  LET d == ApplyEnvValues(c, env)
         IN Configured(d) /\ Slots(d) = Slots(c) /\ d.fromEnv = c.fromEnv
<1> DEFINE d == ApplyEnvValues(c, env)
           us == [i \in DOMAIN c.upstreams |->
                    [c.upstreams[i] EXCEPT !.token = Over(env, c.upstreams[i].env, @)]]
<1>1. DOMAIN d = DOMAIN c /\ d.fromEnv = c.fromEnv /\ d.upstreams = us
  BY ConfigFields DEF Configured, ApplyEnvValues, Fields
<1>2. /\ Sequence(us) /\ DOMAIN us = DOMAIN c.upstreams
      /\ \A i \in DOMAIN us : DOMAIN us[i] = DOMAIN c.upstreams[i] /\ us[i].name = c.upstreams[i].name
  BY SequenceIs DEF Configured
<1> HIDE DEF d, us
<1>3. Configured(d)
  BY <1>1, <1>2 DEF Configured
<1>4. \A n : Named(d.upstreams, n) <=> Named(c.upstreams, n)
  BY <1>1, <1>2 DEF Named
<1>5. Slots(d) = Slots(c)
  BY <1>4, SameSlots
<1> QED
  BY <1>1, <1>3, <1>5 DEF d

\* The file that is saved: every slot, and what is written in it.
LEMMA DiskSays ==
  ASSUME NEW c, Configured(c)
  PROVE  LET f == OnDisk(ForDisk(c))
         IN /\ Stored(f) /\ Slots(f) = Slots(c)
            /\ \A s \in Slots(c) : Secret(f, s) = IF Unsupplied(c, s)
                                                 THEN (CHOOSE e \in c.fromEnv : e.slot = s).file
                                                 ELSE Secret(c, s)
<1> DEFINE back == [s \in Slots(c) |-> IF Unsupplied(c, s)
                                       THEN (CHOOSE e \in c.fromEnv : e.slot = s).file ELSE Secret(c, s)]
           d == WithSecrets(c, back)
           f == OnDisk(ForDisk(c))
<1>1. f = OnDisk([d EXCEPT !.fromEnv = {}])
  BY DEF ForDisk
<1>2. Configured(d) /\ Slots(d) = Slots(c) /\ \A s \in Slots(c) : Secret(d, s) = back[s]
  BY SecretsPutBack
<1> HIDE DEF d, back
<1>3. /\ DOMAIN f = DOMAIN d /\ f.fromEnv = {}
      /\ f.bearer = d.bearer /\ f.tunnel = d.tunnel /\ f.upstreams = d.upstreams
  BY <1>1, <1>2, ConfigFields DEF OnDisk, Configured, Fields
<1> HIDE DEF f
<1>4. Stored(f)
  BY <1>2, <1>3 DEF Stored, Configured
<1>5. Slots(f) = Slots(c) /\ \A s \in Slots(c) : Secret(f, s) = back[s]
  BY <1>2, <1>3, SameSecrets
<1> QED
  BY <1>4, <1>5 DEF f, back

\* Where each credential of the running configuration c comes from, when f is
\* the file it was launched from: from that file, or over it from the
\* environment.  A first run has made f of what the environment gave.
Provenance(c, f, made) ==
  /\ Slots(c) = Slots(f)
  /\ \A e, d \in c.fromEnv : e.slot = d.slot => e = d
  /\ \A s \in Slots(c) : (\A e \in c.fromEnv : e.slot # s) => Secret(c, s) = Secret(f, s)
  /\ \A e \in c.fromEnv :
       \/ e.file = Secret(f, e.slot) /\ e.env = Secret(c, e.slot)
       \/ made /\ e.file = Blank /\ Secret(c, e.slot) = Secret(f, e.slot)

\* What the environment changes is remembered.
LEMMA EnvironmentIsRemembered ==
  ASSUME NEW c, Configured(c), c.fromEnv = {}, NEW env
  PROVE  LET d == ApplyEnv(c, env)
         IN /\ Configured(d) /\ Slots(d) = Slots(c)
            /\ d.fromEnv = {[slot |-> s, file |-> Secret(c, s), env |-> Secret(d, s)] :
                              s \in {x \in Slots(c) : Secret(d, x) # Secret(c, x)}}
<1> DEFINE v == ApplyEnvValues(c, env)
           d == ApplyEnv(c, env)
<1>1. Configured(v) /\ Slots(v) = Slots(c) /\ v.fromEnv = {}
  BY EnvironmentGives
<1>2. \A s : \A e \in c.fromEnv : e.slot # s
  OBVIOUS
<1>3. d = [v EXCEPT !.fromEnv = @ \cup {[slot |-> s, file |-> Secret(c, s), env |-> Secret(v, s)] :
                              s \in {x \in Slots(c) : /\ Secret(v, x) # Secret(c, x)
                                                      /\ \A e \in c.fromEnv : e.slot # x}}]
  BY DEF ApplyEnv
<1> HIDE DEF v, d
<1>4. /\ DOMAIN d = DOMAIN v /\ d.bearer = v.bearer /\ d.tunnel = v.tunnel /\ d.upstreams = v.upstreams
      /\ d.fromEnv = {[slot |-> s, file |-> Secret(c, s), env |-> Secret(v, s)] :
                              s \in {x \in Slots(c) : Secret(v, x) # Secret(c, x)}}
  BY <1>1, <1>2, <1>3, ConfigFields DEF Configured, Fields
<1>5. Configured(d)
  BY <1>1, <1>4 DEF Configured
<1>6. Slots(d) = Slots(c) /\ \A s : Secret(d, s) = Secret(v, s)
  BY <1>1, <1>4, SameSecrets
<1> QED
  BY <1>4, <1>5, <1>6 DEF d

\* A gateway that is launched has its credentials from the file and the
\* environment, and remembers which from where.
LEMMA LaunchedFrom ==
  ASSUME NEW f, Stored(f), NEW env, NEW made
  PROVE  Configured(Load(f, env)) /\ Provenance(Load(f, env), f, made)
<1> DEFINE g == [f EXCEPT !.dir = TRUE]
           d == ApplyEnv(g, env)
           c == Load(f, env)
<1>1. DOMAIN g = DOMAIN f /\ g.fromEnv = {} /\ g.bearer = f.bearer /\ g.tunnel = f.tunnel /\ g.upstreams = f.upstreams
  BY ConfigFields DEF Stored, Configured, Fields
<1>2. c = IF d.who = Blank THEN [d EXCEPT !.who = "bearer"] ELSE d
  BY DEF Load
<1> HIDE DEF g
<1>3. Configured(g)
  BY <1>1 DEF Stored, Configured
<1>4. /\ Configured(d) /\ Slots(d) = Slots(g)
      /\ d.fromEnv = {[slot |-> s, file |-> Secret(g, s), env |-> Secret(d, s)] :
                        s \in {x \in Slots(g) : Secret(d, x) # Secret(g, x)}}
  BY <1>1, <1>3, EnvironmentIsRemembered
<1> HIDE DEF d, c
<1>5. /\ DOMAIN c = DOMAIN d /\ c.fromEnv = d.fromEnv
      /\ c.bearer = d.bearer /\ c.tunnel = d.tunnel /\ c.upstreams = d.upstreams
  BY <1>2, <1>4, ConfigFields DEF Configured, Fields
<1>6. Slots(c) = Slots(f) /\ Slots(d) = Slots(f) /\ \A s : Secret(c, s) = Secret(d, s) /\ Secret(g, s) = Secret(f, s)
  BY <1>1, <1>4, <1>5, SameSecrets
<1>7. Configured(c)
  BY <1>4, <1>5 DEF Configured
<1>8. Provenance(c, f, made)
  <2>1. ASSUME NEW e \in c.fromEnv
        PROVE  e = [slot |-> e.slot, file |-> Secret(g, e.slot), env |-> Secret(d, e.slot)]
    BY <1>4, <1>5, <2>1
  <2>2. \A e \in c.fromEnv : e.file = Secret(f, e.slot) /\ e.env = Secret(c, e.slot)
    BY <1>6, <2>1
  <2>3. \A e, h \in c.fromEnv : e.slot = h.slot => e = h
    BY <2>1
  <2>4. ASSUME NEW s \in Slots(c), \A e \in c.fromEnv : e.slot # s PROVE Secret(c, s) = Secret(f, s)
    <3>1. [slot |-> s, file |-> Secret(g, s), env |-> Secret(d, s)] \notin c.fromEnv
      BY <2>4
    <3> QED
      BY <1>4, <1>5, <1>6, <3>1
  <2> QED
    BY <1>6, <2>2, <2>3, <2>4 DEF Provenance
<1> QED
  BY <1>7, <1>8 DEF c

\* So has one that runs for the first time, from the file it makes.
LEMMA MadeFirst ==
  ASSUME NEW env
  PROVE  LET c == FirstRun(env)
         IN Configured(c) /\ Stored(OnDisk(c)) /\ Provenance(c, OnDisk(c), TRUE)
<1> DEFINE d == ApplyEnv(Default, env)
           c == FirstRun(env)
           f == OnDisk(c)
<1>1. /\ Configured(d) /\ Slots(d) = Slots(Default)
      /\ d.fromEnv = {[slot |-> s, file |-> Secret(Default, s), env |-> Secret(d, s)] :
                        s \in {x \in Slots(Default) : Secret(d, x) # Secret(Default, x)}}
  BY DefaultIsEmpty, EnvironmentIsRemembered
<1>2. Slots(Default) = {<<"bearer">>, <<"tunnel">>} /\ \A s \in Slots(Default) : Secret(Default, s) = Blank
  BY DefaultIsEmpty, SecretsAre DEF Slots, NamesIn
<1>3. c = IF d.bearer \in {Blank, "short"} THEN [d EXCEPT !.bearer = "made"] ELSE d
  BY DEF FirstRun
<1> HIDE DEF d, c
<1>4. DOMAIN c = DOMAIN d /\ c.fromEnv = d.fromEnv /\ c.upstreams = d.upstreams
  BY <1>1, <1>3, ConfigFields DEF Configured, Fields
<1>5. Configured(c) /\ Slots(c) = Slots(Default)
  <2>1. \A n : Named(c.upstreams, n) <=> Named(d.upstreams, n)
    BY <1>4
  <2> QED
    BY <1>1, <1>4, <2>1, SameSlots DEF Configured
<1>6. /\ DOMAIN f = DOMAIN c /\ f.fromEnv = {}
      /\ f.bearer = c.bearer /\ f.tunnel = c.tunnel /\ f.upstreams = c.upstreams
  BY <1>5, ConfigFields DEF OnDisk, Configured, Fields
<1> HIDE DEF f
<1>7. Stored(f) /\ Slots(f) = Slots(c) /\ \A s : Secret(c, s) = Secret(f, s)
  BY <1>5, <1>6, SameSecrets DEF Stored, Configured
<1>8. Provenance(c, f, TRUE)
  BY <1>1, <1>2, <1>4, <1>7 DEF Provenance
<1> QED
  BY <1>5, <1>7, <1>8 DEF c, f

\* An edit c of what runs, that changed the credentials it was given and no
\* others, is saved as FileKeepsItsSecrets says.
LEMMA SavedAsGiven ==
  ASSUME NEW cfg, NEW c, Configured(c), c.fromEnv = cfg.fromEnv,
         NEW f, NEW made, Provenance(cfg, f, made), NEW given,
         \A s \in Slots(c) : IF s \in DOMAIN given THEN Secret(c, s) = given[s]
                             ELSE s \in Slots(cfg) /\ Secret(c, s) = Secret(cfg, s)
  PROVE  LET new == OnDisk(ForDisk(c))
         IN /\ Stored(new)
            /\ \A s \in Slots(new) :
                 IF s \in DOMAIN given
                 THEN \/ Secret(new, s) = given[s]
                      \/ \E e \in cfg.fromEnv : e.slot = s /\ e.env = given[s]
                 ELSE \/ Secret(new, s) = Secret(f, s)
                      \/ /\ made /\ Secret(new, s) = Blank
                         /\ \E e \in cfg.fromEnv : e.slot = s
<1> DEFINE new == OnDisk(ForDisk(c))
           It(s) == CHOOSE e \in c.fromEnv : e.slot = s
<1>1. /\ Stored(new) /\ Slots(new) = Slots(c)
      /\ \A s \in Slots(c) : Secret(new, s) = IF Unsupplied(c, s) THEN It(s).file ELSE Secret(c, s)
  BY DiskSays
<1>2. ASSUME NEW s, NEW e \in c.fromEnv, e.slot = s PROVE It(s) = e
  BY <1>2 DEF Provenance
<1> HIDE DEF new, It
<1>3. ASSUME NEW s \in Slots(c), s \in DOMAIN given
      PROVE  \/ Secret(new, s) = given[s]
             \/ \E e \in cfg.fromEnv : e.slot = s /\ e.env = given[s]
  <2>1. Secret(c, s) = given[s]
    BY <1>3
  <2> QED
    BY <1>1, <2>1 DEF Unsupplied
<1>4. ASSUME NEW s \in Slots(c), s \notin DOMAIN given
      PROVE  \/ Secret(new, s) = Secret(f, s)
             \/ /\ made /\ Secret(new, s) = Blank
                /\ \E e \in cfg.fromEnv : e.slot = s
  <2>1. s \in Slots(cfg) /\ Secret(c, s) = Secret(cfg, s)
    BY <1>4
  <2>2. CASE \A e \in c.fromEnv : e.slot # s
    BY <1>1, <2>1, <2>2 DEF Unsupplied, Provenance
  <2>3. ASSUME NEW e \in c.fromEnv, e.slot = s
        PROVE  \/ Secret(new, s) = Secret(f, s)
               \/ made /\ Secret(new, s) = Blank
    <3>1. It(s) = e
      BY <1>2, <2>3
    <3>2. Unsupplied(c, s) <=> e.env = Secret(c, s)
      BY <2>3 DEF Unsupplied, Provenance
    <3>3. Secret(new, s) = IF e.env = Secret(c, s) THEN e.file ELSE Secret(c, s)
      BY <1>1, <3>1, <3>2
    <3>4. \/ e.file = Secret(f, s) /\ e.env = Secret(cfg, s)
          \/ made /\ e.file = Blank /\ Secret(cfg, s) = Secret(f, s)
      BY <2>3 DEF Provenance
    <3> QED
      BY <2>1, <3>3, <3>4
  <2> QED
    BY <2>2, <2>3
<1> QED
  BY <1>1, <1>3, <1>4 DEF new

\* The panel changes one credential, when its field was touched.
LEMMA PanelEdits ==
  ASSUME NEW cfg, Configured(cfg), NEW e,
         NEW given, given = IF e.touched THEN [s \in {<<"tunnel">>} |-> e.token] ELSE <<>>
  PROVE  LET c == PublishEdited(cfg, e)
         IN /\ Configured(c) /\ c.fromEnv = cfg.fromEnv
            /\ \A s \in Slots(c) : IF s \in DOMAIN given THEN Secret(c, s) = given[s]
                                   ELSE s \in Slots(cfg) /\ Secret(c, s) = Secret(cfg, s)
<1> DEFINE c == PublishEdited(cfg, e)
<1>1. /\ DOMAIN c = DOMAIN cfg /\ c.fromEnv = cfg.fromEnv /\ c.upstreams = cfg.upstreams
      /\ c.bearer = cfg.bearer /\ c.tunnel = IF e.touched THEN e.token ELSE cfg.tunnel
  BY ConfigFields DEF PublishEdited, Configured, Fields
<1>2. DOMAIN given = IF e.touched THEN {<<"tunnel">>} ELSE {}
  OBVIOUS
<1> HIDE DEF c
<1>3. Configured(c)
  BY <1>1 DEF Configured
<1>4. Slots(c) = Slots(cfg)
  <2>1. \A n : Named(c.upstreams, n) <=> Named(cfg.upstreams, n)
    BY <1>1
  <2> QED
    BY <2>1, SameSlots
<1>5. ASSUME NEW s \in Slots(c), s # <<"tunnel">> PROVE Secret(c, s) = Secret(cfg, s)
  BY <1>1, <1>5, SlotsAre, SecretsAre
<1>6. Secret(c, <<"tunnel">>) = IF e.touched THEN e.token ELSE Secret(cfg, <<"tunnel">>)
  BY <1>1, SecretsAre
<1>7. e.touched => given[<<"tunnel">>] = e.token
  OBVIOUS
<1> QED
  BY <1>1, <1>2, <1>3, <1>4, <1>5, <1>6, <1>7 DEF c

UpstreamFields == {"name", "kind", "token", "env", "ops"}
Upstreams(us)  == Sequence(us) /\ \A i \in DOMAIN us : DOMAIN us[i] = UpstreamFields

\* One thing is put in, in the place of one of its name or at the end.
LEMMA OnePutIn ==
  ASSUME NEW us, Sequence(us), NEW x
  PROVE  LET new == Put(us, x)
         IN /\ Sequence(new)
            /\ \A i \in DOMAIN new : new[i] = x \/ \E j \in DOMAIN us : new[i] = us[j]
            /\ \A m : Named(new, m) <=> Named(us, m) \/ m = x.name
            /\ First(new, x.name) = x
            /\ \A m : Named(us, m) /\ m # x.name => First(new, m) = First(us, m)
            /\ Unique(us) => Unique(new)
<1> DEFINE new == Put(us, x)
           FromThem(s) == \A i \in DOMAIN s : s[i] = x \/ \E j \in DOMAIN us : s[i] = us[j]
<1>1. DOMAIN us = 1..Len(us) /\ Len(us) \in Nat
  BY LenProperties DEF Sequence
<1>2. CASE Named(us, x.name)
  <2>1. new = [i \in DOMAIN us |-> IF us[i].name = x.name /\ IsFirst(us, i) THEN x ELSE us[i]]
    BY <1>2 DEF Put
  <2> HIDE DEF new
  <2>2. /\ DOMAIN new = DOMAIN us /\ Sequence(new) /\ FromThem(new)
        /\ \A i \in DOMAIN us : new[i].name = us[i].name
    BY <2>1, SequenceIs
  <2>3. \A m : Named(new, m) <=> Named(us, m)
    BY <2>2 DEF Named
  <2>4. ASSUME NEW m, Named(us, m) PROVE First(new, m) = IF m = x.name THEN x ELSE First(us, m)
    <3>1. PICK i \in DOMAIN us : us[i].name = m /\ IsFirst(us, i) /\ First(us, m) = us[i] /\ First(new, m) = new[i]
      BY <2>2, <2>4, FirstOfBoth
    <3> QED
      BY <2>1, <3>1
  <2>5. Unique(us) => Unique(new)
    BY <2>2 DEF Unique
  <2> QED
    BY <1>2, <2>2, <2>3, <2>4, <2>5 DEF new
<1>3. CASE ~Named(us, x.name)
  <2>1. new = Append(us, x)
    BY <1>3 DEF Put
  <2>2. new = [i \in 1..(Len(us) + 1) |-> IF i = Len(us) + 1 THEN x ELSE us[i]]
    <3> DEFINE S == {us[i] : i \in DOMAIN us} \cup {x}
    <3>1. us \in Seq(S)
      BY <1>1, SeqDef, SequenceIs
    <3>2. /\ new \in Seq(S) /\ Len(new) = Len(us) + 1 /\ new[Len(us) + 1] = x
          /\ \A i \in 1..Len(us) : new[i] = us[i]
      BY <2>1, <3>1, AppendProperties
    <3> HIDE DEF new, S
    <3>3. new = [i \in 1..(Len(us) + 1) |-> new[i]]
      BY <3>2, LenProperties
    <3>4. \A i \in 1..(Len(us) + 1) : new[i] = IF i = Len(us) + 1 THEN x ELSE us[i]
      BY <1>1, <3>2
    <3> QED
      BY <3>3, <3>4
  <2> HIDE DEF new
  <2>3. Sequence(new) /\ DOMAIN new = 1..(Len(us) + 1)
    BY <1>1, <2>2, SequenceIs
  <2>4. \A i \in DOMAIN us : i \in DOMAIN new /\ new[i] = us[i]
    BY <1>1, <2>2
  <2>5. Len(us) + 1 \in DOMAIN new /\ new[Len(us) + 1] = x
    BY <1>1, <2>2
  <2>6. \A i \in DOMAIN new : i = Len(us) + 1 \/ i \in DOMAIN us
    BY <1>1, <2>3
  <2>7. FromThem(new) /\ \A m : Named(new, m) <=> Named(us, m) \/ m = x.name
    BY <2>4, <2>5, <2>6 DEF Named
  <2>8. First(new, x.name) = x
    <3>1. IsFirst(new, Len(us) + 1)
      BY <1>1, <1>3, <2>4, <2>5 DEF IsFirst, Named
    <3> QED
      BY <2>3, <2>5, <3>1, FoundFirst
  <2>9. ASSUME NEW m, Named(us, m) PROVE First(new, m) = First(us, m)
    <3>1. PICK i \in DOMAIN us : us[i].name = m /\ IsFirst(us, i) /\ First(us, m) = us[i]
      BY <2>9, FirstFound
    <3>2. IsFirst(new, i)
      BY <1>1, <2>4, <3>1 DEF IsFirst
    <3> QED
      BY <2>3, <2>4, <3>1, <3>2, FoundFirst
  <2>10. Unique(us) => Unique(new)
    BY <1>3, <2>4, <2>5, <2>6 DEF Unique, Named
  <2> QED
    BY <2>3, <2>7, <2>8, <2>9, <2>10 DEF new
<1> QED
  BY <1>2, <1>3

\* All of them are put in: each name is there once it was in either, and it is
\* found as it was put in, or as it was.
LEMMA AllPutIn ==
  ASSUME NEW seq, NEW new, Sequence(seq), Sequence(new)
  PROVE  LET all == PutAll(seq, new)
         IN /\ Sequence(all)
            /\ \A i \in DOMAIN all : \/ \E j \in DOMAIN seq : all[i] = seq[j]
                                     \/ \E j \in DOMAIN new : all[i] = new[j]
            /\ \A m : Named(all, m) <=> Named(seq, m) \/ Named(new, m)
            /\ \A m : Named(seq, m) /\ ~Named(new, m) => First(all, m) = First(seq, m)
            /\ Unique(new) => \A j \in DOMAIN new : First(all, new[j].name) = new[j]
            /\ Unique(seq) => Unique(all)
<1> DEFINE Put1(s, k) ==
             /\ Sequence(s)
             /\ \A i \in DOMAIN s : \/ \E j \in DOMAIN seq : s[i] = seq[j]
                                    \/ \E j \in DOMAIN new : s[i] = new[j]
             /\ \A m : Named(s, m) <=> Named(seq, m) \/ \E j \in 1..k : new[j].name = m
             /\ \A m : Named(seq, m) /\ (\A j \in 1..k : new[j].name # m) => First(s, m) = First(seq, m)
             /\ Unique(new) => \A j \in 1..k : First(s, new[j].name) = new[j]
             /\ Unique(seq) => Unique(s)
<1>1. DOMAIN new = 1..Len(new) /\ Len(new) \in Nat
  BY LenProperties DEF Sequence
<1>2. PICK f : PutSteps(f, seq, new)
  BY PutInSteps
<1>3. Put1(f[0], 0)
  BY <1>2 DEF PutSteps
<1>4. ASSUME NEW k \in 0..(Len(new) - 1), Put1(f[k], k) PROVE Put1(f[k + 1], k + 1)
  <2> DEFINE s == f[k]
             x == new[k + 1]
             t == f[k + 1]
  <2>1. k \in Nat /\ k + 1 \in 1..Len(new) /\ (k + 1) - 1 = k /\ \A j : j \in 1..(k + 1) <=> j \in 1..k \/ j = k + 1
    BY <1>1
  <2>2. t = Put(s, x)
    BY <1>2, <2>1 DEF PutSteps
  <2> HIDE DEF s, t, x
  <2>3. Put1(s, k)
    BY <1>4 DEF s
  <2>4. /\ Sequence(t)
        /\ \A i \in DOMAIN t : t[i] = x \/ \E j \in DOMAIN s : t[i] = s[j]
        /\ \A m : Named(t, m) <=> Named(s, m) \/ m = x.name
        /\ First(t, x.name) = x
        /\ \A m : Named(s, m) /\ m # x.name => First(t, m) = First(s, m)
        /\ Unique(s) => Unique(t)
    BY <2>2, <2>3, OnePutIn
  <2>5. \A i \in DOMAIN t : \/ \E j \in DOMAIN seq : t[i] = seq[j]
                            \/ \E j \in DOMAIN new : t[i] = new[j]
    BY <1>1, <2>1, <2>3, <2>4 DEF x
  <2>6. \A m : Named(t, m) <=> Named(seq, m) \/ \E j \in 1..(k + 1) : new[j].name = m
    <3> SUFFICES ASSUME NEW m PROVE Named(t, m) <=> Named(seq, m) \/ \E j \in 1..(k + 1) : new[j].name = m
      OBVIOUS
    <3>1. Named(t, m) <=> Named(s, m) \/ m = x.name
      BY <2>4
    <3>2. Named(s, m) <=> Named(seq, m) \/ \E j \in 1..k : new[j].name = m
      BY <2>3
    <3>3. (\E j \in 1..(k + 1) : new[j].name = m) <=> (\E j \in 1..k : new[j].name = m) \/ m = x.name
      BY <2>1 DEF x
    <3> QED
      BY <3>1, <3>2, <3>3
  <2>7. ASSUME NEW m, Named(seq, m), \A j \in 1..(k + 1) : new[j].name # m
        PROVE  First(t, m) = First(seq, m)
    <3>1. m # x.name /\ \A j \in 1..k : new[j].name # m
      BY <2>1, <2>7 DEF x
    <3>2. Named(s, m) /\ First(s, m) = First(seq, m)
      BY <2>3, <2>7, <3>1
    <3> QED
      BY <2>4, <3>1, <3>2
  <2>8. ASSUME Unique(new), NEW j \in 1..(k + 1) PROVE First(t, new[j].name) = new[j]
    <3>1. CASE j = k + 1
      BY <2>4, <3>1 DEF x
    <3>2. CASE j \in 1..k
      <4>1. new[j].name # x.name
        <5>1. j \in DOMAIN new /\ k + 1 \in DOMAIN new /\ j # k + 1
          BY <1>1, <2>1, <3>2
        <5> QED
          BY <2>8, <5>1 DEF Unique, x
      <4>2. Named(s, new[j].name) /\ First(s, new[j].name) = new[j]
        BY <2>3, <2>8, <3>2
      <4> QED
        BY <2>4, <4>1, <4>2
    <3> QED
      BY <2>1, <3>1, <3>2
  <2> QED
    BY <2>3, <2>4, <2>5, <2>6, <2>7, <2>8 DEF t
<1>5. Put1(f[Len(new)], Len(new))
  <2> DEFINE S == {k \in Nat : k <= Len(new) => Put1(f[k], k)}
  <2> HIDE DEF Put1
  <2>1. 0 \in S
    BY <1>3
  <2>2. ASSUME NEW k \in Nat, k \in S PROVE k + 1 \in S
    <3>1. k + 1 <= Len(new) => k \in 0..(Len(new) - 1) /\ k <= Len(new)
      BY <1>1
    <3> QED
      BY <1>4, <2>2, <3>1
  <2>3. \A k \in Nat : k \in S
    <3> HIDE DEF S
    <3> QED
      BY <2>1, <2>2, Upwards
  <2> QED
    BY <1>1, <2>3
<1>6. \A m : Named(new, m) <=> \E j \in 1..Len(new) : new[j].name = m
  BY <1>1 DEF Named
<1> QED
  BY <1>1, <1>2, <1>5, <1>6 DEF PutSteps

\* A token that was pasted is that of the first upstream of the name.
LEMMA TokenGoesIn ==
  ASSUME NEW c, Configured(c), NEW name, NEW token
  PROVE  LET d == WithInlineToken(c, name, token)
         IN /\ Configured(d) /\ Slots(d) = Slots(c) /\ d.fromEnv = c.fromEnv
            /\ \A s \in Slots(c) : Secret(d, s) = IF token # Blank /\ s = <<"upstream", name>>
                                                 THEN token ELSE Secret(c, s)
<1> DEFINE d == WithInlineToken(c, name, token)
           us == [i \in DOMAIN c.upstreams |->
                   IF c.upstreams[i].name = name /\ IsFirst(c.upstreams, i)
                   THEN [c.upstreams[i] EXCEPT !.token = token] ELSE c.upstreams[i]]
<1>1. CASE token = Blank \/ ~Named(c.upstreams, name)
  <2>1. d = c
    BY <1>1 DEF WithInlineToken
  <2> HIDE DEF d
  <2>2. ASSUME token # Blank, NEW s \in Slots(c) PROVE s # <<"upstream", name>>
    <3>1. ~Named(c.upstreams, name)
      BY <1>1, <2>2
    <3> QED
      BY <2>2, <3>1, SlotsAre
  <2> QED
    BY <2>1, <2>2 DEF d
<1>2. CASE token # Blank /\ Named(c.upstreams, name)
  <2>1. d = [c EXCEPT !.upstreams = us]
    BY <1>2 DEF WithInlineToken
  <2>2. /\ Sequence(us) /\ DOMAIN us = DOMAIN c.upstreams
        /\ \A i \in DOMAIN us : DOMAIN us[i] = DOMAIN c.upstreams[i] /\ us[i].name = c.upstreams[i].name
    BY SequenceIs DEF Configured
  <2>3. \A i \in DOMAIN c.upstreams : IsFirst(c.upstreams, i) =>
          us[i].token = IF c.upstreams[i].name = name THEN token ELSE c.upstreams[i].token
    BY DEF Configured
  <2> HIDE DEF d, us
  <2>4. /\ DOMAIN d = DOMAIN c /\ d.fromEnv = c.fromEnv /\ d.upstreams = us
        /\ d.bearer = c.bearer /\ d.tunnel = c.tunnel
    BY <2>1, ConfigFields DEF Configured, Fields
  <2>5. Configured(d)
    BY <2>2, <2>4 DEF Configured
  <2>6. \A m : Named(us, m) <=> Named(c.upstreams, m)
    BY <2>2 DEF Named
  <2>7. Slots(d) = Slots(c)
    BY <2>4, <2>6, SameSlots
  <2>8. ASSUME NEW m, Named(c.upstreams, m)
        PROVE  Secret(d, <<"upstream", m>>) = IF m = name THEN token ELSE Secret(c, <<"upstream", m>>)
    <3>1. PICK i \in DOMAIN c.upstreams : /\ c.upstreams[i].name = m /\ IsFirst(c.upstreams, i)
                                          /\ First(c.upstreams, m) = c.upstreams[i] /\ First(us, m) = us[i]
      BY <2>2, <2>8, FirstOfBoth DEF Configured
    <3> QED
      BY <2>3, <2>4, <2>6, <2>8, <3>1, SecretsAre
  <2>9. ASSUME NEW s \in Slots(c)
        PROVE  Secret(d, s) = IF s = <<"upstream", name>> THEN token ELSE Secret(c, s)
    <3>1. CASE s = <<"bearer">> \/ s = <<"tunnel">>
      BY <2>4, <3>1, SecretsAre
    <3>2. CASE \E m : s = <<"upstream", m>> /\ Named(c.upstreams, m)
      BY <2>8, <3>2
    <3> QED
      BY <3>1, <3>2, SlotsAre
  <2> QED
    BY <1>2, <2>4, <2>5, <2>7, <2>9 DEF d
<1> QED
  BY <1>1, <1>2

\* A merge that is not refused leaves the merged configuration.
LEMMA MergedIfOk ==
  ASSUME NEW c, NEW p, NEW o, NEW folder, Merge(c, p, o, folder).says = "ok"
  PROVE  Merge(c, p, o, folder).cfg = Merged(c, p)
  BY DEF Merge

\* A connection, merged, leaves every credential but those it was given.
LEMMA ConnectionAdds ==
  ASSUME NEW cfg, Configured(cfg), NEW n, NEW again, NEW folder,
         Connected(cfg, n, again, folder).says = "ok"
  PROVE  LET c == Connected(cfg, n, again, folder).cfg
             given == Pasted(n)
         IN /\ Configured(c) /\ c.fromEnv = cfg.fromEnv
            /\ \A s \in Slots(c) : IF s \in DOMAIN given THEN Secret(c, s) = given[s]
                                   ELSE s \in Slots(cfg) /\ Secret(c, s) = Secret(cfg, s)
<1> DEFINE o == [replace |-> again, scripts |-> FALSE, dangerous |-> FALSE, write |-> FALSE]
           p == ToPack(n)
           m == Merge(cfg, p, o, folder)
           d == Merged(cfg, p)
           c == Connected(cfg, n, again, folder).cfg
           given == Pasted(n)
           name == DerivedName(n)
           x == [name |-> name, kind |-> n.service, token |-> Blank, env |-> n.env,
                 ops |-> IF n.service = "http" THEN {OpOf(n.tools[i]) : i \in DOMAIN n.tools} ELSE {}]
<1>1. m.says = "ok" /\ c = WithInlineToken(m.cfg, n.name, InlineToken(n))
  BY DEF Connected, Merge
<1>2. m.cfg = d
  BY <1>1, MergedIfOk
<1>3. p.upstreams = IF n.service = "exec" THEN <<>> ELSE <<x>>
  BY DEF ToPack
<1>4. /\ DOMAIN d = DOMAIN cfg /\ d.fromEnv = cfg.fromEnv
      /\ d.bearer = cfg.bearer /\ d.tunnel = cfg.tunnel
      /\ d.upstreams = PutAll(cfg.upstreams, p.upstreams)
  <2> HIDE DEF p
  <2> QED
    BY ConfigFields DEF Merged, Configured, Fields
<1>5. d.upstreams = IF n.service = "exec" THEN cfg.upstreams ELSE Put(cfg.upstreams, x)
  <2> HIDE DEF d, p, x
  <2>1. PutAll(cfg.upstreams, p.upstreams) = IF p.upstreams = <<>> THEN cfg.upstreams
                                             ELSE Put(cfg.upstreams, p.upstreams[1])
    BY <1>3, PutSome
  <2> QED
    BY <1>3, <1>4, <2>1
<1>6. DOMAIN x = UpstreamFields /\ x.name = name /\ x.token = Blank
  BY DEF UpstreamFields
<1>7. Upstreams(cfg.upstreams)
  BY DEF Configured, Upstreams, UpstreamFields
<1>8. name = n.name \/ n.name = Blank
  BY DEF DerivedName
<1>9. DOMAIN given = (IF n.service = "exec" THEN {} ELSE {<<"upstream", name>>})
                     \cup (IF InlineToken(n) = Blank THEN {} ELSE {<<"upstream", n.name>>})
      /\ \A s \in DOMAIN given : given[s] = IF s = <<"upstream", n.name>> THEN InlineToken(n) ELSE Blank
  BY DEF Pasted
<1> HIDE DEF m, d, p, x, c, given, name
<1>10. /\ Upstreams(d.upstreams)
       /\ \A k : Named(d.upstreams, k) <=> \/ Named(cfg.upstreams, k)
                                           \/ n.service # "exec" /\ k = name
       /\ n.service # "exec" => Named(d.upstreams, name) /\ First(d.upstreams, name).token = Blank
       /\ \A k : Named(cfg.upstreams, k) /\ (n.service = "exec" \/ k # name) =>
            First(d.upstreams, k) = First(cfg.upstreams, k)
  <2>1. CASE n.service = "exec"
    BY <1>5, <1>7, <2>1
  <2>2. CASE n.service # "exec"
    <3>1. /\ Sequence(d.upstreams)
          /\ \A i \in DOMAIN d.upstreams :
               d.upstreams[i] = x \/ \E j \in DOMAIN cfg.upstreams : d.upstreams[i] = cfg.upstreams[j]
          /\ \A k : Named(d.upstreams, k) <=> Named(cfg.upstreams, k) \/ k = name
          /\ First(d.upstreams, name) = x
          /\ \A k : Named(cfg.upstreams, k) /\ k # name => First(d.upstreams, k) = First(cfg.upstreams, k)
      BY <1>5, <1>6, <1>7, <2>2, OnePutIn DEF Upstreams
    <3>2. Upstreams(d.upstreams)
      BY <1>6, <1>7, <3>1 DEF Upstreams
    <3> QED
      BY <1>6, <2>2, <3>1, <3>2
  <2> QED
    BY <2>1, <2>2
<1>11. Configured(d)
  BY <1>4, <1>10 DEF Configured, Upstreams, UpstreamFields
<1>12. /\ Configured(c) /\ Slots(c) = Slots(d) /\ c.fromEnv = cfg.fromEnv
       /\ \A s \in Slots(d) : Secret(c, s) = IF InlineToken(n) # Blank /\ s = <<"upstream", n.name>>
                                            THEN InlineToken(n) ELSE Secret(d, s)
  BY <1>1, <1>2, <1>4, <1>11, TokenGoesIn
<1>13. ASSUME NEW s \in Slots(d), n.service = "exec" \/ s # <<"upstream", name>>
       PROVE  s \in Slots(cfg) /\ Secret(d, s) = Secret(cfg, s)
  <2>1. CASE s = <<"bearer">> \/ s = <<"tunnel">>
    BY <1>4, <2>1, SlotsAre, SecretsAre
  <2>2. ASSUME NEW k, s = <<"upstream", k>>, Named(d.upstreams, k)
        PROVE  s \in Slots(cfg) /\ Secret(d, s) = Secret(cfg, s)
    <3>1. Named(cfg.upstreams, k) /\ First(d.upstreams, k) = First(cfg.upstreams, k)
      BY <1>10, <1>13, <2>2
    <3> QED
      BY <2>2, <3>1, SlotsAre, SecretsAre
  <2> QED
    BY <2>1, <2>2, SlotsAre
<1>14. n.service # "exec" => Secret(d, <<"upstream", name>>) = Blank
  BY <1>10, SecretsAre
<1>15. ASSUME NEW s \in Slots(c), s \in DOMAIN given PROVE Secret(c, s) = given[s]
  BY <1>8, <1>9, <1>12, <1>14, <1>15
<1>16. ASSUME NEW s \in Slots(c), s \notin DOMAIN given
       PROVE  s \in Slots(cfg) /\ Secret(c, s) = Secret(cfg, s)
  BY <1>9, <1>12, <1>13, <1>16
<1> QED
  BY <1>12, <1>15, <1>16 DEF c, given

-----------------------------------------------------------------------------
\* The inductive invariant: the credentials of what runs come from where they
\* should, and so do those of every file that was saved since.
FileInv ==
  /\ kind = "file" => Stored(in.file)
  /\ kind = "running" =>
       /\ DOMAIN in = {"made", "file", "launched", "cfg", "given"}
       /\ Stored(in.file) /\ Configured(in.cfg)
       /\ Provenance(in.cfg, in.launched, in.made)
       /\ FileKeepsItsSecrets

\* Every step of the file keeps it.
LEMMA FileInvariance == FileSpec => []FileInv
<1>1. FormsInit => FileInv
  BY DEF FormsInit, FileInv
<1>2. ASSUME FileInv, [FileNext]_<<kind, in>> PROVE FileInv'
  <2>1. CASE Find
    BY <2>1, FileAssumption DEF Find, Picked, FileInv
  <2>2. ASSUME NEW made, NEW f, NEW c, kind' = "running", in' = Started(made, f, c),
               Stored(f), Configured(c), Provenance(c, f, made)
        PROVE  FileInv'
    BY <2>2 DEF FileInv, FileKeepsItsSecrets, Started
  <2>3. CASE Make
    <3>1. PICK env \in Envs : Picked("running", Started(TRUE, OnDisk(FirstRun(env)), FirstRun(env)))
      BY <2>3 DEF Make
    <3>2. /\ Configured(FirstRun(env)) /\ Stored(OnDisk(FirstRun(env)))
          /\ Provenance(FirstRun(env), OnDisk(FirstRun(env)), TRUE)
      BY MadeFirst
    <3> QED
      BY <2>2, <3>1, <3>2 DEF Picked
  <2>4. CASE Launch
    <3>1. PICK env \in Envs : Picked("running", Started(in.made, in.file, Load(in.file, env)))
      BY <2>4 DEF Launch
    <3>2. Stored(in.file)
      BY <1>2, <2>4 DEF FileInv, Launch
    <3>3. Configured(Load(in.file, env)) /\ Provenance(Load(in.file, env), in.file, in.made)
      BY <3>2, LaunchedFrom
    <3> QED
      BY <2>2, <3>1, <3>2, <3>3 DEF Picked
  <2>5. ASSUME kind = "running", NEW c, NEW given, Save(c, given),
               Configured(c), c.fromEnv = in.cfg.fromEnv,
               \A s \in Slots(c) : IF s \in DOMAIN given THEN Secret(c, s) = given[s]
                                   ELSE s \in Slots(in.cfg) /\ Secret(c, s) = Secret(in.cfg, s)
        PROVE  FileInv'
    <3> DEFINE new == OnDisk(ForDisk(c))
    <3>1. /\ DOMAIN in = {"made", "file", "launched", "cfg", "given"}
          /\ Stored(in.file) /\ Configured(in.cfg)
          /\ Provenance(in.cfg, in.launched, in.made)
      BY <1>2, <2>5 DEF FileInv
    <3>2. /\ Stored(new)
          /\ \A s \in Slots(new) :
                 IF s \in DOMAIN given
                 THEN \/ Secret(new, s) = given[s]
                      \/ \E e \in in.cfg.fromEnv : e.slot = s /\ e.env = given[s]
                 ELSE \/ Secret(new, s) = Secret(in.launched, s)
                      \/ /\ in.made /\ Secret(new, s) = Blank
                         /\ \E e \in in.cfg.fromEnv : e.slot = s
      BY <2>5, <3>1, SavedAsGiven
    <3>3. kind' = "running" /\ in' = [in EXCEPT !.file = new, !.given = given]
      BY <2>5 DEF Save
    <3> HIDE DEF new
    <3>4. /\ DOMAIN in' = DOMAIN in /\ in'.file = new /\ in'.given = given
          /\ in'.made = in.made /\ in'.launched = in.launched /\ in'.cfg = in.cfg
      BY <3>1, <3>3
    <3> QED
      BY <3>1, <3>2, <3>3, <3>4 DEF FileInv, FileKeepsItsSecrets
  <2>6. CASE Panel
    <3>1. PICK e \in Edits : Save(PublishEdited(in.cfg, e),
                                  IF e.touched THEN [s \in {<<"tunnel">>} |-> e.token] ELSE <<>>)
      BY <2>6 DEF Panel
    <3>2. kind = "running" /\ Configured(in.cfg)
      BY <1>2, <2>6 DEF FileInv, Panel
    <3> QED
      BY <2>5, <3>1, <3>2, PanelEdits
  <2>7. CASE AddConnection
    <3>1. PICK n \in Connections, again \in BOOLEAN :
                /\ Connected(in.cfg, n, again, Folder).says = "ok"
                /\ Save(Connected(in.cfg, n, again, Folder).cfg, Pasted(n))
      BY <2>7 DEF AddConnection
    <3>2. kind = "running" /\ Configured(in.cfg)
      BY <1>2, <2>7 DEF FileInv, AddConnection
    <3> QED
      BY <2>5, <3>1, <3>2, ConnectionAdds
  <2>8. CASE Quit
    BY <1>2, <2>8 DEF FileInv, Quit, Picked
  <2>9. CASE UNCHANGED <<kind, in>>
    BY <1>2, <2>9 DEF FileInv, FileKeepsItsSecrets
  <2> QED
    BY <1>2, <2>1, <2>3, <2>4, <2>6, <2>7, <2>8, <2>9 DEF FileNext
<1> QED
  BY <1>1, <1>2, PTL DEF FileSpec

\* Whatever files, environments and edits there are, a save writes each
\* credential as it was given or as the file had it.
THEOREM FileIsKept == FileSpec => []FileKeepsItsSecrets
<1>1. FileInv => FileKeepsItsSecrets
  BY DEF FileInv, FileKeepsItsSecrets
<1> QED
  BY <1>1, FileInvariance, PTL

-----------------------------------------------------------------------------
(* Packs.                                                                  *)

\* Bodies are written one after the other, as things are put in.
SaveSteps(f, folder, new) == /\ f[0] = folder /\ f[Len(new)] = FoldLeft(Saved, folder, new)
                             /\ \A k \in 1..Len(new) : f[k] = Saved(f[k - 1], new[k])

LEMMA SavedInSteps ==
  ASSUME NEW folder, NEW new, Sequence(new)
  PROVE  \E f : SaveSteps(f, folder, new)
<1> DEFINE next(f, s) == IF s = {} THEN folder ELSE LET x == Max(s) IN Saved(f[s \ {x}], new[x])
           step(f, n) == [s \in SUBSET (1..n) |-> next(f, s)]
           upTo == CHOOSE f : f = step(f, Len(new))
           steps == [k \in 0..Len(new) |-> upTo[1..k]]
<1>1. DOMAIN new = 1..Len(new) /\ Len(new) \in Nat
  BY LenProperties DEF Sequence
<1>2. FoldLeft(Saved, folder, new) = upTo[1..Len(new)]
  BY <1>1 DEF FoldLeft, MapThenFoldSet
<1>3. \E f : f = step(f, 0)
  <2> DEFINE g == [s \in SUBSET (1..0) |-> folder]
  <2>1. g = step(g, 0)
    OBVIOUS
  <2> QED
    BY <2>1
<1>4. ASSUME NEW n \in Nat, \E f : f = step(f, n) PROVE \E f : f = step(f, n + 1)
  <2>1. PICK f : f = step(f, n)
    BY <1>4
  <2> DEFINE g == [s \in SUBSET (1..(n + 1)) |-> IF n + 1 \in s THEN Saved(f[s \ {n + 1}], new[n + 1]) ELSE f[s]]
  <2>2. ASSUME NEW s \in SUBSET (1..(n + 1)), n + 1 \in s PROVE g[s] = next(g, s)
    <3>1. s \ {n + 1} \in SUBSET (1..(n + 1)) /\ Max(s) = n + 1
      BY <2>2, LastOf
    <3>2. g[s \ {n + 1}] = f[s \ {n + 1}]
      BY <3>1
    <3>3. g[s] = Saved(f[s \ {n + 1}], new[n + 1])
      BY <2>2
    <3> HIDE DEF g
    <3> QED
      BY <2>2, <3>1, <3>2, <3>3
  <2>3. ASSUME NEW s \in SUBSET (1..(n + 1)), n + 1 \notin s PROVE g[s] = next(g, s)
    <3>1. s \in SUBSET (1..n)
      BY <2>3
    <3>2. f[s] = next(f, s)
      BY <2>1, <3>1
    <3>3. \A x : g[s \ {x}] = f[s \ {x}]
      BY <2>3
    <3>4. g[s] = f[s]
      BY <2>3
    <3> HIDE DEF g
    <3> QED
      BY <3>2, <3>3, <3>4
  <2>4. g = step(g, n + 1)
    <3>1. \A s \in SUBSET (1..(n + 1)) : g[s] = next(g, s)
      BY <2>2, <2>3
    <3> DEFINE G == [s \in SUBSET (1..(n + 1)) |-> g[s]]
    <3>2. g = G
      OBVIOUS
    <3> HIDE DEF g, next
    <3> QED
      BY <3>1, <3>2
  <2> QED
    BY <2>4
<1>5. \A n \in Nat : \E f : f = step(f, n)
  <2> DEFINE S == {n \in Nat : \E f : f = step(f, n)}
  <2> HIDE DEF step
  <2>1. 0 \in S /\ \A n \in Nat : n \in S => n + 1 \in S
    BY <1>3, <1>4
  <2>2. \A n \in Nat : n \in S
    <3> HIDE DEF S
    <3> QED
      BY <2>1, Upwards
  <2> QED
    BY <2>2
<1>6. upTo = step(upTo, Len(new))
  <2> HIDE DEF step
  <2> QED
    BY <1>1, <1>5
<1> HIDE DEF upTo
<1>7. \A s \in SUBSET (1..Len(new)) : upTo[s] = next(upTo, s)
  BY <1>6
<1>8. steps[0] = folder
  <2>1. 1..0 \in SUBSET (1..Len(new)) /\ 1..0 = {}
    BY <1>1
  <2>2. upTo[1..0] = folder
    BY <1>7, <2>1
  <2> QED
    BY <1>1, <2>2
<1>9. ASSUME NEW k \in 1..Len(new) PROVE steps[k] = Saved(steps[k - 1], new[k])
  <2>1. k \in Nat /\ k \in 1..k /\ 1..k \in SUBSET (1..Len(new))
    BY <1>1
  <2>2. (1..k) \ {k} = 1..(k - 1)
    <3> SUFFICES ASSUME NEW i PROVE i \in (1..k) \ {k} <=> i \in 1..(k - 1)
      OBVIOUS
    <3> QED
      BY <2>1
  <2>3. Max(1..k) = k
    BY <2>1, LastOf
  <2>4. upTo[1..k] = Saved(upTo[1..(k - 1)], new[k])
    <3> HIDE DEF steps
    <3>1. upTo[1..k] = next(upTo, 1..k)
      BY <1>7, <2>1
    <3> QED
      BY <2>1, <2>2, <2>3, <3>1
  <2> QED
    BY <1>1, <2>4
<1> QED
  <2>1. steps[Len(new)] = FoldLeft(Saved, folder, new)
    BY <1>1, <1>2
  <2> QED
    BY <1>8, <1>9, <2>1 DEF SaveSteps

\* Each body lies where its script's belongs, and nothing else has changed.
LEMMA BodiesWritten ==
  ASSUME NEW folder, DOMAIN folder = {"out", "files"}, NEW new, Sequence(new), Unique(new),
         \A j \in DOMAIN new : At(new[j]) \in DOMAIN folder.files
  PROVE  LET w == FoldLeft(Saved, folder, new)
         IN /\ w.out = folder.out
            /\ \A j \in DOMAIN new : w.files[At(new[j])] = new[j].source
            /\ \A a \in DOMAIN folder.files :
                 (\A j \in DOMAIN new : At(new[j]) # a) => w.files[a] = folder.files[a]
<1> DEFINE Wrote(w, k) ==
             /\ DOMAIN w = {"out", "files"} /\ w.out = folder.out /\ DOMAIN w.files = DOMAIN folder.files
             /\ \A j \in 1..k : w.files[At(new[j])] = new[j].source
             /\ \A a \in DOMAIN folder.files :
                  (\A j \in 1..k : At(new[j]) # a) => w.files[a] = folder.files[a]
<1>1. DOMAIN new = 1..Len(new) /\ Len(new) \in Nat
  BY LenProperties DEF Sequence
<1>2. PICK f : SaveSteps(f, folder, new)
  BY SavedInSteps
<1>3. Wrote(f[0], 0)
  BY <1>2 DEF SaveSteps
<1>4. ASSUME NEW k \in 0..(Len(new) - 1), Wrote(f[k], k) PROVE Wrote(f[k + 1], k + 1)
  <2> DEFINE v == f[k]
             x == new[k + 1]
             w == f[k + 1]
  <2>1. k \in Nat /\ k + 1 \in 1..Len(new) /\ (k + 1) - 1 = k /\ \A j : j \in 1..(k + 1) <=> j \in 1..k \/ j = k + 1
    BY <1>1
  <2>2. w = Saved(v, x)
    BY <1>2, <2>1 DEF SaveSteps
  <2> HIDE DEF v, w, x
  <2>3. Wrote(v, k)
    BY <1>4 DEF v
  <2>4. At(x) \in DOMAIN v.files
    BY <1>1, <2>1, <2>3 DEF x
  <2>5. /\ DOMAIN w = {"out", "files"} /\ w.out = v.out /\ DOMAIN w.files = DOMAIN v.files
        /\ w.files[At(x)] = x.source
        /\ \A a \in DOMAIN v.files : a # At(x) => w.files[a] = v.files[a]
    BY <2>2, <2>3, <2>4 DEF Saved
  <2>6. ASSUME NEW j \in 1..k PROVE At(new[j]) # At(x) /\ At(new[j]) \in DOMAIN v.files
    <3>1. j \in DOMAIN new /\ k + 1 \in DOMAIN new /\ j # k + 1
      BY <1>1, <2>1
    <3> QED
      BY <2>3, <3>1 DEF Unique, At, x
  <2>7. \A j \in 1..(k + 1) : w.files[At(new[j])] = new[j].source
    BY <2>1, <2>3, <2>5, <2>6 DEF x
  <2>8. ASSUME NEW a \in DOMAIN folder.files, \A j \in 1..(k + 1) : At(new[j]) # a
        PROVE  w.files[a] = folder.files[a]
    BY <2>1, <2>3, <2>5, <2>8 DEF x
  <2> QED
    BY <2>3, <2>5, <2>7, <2>8 DEF w
<1>5. Wrote(f[Len(new)], Len(new))
  <2> DEFINE S == {k \in Nat : k <= Len(new) => Wrote(f[k], k)}
  <2> HIDE DEF Wrote
  <2>1. 0 \in S
    BY <1>3
  <2>2. ASSUME NEW k \in Nat, k \in S PROVE k + 1 \in S
    <3>1. k + 1 <= Len(new) => k \in 0..(Len(new) - 1) /\ k <= Len(new)
      BY <1>1
    <3> QED
      BY <1>4, <2>2, <3>1
  <2>3. \A k \in Nat : k \in S
    <3> HIDE DEF S
    <3> QED
      BY <2>1, <2>2, Upwards
  <2> QED
    BY <1>1, <2>3
<1> QED
  BY <1>1, <1>2, <1>5 DEF SaveSteps

\* What a pack brings, as it is recorded.
Records(p) == [i \in DOMAIN p.scripts |-> Record(p.scripts[i], p.name)]

LEMMA MergedIs ==
  ASSUME NEW c, DOMAIN c = Fields, NEW p
  PROVE  LET d == Merged(c, p)
         IN /\ DOMAIN d = Fields
            /\ d.scripts = PutAll(c.scripts, Records(p)) /\ d.upstreams = PutAll(c.upstreams, p.upstreams)
            /\ d.tools = PutAll(c.tools, p.tools) /\ d.seeds = Seeded(c.seeds, p.seeds)
            /\ \A k \in Fields \ {"scripts", "upstreams", "tools", "seeds"} : d[k] = c[k]
<1> DEFINE A == PutAll(c.scripts, Records(p))
           B == PutAll(c.upstreams, p.upstreams)
           C == PutAll(c.tools, p.tools)
           D == Seeded(c.seeds, p.seeds)
<1>1. Merged(c, p) = [c EXCEPT !.scripts = A, !.upstreams = B, !.tools = C, !.seeds = D]
  BY DEF Merged, Records
<1> HIDE DEF A, B, C, D
<1>2. {"scripts", "upstreams", "tools", "seeds"} \subseteq Fields
  BY DEF Fields
<1>3. /\ DOMAIN Merged(c, p) = Fields
      /\ Merged(c, p).scripts = A /\ Merged(c, p).upstreams = B
      /\ Merged(c, p).tools = C /\ Merged(c, p).seeds = D
      /\ \A k \in Fields \ {"scripts", "upstreams", "tools", "seeds"} : Merged(c, p)[k] = c[k]
  BY <1>1, <1>2
<1> QED
  BY <1>3 DEF A, B, C, D

\* The copy that is planned with comes to the same, but for its folder.
LEMMA PlannedIs ==
  ASSUME NEW c, DOMAIN c = Fields, NEW p
  PROVE  /\ DOMAIN PlanCopy(c) = Fields /\ \A k \in Fields \ {"dir"} : PlanCopy(c)[k] = c[k]
         /\ Merged(PlanCopy(c), p) = [Merged(c, p) EXCEPT !.dir = FALSE]
<1> DEFINE d == Merged(c, p)
           e == Merged(PlanCopy(c), p)
           f == [d EXCEPT !.dir = FALSE]
<1>1. {"scripts", "upstreams", "tools", "seeds", "dir"} \subseteq Fields
  BY DEF Fields
<1>2. DOMAIN PlanCopy(c) = Fields /\ PlanCopy(c).dir = FALSE /\ \A k \in Fields \ {"dir"} : PlanCopy(c)[k] = c[k]
  BY <1>1 DEF PlanCopy
<1>3. /\ DOMAIN d = Fields /\ DOMAIN e = Fields
      /\ e.scripts = d.scripts /\ e.upstreams = d.upstreams /\ e.tools = d.tools /\ e.seeds = d.seeds
      /\ e.dir = FALSE
      /\ \A k \in Fields \ {"scripts", "upstreams", "tools", "seeds", "dir"} : e[k] = d[k]
  <2> HIDE DEF d, e
  <2>1. c.scripts = PlanCopy(c).scripts /\ c.upstreams = PlanCopy(c).upstreams
        /\ c.tools = PlanCopy(c).tools /\ c.seeds = PlanCopy(c).seeds
    BY <1>1, <1>2
  <2> QED
    BY <1>1, <1>2, <2>1, MergedIs DEF d, e
<1>4. e = f
  <2> DEFINE E == [k \in Fields |-> e[k]]
             F == [k \in Fields |-> IF k = "dir" THEN FALSE ELSE d[k]]
  <2>1. \A k \in Fields : e[k] = IF k = "dir" THEN FALSE ELSE d[k]
    <3> HIDE DEF d, e
    <3> QED
      BY <1>3
  <2>2. E = F
    <3> HIDE DEF d, e
    <3> QED
      BY <2>1
  <2>3. d = [k \in Fields |-> d[k]] /\ e = [k \in Fields |-> e[k]]
    BY <1>3 DEF Merged, PlanCopy
  <2>4. f = F
    <3> HIDE DEF d
    <3> QED
      BY <1>1, <1>3, <2>3
  <2> HIDE DEF d, f, F
  <2> QED
    BY <2>2, <2>3, <2>4
<1> QED
  BY <1>2, <1>4

\* What a merge says, once there is consent for all of it.
LEMMA MergeSays ==
  ASSUME NEW c, NEW p, NEW o, NEW folder, o.scripts = TRUE, Dangerous(p) = {} \/ o.dangerous = TRUE
  PROVE  LET m == Merge(c, p, o, folder)
             w == WrittenBy(c, p, o, folder)
         IN /\ m.says = IF NotTaken(c, p, o, folder) # {} THEN "script"
                        ELSE IF Clash(c.upstreams, p.upstreams) /\ ~o.replace THEN "upstream"
                        ELSE IF Clash(c.tools, p.tools) /\ ~o.replace THEN "tool"
                        ELSE IF ~Valid(Merged(c, p), Sound(Merged(c, p), w)) THEN "invalid"
                        ELSE "ok"
            /\ m.applied = Applied(c, p)
  BY DEF Merge

\* A dangerous script is not taken without the second consent.
LEMMA DangerRefused ==
  ASSUME NEW c, NEW p, NEW o, NEW folder, Dangerous(p) # {}, o.dangerous = FALSE
  PROVE  Merge(c, p, o, folder).says # "ok" /\ Merge(c, p, o, folder).folder = folder
  BY DEF Merge

\* A pack's scripts are recorded as they are.
LEMMA RecordsAre ==
  ASSUME NEW p, Sequence(p.scripts), Unique(p.scripts)
  PROVE  LET recs == Records(p)
         IN /\ Sequence(recs) /\ Unique(recs) /\ DOMAIN recs = DOMAIN p.scripts
            /\ \A m : Named(recs, m) <=> Named(p.scripts, m)
            /\ \A k \in DOMAIN p.scripts : /\ recs[k].name = p.scripts[k].name /\ recs[k].lang = p.scripts[k].lang
                                           /\ recs[k].sha = p.scripts[k].source
<1> DEFINE recs == Records(p)
<1>1. /\ DOMAIN recs = DOMAIN p.scripts
      /\ \A k \in DOMAIN p.scripts : recs[k] = Record(p.scripts[k], p.name)
  BY DEF Records
<1>2. Sequence(recs)
  BY SequenceIs DEF Records
<1> HIDE DEF recs
<1>3. \A k \in DOMAIN p.scripts : /\ recs[k].name = p.scripts[k].name /\ recs[k].lang = p.scripts[k].lang
                                  /\ recs[k].sha = p.scripts[k].source
  <2> SUFFICES ASSUME NEW k \in DOMAIN p.scripts
               PROVE  /\ recs[k].name = p.scripts[k].name /\ recs[k].lang = p.scripts[k].lang
                      /\ recs[k].sha = p.scripts[k].source
    OBVIOUS
  <2>1. recs[k] = Record(p.scripts[k], p.name)
    BY <1>1
  <2> QED
    BY <2>1 DEF Record
<1>4. Unique(recs)
  BY <1>1, <1>3 DEF Unique
<1>5. \A m : Named(recs, m) <=> Named(p.scripts, m)
  BY <1>1, <1>3 DEF Named
<1> QED
  BY <1>1, <1>2, <1>3, <1>4, <1>5 DEF recs

\* A folder with room for any script has it whatever is written there.
LEMMA StaysRoomy ==
  ASSUME NEW folder, Roomy(folder), NEW a, NEW x
  PROVE  Roomy([folder EXCEPT !.files[a] = x])
<1> DEFINE w == [folder EXCEPT !.files[a] = x]
<1>1. /\ DOMAIN w = DOMAIN folder /\ w.out = folder.out /\ DOMAIN w.files = DOMAIN folder.files
  BY DEF Roomy
<1> HIDE DEF w
<1> QED
  BY <1>1 DEF Roomy, Contained, w

LEMMA SavedStaysRoomy ==
  ASSUME NEW folder, Roomy(folder), NEW s
  PROVE  Roomy(Saved(folder, s))
<1> DEFINE a == At(s)
           x == s.source
<1>1. Saved(folder, s) = [folder EXCEPT !.files[a] = x]
  BY DEF Saved
<1> HIDE DEF a, x
<1>2. Roomy([folder EXCEPT !.files[a] = x])
  BY StaysRoomy
<1> QED
  BY <1>1, <1>2

LEMMA DeletedStaysRoomy ==
  ASSUME NEW folder, Roomy(folder), NEW def
  PROVE  Roomy(Deleted(folder, def))
<1> DEFINE a == At(def)
<1>1. Deleted(folder, def) = [folder EXCEPT !.files[a] = NoBody]
  BY DEF Deleted
<1> HIDE DEF a
<1>2. Roomy([folder EXCEPT !.files[a] = NoBody])
  BY StaysRoomy
<1> QED
  BY <1>1, <1>2

LEMMA AllStayRoomy ==
  ASSUME NEW folder, Roomy(folder), NEW new, Sequence(new)
  PROVE  Roomy(FoldLeft(Saved, folder, new))
<1>1. Len(new) \in Nat
  BY LenProperties DEF Sequence
<1>2. PICK f : SaveSteps(f, folder, new)
  BY SavedInSteps
<1> DEFINE S == {k \in Nat : k <= Len(new) => Roomy(f[k])}
<1>3. 0 \in S
  BY <1>2 DEF SaveSteps
<1>4. ASSUME NEW k \in Nat, k \in S PROVE k + 1 \in S
  <2> SUFFICES ASSUME k + 1 <= Len(new) PROVE Roomy(f[k + 1])
    OBVIOUS
  <2>1. Roomy(f[k]) /\ k + 1 \in 1..Len(new) /\ (k + 1) - 1 = k
    BY <1>1, <1>4
  <2>2. f[k + 1] = Saved(f[k], new[k + 1])
    BY <1>2, <2>1 DEF SaveSteps
  <2> QED
    BY <2>1, <2>2, SavedStaysRoomy
<1>5. \A k \in Nat : k \in S
  <2> HIDE DEF S
  <2> QED
    BY <1>3, <1>4, Upwards
<1> QED
  BY <1>1, <1>2, <1>5 DEF SaveSteps

\* A merge, taken or not, leaves the folder with room.
LEMMA MergeLeavesRoom ==
  ASSUME NEW folder, Roomy(folder), NEW c, NEW p, Sequence(p.scripts), NEW o
  PROVE  Roomy(Merge(c, p, o, folder).folder)
<1> DEFINE bad  == NotTaken(c, p, o, folder)
           upto == IF bad = {} THEN Len(p.scripts) ELSE Min(bad) - 1
           some == SubSeq(p.scripts, 1, upto)
<1>1. DOMAIN p.scripts = 1..Len(p.scripts) /\ Len(p.scripts) \in Nat
  BY LenProperties DEF Sequence
<1>2. bad \in SUBSET (1..Len(p.scripts))
  BY <1>1 DEF NotTaken
<1> HIDE DEF bad
<1>3. upto \in 0..Len(p.scripts)
  <2>1. CASE bad = {}
    BY <1>1, <2>1
  <2>2. CASE bad # {}
    <3>1. PICK x \in bad : \A y \in bad : x <= y
      BY <1>1, <1>2, <2>2, Least
    <3>2. Min(bad) \in 1..Len(p.scripts)
      BY <1>2, <3>1 DEF Min
    <3>3. upto = Min(bad) - 1
      BY <2>2
    <3> HIDE DEF upto
    <3> QED
      BY <1>1, <3>2, <3>3
  <2> QED
    BY <2>1, <2>2
<1> HIDE DEF upto
<1>4. Sequence(some)
  <2> DEFINE S == {p.scripts[i] : i \in DOMAIN p.scripts}
  <2>1. p.scripts \in Seq(S)
    BY DEF Sequence
  <2> HIDE DEF S
  <2>2. some \in Seq(S)
    BY <1>1, <1>3, <2>1
  <2>3. Len(some) \in Nat /\ some = [i \in 1..Len(some) |-> some[i]]
    BY <2>2, LenProperties
  <2> HIDE DEF some
  <2> QED
    BY <2>3, SequenceIs
<1> HIDE DEF some
<1>5. Roomy(FoldLeft(Saved, folder, some))
  BY <1>4, AllStayRoomy
<1>6. WrittenBy(c, p, o, folder) \in {folder, FoldLeft(Saved, folder, some)}
  BY DEF WrittenBy, some, upto, bad
<1>7. Merge(c, p, o, folder).folder \in {folder, WrittenBy(c, p, o, folder)}
  BY DEF Merge
<1> QED
  BY <1>5, <1>6, <1>7

\* A script that a merged tool runs is there as it was reviewed, unless it stays
\* and its body was rewritten: the pack's own have been written, and the others
\* lie as they lay.
LEMMA MergedScriptsAreSound ==
  ASSUME NEW folder, Roomy(folder), NEW c, Running(c), NamesIn(c.scripts) \subseteq ScriptNames,
         NEW p, Parcel(p), PackFits(p),
         NEW i \in DOMAIN Merged(c, p).tools, Merged(c, p).tools[i].does = "script"
  PROVE  LET d == Merged(c, p)
             n == d.tools[i].at
         IN Named(d.scripts, n) =>
              (First(d.scripts, n) \in Sound(d, FoldLeft(Saved, folder, p.scripts))
                 <=> n \notin Rewritten(c, p, folder))
<1> DEFINE d == Merged(c, p)
           n == d.tools[i].at
           w == FoldLeft(Saved, folder, p.scripts)
           recs == Records(p)
           it == First(d.scripts, n)
<1> SUFFICES ASSUME Named(d.scripts, n) PROVE it \in Sound(d, w) <=> n \notin Rewritten(c, p, folder)
  OBVIOUS
<1>1. /\ DOMAIN c = Fields /\ ToolList(c.tools) /\ Sequence(c.scripts)
      /\ \A k \in DOMAIN c.scripts : c.scripts[k].lang \in Languages
  BY ConfigFields DEF Running, Configured
<1>2. /\ DOMAIN folder = {"out", "files"} /\ Contained(folder, FALSE)
      /\ \A x \in ScriptNames : \A l \in Languages : <<x, l>> \in DOMAIN folder.files
  BY DEF Roomy
<1>3. /\ ToolList(p.tools) /\ Sequence(p.scripts) /\ Unique(p.scripts)
      /\ \A k \in DOMAIN p.scripts :
           /\ p.scripts[k].lang \in Languages /\ p.scripts[k].source # NoBody
           /\ p.scripts[k].name \in ScriptNames /\ ~TooBig(p.scripts[k].source)
  BY DEF Parcel, PackFits, NamesIn
<1>4. /\ Sequence(recs) /\ Unique(recs) /\ DOMAIN recs = DOMAIN p.scripts
      /\ \A m : Named(recs, m) <=> Named(p.scripts, m)
      /\ \A k \in DOMAIN p.scripts : /\ recs[k].name = p.scripts[k].name /\ recs[k].lang = p.scripts[k].lang
                                     /\ recs[k].sha = p.scripts[k].source
  BY <1>3, RecordsAre
<1>5. d.scripts = PutAll(c.scripts, recs)
  BY <1>1, MergedIs
<1>6. \A k \in DOMAIN p.scripts : At(p.scripts[k]) \in DOMAIN folder.files
  BY <1>2, <1>3 DEF At
<1>7. /\ w.out = folder.out
      /\ \A k \in DOMAIN p.scripts : w.files[At(p.scripts[k])] = p.scripts[k].source
      /\ \A a \in DOMAIN folder.files :
           (\A k \in DOMAIN p.scripts : At(p.scripts[k]) # a) => w.files[a] = folder.files[a]
  BY <1>2, <1>3, <1>6, BodiesWritten
<1>8. \E t \in ToSet(d.tools) : t.does = "script" /\ t.at = n
  BY DEF ToSet
<1>9. n \in Rewritten(c, p, folder) <=>
        n \in NamesIn(c.scripts) /\ ~Named(p.scripts, n) /\ ~Verified(folder, First(c.scripts, n))
  BY <1>8 DEF Rewritten
<1> HIDE DEF d, w, recs
<1>10. Contained(w, FALSE)
  BY <1>2, <1>7 DEF Contained
<1>11. it \in ToSet(d.scripts)
  BY <1>1, <1>4, <1>5, AllPutIn, FirstFound DEF ToSet
<1>12. CASE Named(p.scripts, n)
  <2>1. PICK k \in DOMAIN p.scripts : p.scripts[k].name = n
    BY <1>12 DEF Named
  <2>2. it = recs[k]
    BY <1>1, <1>4, <1>5, <2>1, AllPutIn
  <2>3. it.name = p.scripts[k].name /\ it.sha = p.scripts[k].source /\ At(it) = At(p.scripts[k])
    BY <1>4, <2>2 DEF At
  <2>4. Verified(w, it)
    BY <1>3, <1>7, <1>10, <2>3 DEF Verified, Readable
  <2> QED
    BY <1>9, <1>11, <1>12, <2>4 DEF Sound
<1>13. CASE ~Named(p.scripts, n)
  <2>1. Named(c.scripts, n) /\ it = First(c.scripts, n)
    BY <1>1, <1>4, <1>5, <1>13, AllPutIn
  <2>2. it.name = n /\ it.lang \in Languages
    BY <1>1, <2>1, FirstFound
  <2>3. n \in NamesIn(c.scripts) /\ n \in ScriptNames
    BY <2>1 DEF Named, NamesIn
  <2>4. At(it) \in DOMAIN folder.files /\ \A k \in DOMAIN p.scripts : At(p.scripts[k]) # At(it)
    BY <1>2, <1>13, <2>2, <2>3 DEF At, Named
  <2>5. w.files[At(it)] = folder.files[At(it)]
    BY <1>7, <2>4
  <2>6. Verified(w, it) <=> Verified(folder, it)
    BY <1>2, <1>10, <2>5 DEF Verified, Readable
  <2> QED
    BY <1>9, <1>11, <1>13, <2>1, <2>3, <2>6 DEF Sound
<1> QED
  BY <1>12, <1>13

\* What is valid with its scripts looked for is valid without, and the other
\* way round where they would have been found.
LEMMA ValidWithout ==
  ASSUME NEW d, DOMAIN d = Fields, \A i \in DOMAIN d.tools : d.tools[i].does \in {"proxy", "exec", "script"},
         NEW S, NEW T,
         \A i \in DOMAIN d.tools : d.dir /\ d.tools[i].does = "script" /\ Named(d.scripts, d.tools[i].at)
                                   => First(d.scripts, d.tools[i].at) \in S
  PROVE  Valid([d EXCEPT !.dir = FALSE], T) <=> Valid(d, S)
<1> DEFINE e == [d EXCEPT !.dir = FALSE]
           Agrees(c, t, sound) == CASE t.does = "proxy"  -> ProxyFits(c, t)
                                    [] t.does = "exec"   -> ExecFits(c, t)
                                    [] t.does = "script" -> ScriptFits(c, t, sound)
<1>1. /\ e.bearer = d.bearer /\ e.access = d.access /\ e.scripts = d.scripts /\ e.tools = d.tools
      /\ e.upstreams = d.upstreams /\ e.deadline = d.deadline /\ e.via = d.via /\ e.funnel = d.funnel
      /\ e.seeds = d.seeds /\ e.dir = FALSE
  BY DEF Fields
<1> HIDE DEF e
<1>2. ASSUME NEW i \in DOMAIN d.tools PROVE Agrees(e, d.tools[i], T) <=> Agrees(d, d.tools[i], S)
  <2> DEFINE t == d.tools[i]
  <2>1. ProxyFits(e, t) <=> ProxyFits(d, t)
    BY <1>1 DEF ProxyFits
  <2>2. ExecFits(e, t) <=> ExecFits(d, t)
    BY <1>1 DEF ExecFits
  <2>3. t.does = "script" => (ScriptFits(e, t, T) <=> ScriptFits(d, t, S))
    BY <1>1 DEF ScriptFits
  <2> QED
    BY <2>1, <2>2, <2>3
<1>3. PublishFits(e) <=> PublishFits(d)
  BY <1>1 DEF PublishFits
<1> QED
  BY <1>1, <1>2, <1>3 DEF Valid, e

\* What is valid with its scripts looked for has found them.
LEMMA ValidFinds ==
  ASSUME NEW d, NEW S, Valid(d, S), d.dir,
         NEW i \in DOMAIN d.tools, d.tools[i].does = "script"
  PROVE  First(d.scripts, d.tools[i].at) \in S
<1>1. ScriptFits(d, d.tools[i], S)
  BY DEF Valid
<1> QED
  BY <1>1 DEF ScriptFits

\* Whether what would be merged is valid, with its scripts looked for and
\* without: only those that were rewritten make a difference.
LEMMA RewrittenIsInvalid ==
  ASSUME NEW folder, Roomy(folder), NEW c, Running(c), NamesIn(c.scripts) \subseteq ScriptNames,
         NEW p, Parcel(p), PackFits(p), NEW T
  PROVE  LET d == Merged(c, p)
             w == FoldLeft(Saved, folder, p.scripts)
         IN Valid(d, Sound(d, w)) <=> /\ Valid([d EXCEPT !.dir = FALSE], T)
                                      /\ c.dir => Rewritten(c, p, folder) = {}
<1> DEFINE d == Merged(c, p)
           S == Sound(d, FoldLeft(Saved, folder, p.scripts))
           e == [d EXCEPT !.dir = FALSE]
           Lost == Rewritten(c, p, folder)
<1>1. /\ DOMAIN c = Fields /\ ToolList(c.tools) /\ ToolList(p.tools) /\ Sequence(c.scripts)
      /\ Sequence(p.scripts) /\ Unique(p.scripts)
  BY ConfigFields DEF Running, Configured, Parcel, PackFits
<1>2. /\ DOMAIN d = Fields /\ d.dir = c.dir /\ d.tools = PutAll(c.tools, p.tools)
      /\ d.scripts = PutAll(c.scripts, Records(p))
  BY <1>1, MergedIs DEF Fields
<1>3. \A i \in DOMAIN d.tools : d.tools[i].does = "script" /\ Named(d.scripts, d.tools[i].at)
                                => (First(d.scripts, d.tools[i].at) \in S <=> d.tools[i].at \notin Lost)
  BY MergedScriptsAreSound
<1>4. ASSUME NEW n \in Lost
      PROVE  \E i \in DOMAIN d.tools : /\ d.tools[i].does = "script" /\ d.tools[i].at = n
                                       /\ Named(d.scripts, n)
  <2>1. n \in NamesIn(c.scripts) /\ \E t \in ToSet(d.tools) : t.does = "script" /\ t.at = n
    BY DEF Rewritten
  <2>2. PICK i \in DOMAIN d.tools : d.tools[i].does = "script" /\ d.tools[i].at = n
    BY <2>1 DEF ToSet
  <2> HIDE DEF d
  <2>3. Sequence(Records(p))
    BY <1>1, RecordsAre
  <2>4. Named(c.scripts, n)
    BY <2>1 DEF NamesIn, Named
  <2>5. Named(d.scripts, n)
    BY <1>1, <1>2, <2>3, <2>4, AllPutIn
  <2> QED
    BY <2>2, <2>5
<1> HIDE DEF d, S, Lost
<1>5. \A i \in DOMAIN d.tools : d.tools[i].does \in {"proxy", "exec", "script"}
  BY <1>1, <1>2, AllPutIn DEF ToolList
<1>6. ASSUME Valid(d, S) PROVE Valid(e, T) /\ (c.dir => Lost = {})
  <2>1. \A i \in DOMAIN d.tools : d.dir /\ d.tools[i].does = "script" => First(d.scripts, d.tools[i].at) \in S
    BY <1>6, ValidFinds
  <2>2. Valid(e, T)
    BY <1>2, <1>5, <1>6, <2>1, ValidWithout
  <2> QED
    BY <1>2, <1>3, <1>4, <2>1, <2>2
<1>7. ASSUME Valid(e, T), c.dir => Lost = {} PROVE Valid(d, S)
  <2>1. \A i \in DOMAIN d.tools : d.dir /\ d.tools[i].does = "script" /\ Named(d.scripts, d.tools[i].at)
                                  => First(d.scripts, d.tools[i].at) \in S
    BY <1>2, <1>3, <1>7
  <2> QED
    BY <1>2, <1>5, <1>7, <2>1, ValidWithout
<1> QED
  BY <1>6, <1>7 DEF d, S, Lost

\* Every name a merge changes is one that the pack has.
LEMMA ChangedAreTheirs ==
  ASSUME NEW old, NEW new, Sequence(old), Sequence(new)
  PROVE  \A n \in Changed(old, PutAll(old, new)) : Named(new, n)
<1> SUFFICES ASSUME NEW n \in Changed(old, PutAll(old, new)), ~Named(new, n) PROVE FALSE
  OBVIOUS
<1> DEFINE all == PutAll(old, new)
<1>1. Named(all, n) /\ (Named(old, n) => First(old, n) # First(all, n))
  BY DEF Changed, Named, NamesIn
<1> HIDE DEF all
<1>2. \A m : Named(all, m) <=> Named(old, m) \/ Named(new, m)
  BY AllPutIn DEF all
<1>3. \A m : Named(old, m) /\ ~Named(new, m) => First(all, m) = First(old, m)
  BY AllPutIn DEF all
<1> QED
  BY <1>1, <1>2, <1>3

\* Every name of the pack is told.
LEMMA TheirsAreTold ==
  ASSUME NEW c, NEW p, NEW n
  PROVE  LET told == Applied(c, p).added \cup Applied(c, p).replaced
         IN /\ Named(p.upstreams, n) => <<"upstream", n>> \in told
            /\ Named(p.tools, n) => <<"tool", n>> \in told
            /\ Named(p.scripts, n) => <<"script", n>> \in told
<1> DEFINE old == Collisions(c, p)
           all == {<<"upstream", x>> : x \in NamesIn(p.upstreams)} \cup {<<"tool", x>> : x \in NamesIn(p.tools)}
                  \cup {<<"script", x>> : x \in NamesIn(p.scripts)}
           seeds == {<<s.identity, s.tool>> : s \in ToSet(p.seeds)} \ {<<s.identity, s.tool>> : s \in ToSet(c.seeds)}
           twice == {<<"upstream", x>> : x \in Again(p.upstreams)} \cup {<<"tool", x>> : x \in Again(p.tools)}
<1>1. Applied(c, p) = [added |-> (all \ old) \cup seeds, replaced |-> old \cup twice]
  BY DEF Applied
<1>2. /\ Named(p.upstreams, n) => <<"upstream", n>> \in all
      /\ Named(p.tools, n) => <<"tool", n>> \in all
      /\ Named(p.scripts, n) => <<"script", n>> \in all
  BY DEF Named, NamesIn
<1> HIDE DEF old, all, seeds, twice
<1>3. Applied(c, p).added = (all \ old) \cup seeds /\ Applied(c, p).replaced = old \cup twice
  BY <1>1
<1> QED
  BY <1>2, <1>3

\* A plan says what importing says, but for the bodies that were rewritten; and
\* names all that the import changes.
LEMMA PlanSays ==
  ASSUME TradeAssumption, NEW c \in Runnable, NEW folder, Roomy(folder),
         NEW p, Parcel(p), PackFits(p), NEW again \in BOOLEAN
  PROVE  LET q == Plan(c, p, again, folder)
             m == Merge(c, p, All(again), folder)
         IN /\ m.says = IF q.says = "ok" /\ c.dir /\ Rewritten(c, p, folder) # {} THEN "invalid" ELSE q.says
            /\ q.applied = Applied(c, p)
            /\ m.says = "ok" => m.cfg = Merged(c, p) /\ q.cfg = [m.cfg EXCEPT !.dir = FALSE]
<1> DEFINE o == [replace |-> again, scripts |-> TRUE, dangerous |-> TRUE, write |-> FALSE]
           all == All(again)
           b == PlanCopy(c)
           d == Merged(c, p)
           e == Merged(b, p)
           w == WrittenBy(c, p, all, folder)
           v == WrittenBy(b, p, o, folder)
           q == Merge(b, p, o, folder)
           m == Merge(c, p, all, folder)
           lost == c.dir /\ Rewritten(c, p, folder) # {}
<1>1. DOMAIN c = Fields /\ Running(c) /\ NamesIn(c.scripts) \subseteq ScriptNames
  BY TradeAssumption, ConfigFields DEF Runnable, Configured, Running, Valid
<1>2. Contained(folder, FALSE)
  BY DEF Roomy
<1>3. Sequence(p.scripts)
  BY DEF Parcel
<1>4. b.scripts = c.scripts /\ b.upstreams = c.upstreams /\ b.tools = c.tools /\ b.seeds = c.seeds
  BY <1>1, PlannedIs DEF Fields
<1>5. e = [d EXCEPT !.dir = FALSE]
  BY <1>1, PlannedIs
<1>6. /\ o.replace = again /\ o.scripts = TRUE /\ o.dangerous = TRUE /\ o.write = FALSE
      /\ all.replace = again /\ all.scripts = TRUE /\ all.dangerous = TRUE
      /\ all.write = TRUE
  BY DEF All
<1> HIDE DEF o, all, b
<1>7. NotTaken(b, p, o, folder) = NotTaken(c, p, all, folder)
  <2>1. \A i \in DOMAIN p.scripts : Savable(folder, p.scripts[i])
    BY <1>2 DEF PackFits, NamesIn, Savable
  <2> QED
    BY <1>4, <1>6, <2>1 DEF NotTaken
<1>8. Applied(b, p) = Applied(c, p)
  BY <1>4 DEF Applied, Collisions
<1>9. Clash(b.upstreams, p.upstreams) = Clash(c.upstreams, p.upstreams) /\ Clash(b.tools, p.tools) = Clash(c.tools, p.tools)
  BY <1>4
<1>10. ASSUME NotTaken(c, p, all, folder) = {} PROVE w = FoldLeft(Saved, folder, p.scripts)
  <2>1. SubSeq(p.scripts, 1, Len(p.scripts)) = p.scripts
    BY <1>3, SubSeqProperties, LenProperties DEF Sequence
  <2> QED
    BY <1>6, <1>10, <2>1 DEF WrittenBy
<1>11. ASSUME NotTaken(c, p, all, folder) = {}
       PROVE  Valid(d, Sound(d, w)) <=> Valid(e, Sound(e, v)) /\ ~lost
  <2> HIDE DEF v, w
  <2>1. Valid(d, Sound(d, FoldLeft(Saved, folder, p.scripts))) <=>
          Valid([d EXCEPT !.dir = FALSE], Sound(e, v)) /\ ~lost
    BY <1>1, RewrittenIsInvalid
  <2> HIDE DEF d, e
  <2> QED
    BY <1>5, <1>10, <1>11, <2>1
<1>12. m.says = IF q.says = "ok" /\ lost THEN "invalid" ELSE q.says
  <2> DEFINE says(not, up, tool, valid) == IF not # {} THEN "script" ELSE IF up /\ ~again THEN "upstream"
                                           ELSE IF tool /\ ~again THEN "tool" ELSE IF ~valid THEN "invalid" ELSE "ok"
  <2>1. m.says = says(NotTaken(c, p, all, folder), Clash(c.upstreams, p.upstreams),
                      Clash(c.tools, p.tools), Valid(d, Sound(d, w)))
    BY <1>6, MergeSays
  <2>2. q.says = says(NotTaken(b, p, o, folder), Clash(b.upstreams, p.upstreams),
                      Clash(b.tools, p.tools), Valid(e, Sound(e, v)))
    BY <1>6, MergeSays
  <2> HIDE DEF m, q, d, e, v, w, lost
  <2> QED
    BY <1>7, <1>9, <1>11, <2>1, <2>2
<1>13. q.applied = Applied(c, p)
  BY <1>6, <1>8, MergeSays
<1>14. m.says = "ok" => q.says = "ok"
  <2> HIDE DEF m, q, lost
  <2> QED
    BY <1>12
<1>15. m.says = "ok" => q.cfg = e /\ m.cfg = d
  BY <1>14, MergedIfOk
<1>16. Plan(c, p, again, folder) = q
  BY DEF Plan, o, b
<1> HIDE DEF q, m, d, e
<1> QED
  BY <1>5, <1>12, <1>13, <1>15, <1>16 DEF m, all, d

\* Pointing at a file leaves a pack that is one, and still fits.
LEMMA PointedFits ==
  ASSUME NEW p, Parcel(p), PackFits(p), NEW n, NEW missing, NEW path,
         First(p.tools, n).does = "exec"
  PROVE  Parcel(ResolveFile(p, n, missing, path)) /\ PackFits(ResolveFile(p, n, missing, path))
<1> DEFINE q == ResolveFile(p, n, missing, path)
           ts == [i \in DOMAIN p.tools |->
                   IF p.tools[i].name = n /\ IsFirst(p.tools, i)
                   THEN PointedAt(p.tools[i], missing, path) ELSE p.tools[i]]
<1>1. q = [p EXCEPT !.tools = ts]
  BY DEF ResolveFile
<1>2. Sequence(ts) /\ DOMAIN ts = DOMAIN p.tools
  BY SequenceIs DEF Parcel, ToolList
<1>3. ASSUME NEW i \in DOMAIN p.tools
      PROVE  /\ DOMAIN ts[i] = ToolFields /\ ts[i].does = p.tools[i].does
             /\ ts[i].at = p.tools[i].at \/ ts[i].does = "exec"
  <2> DEFINE t == p.tools[i]
  <2>1. DOMAIN t = ToolFields
    BY DEF Parcel, ToolList
  <2>2. CASE t.name = n /\ IsFirst(p.tools, i)
    <3>1. t.does = "exec"
      BY <2>2, FoundFirst DEF Parcel, ToolList
    <3>2. ts[i] = PointedAt(t, missing, path)
      BY <2>2
    <3>3. DOMAIN PointedAt(t, missing, path) = ToolFields /\ PointedAt(t, missing, path).does = t.does
      BY <2>1 DEF PointedAt, ToolFields
    <3> HIDE DEF ts
    <3> QED
      BY <3>1, <3>2, <3>3
  <2>3. CASE ~(t.name = n /\ IsFirst(p.tools, i))
    BY <2>1, <2>3
  <2> QED
    BY <2>2, <2>3
<1> HIDE DEF q, ts
<1>4. /\ DOMAIN q = DOMAIN p /\ q.tools = ts /\ q.name = p.name /\ q.upstreams = p.upstreams
      /\ q.scripts = p.scripts
  BY <1>1 DEF Parcel
<1>5. Parcel(q)
  BY <1>2, <1>3, <1>4 DEF Parcel, ToolList
<1>6. \A i \in DOMAIN q.tools : /\ q.tools[i].does = "proxy"  => Named(q.upstreams, q.tools[i].at)
                                /\ q.tools[i].does = "script" => Named(q.scripts, q.tools[i].at)
  BY <1>2, <1>3, <1>4 DEF PackFits
<1>7. PackFits(q)
  <2>1. /\ p.name # Blank /\ Unique(p.scripts) /\ NamesIn(p.scripts) \subseteq ScriptNames
        /\ \A i \in DOMAIN p.upstreams :
             p.upstreams[i].kind = "http" /\ p.upstreams[i].token # Blank => p.upstreams[i].env # Blank
        /\ \A i \in DOMAIN p.scripts : /\ p.scripts[i].sha \in {<<>>, p.scripts[i].source}
                                       /\ ~TooBig(p.scripts[i].source)
    BY DEF PackFits
  <2>2. /\ q.name # Blank /\ Unique(q.scripts) /\ NamesIn(q.scripts) \subseteq ScriptNames
        /\ \A i \in DOMAIN q.upstreams :
             q.upstreams[i].kind = "http" /\ q.upstreams[i].token # Blank => q.upstreams[i].env # Blank
        /\ \A i \in DOMAIN q.scripts : /\ q.scripts[i].sha \in {<<>>, q.scripts[i].source}
                                       /\ ~TooBig(q.scripts[i].source)
    BY <1>4, <2>1
  <2> QED
    BY <1>6, <2>2 DEF PackFits
<1> QED
  BY <1>5, <1>7 DEF q

\* What the window, an import and an export start from.
TradeInv ==
  /\ kind \in {"window", "import", "export"} => in.cfg \in Runnable /\ Roomy(in.folder)
  /\ kind = "window" => DOMAIN in = {"cfg", "folder"}
  /\ kind = "import" => /\ DOMAIN in = {"cfg", "folder", "replace", "pack"}
                        /\ in.replace \in BOOLEAN /\ Parcel(in.pack) /\ PackFits(in.pack)
  /\ kind = "export" => in.chosen \in Selections(in.cfg) /\ Exportable(in.cfg, in.chosen, in.folder)

\* A window whose folder alone changes.
LEMMA WindowMoves ==
  ASSUME TradeInv, kind = "window", NEW folder, Roomy(folder),
         Picked("window", [in EXCEPT !.folder = folder])
  PROVE  TradeInv'
<1>1. kind' = "window" /\ in' = [in EXCEPT !.folder = folder] /\ DOMAIN in = {"cfg", "folder"}
  BY DEF Picked, TradeInv
<1>2. DOMAIN in' = {"cfg", "folder"} /\ in'.cfg = in.cfg /\ in'.folder = folder
  BY <1>1
<1> QED
  BY <1>1, <1>2 DEF TradeInv

\* What runs was launched as it is and has room, whatever is saved, deleted or
\* imported; and what is shown stays a pack that was read, whatever is pointed at.
LEMMA TradeInvariance == TradeSpec => []TradeInv
<1>1. FormsInit => TradeInv
  BY DEF FormsInit, TradeInv
<1>2. ASSUME TradeInv, [TradeNext]_<<kind, in>> PROVE TradeInv'
  <2>1. CASE Open
    <3>1. PICK c \in Runnable : kind' = "window" /\ in' = [cfg |-> c, folder |-> Folder]
      BY <2>1 DEF Open, Picked
    <3>2. Roomy(Folder)
      BY TradeAssumption
    <3> QED
      BY <3>1, <3>2 DEF TradeInv
  <2>2. CASE SaveScript
    <3>1. kind = "window" /\ Roomy(in.folder)
      BY <1>2, <2>2 DEF SaveScript, TradeInv
    <3>2. PICK left, s : /\ left = in.folder \/ left = Deleted(in.folder, First(in.cfg.scripts, s.name))
                         /\ Picked("window", [in EXCEPT !.folder = IF Savable(left, s) THEN Saved(left, s) ELSE left])
      BY <2>2 DEF SaveScript
    <3>3. Roomy(left)
      BY <3>1, <3>2, DeletedStaysRoomy
    <3> DEFINE f == IF Savable(left, s) THEN Saved(left, s) ELSE left
    <3>4. Roomy(f)
      BY <3>3, SavedStaysRoomy
    <3> HIDE DEF f
    <3> QED
      BY <1>2, <3>1, <3>2, <3>4, WindowMoves DEF f
  <2>3. CASE DeleteScript
    <3>1. kind = "window" /\ Roomy(in.folder) /\ DOMAIN in = {"cfg", "folder"}
      BY <1>2, <2>3 DEF DeleteScript, TradeInv
    <3>2. PICK d : Picked("window", [in EXCEPT !.folder = Deleted(in.folder, d)])
      BY <2>3, <3>1 DEF DeleteScript
    <3>3. Roomy(Deleted(in.folder, d))
      BY <3>1, DeletedStaysRoomy
    <3> QED
      BY <1>2, <3>1, <3>2, <3>3, WindowMoves
  <2>4. CASE Inspect
    <3>1. PICK p \in Parcels, again \in BOOLEAN :
                PackFits(p) /\ Picked("import", [cfg |-> in.cfg, folder |-> in.folder,
                                                 replace |-> again, pack |-> p])
      BY <2>4 DEF Inspect
    <3>2. in.cfg \in Runnable /\ Roomy(in.folder) /\ Parcel(p)
      BY <1>2, <2>4, TradeAssumption DEF Inspect, TradeInv
    <3> QED
      BY <3>1, <3>2 DEF Picked, TradeInv
  <2>5. CASE PointAt
    <3>1. PICK n, missing, path :
                /\ First(in.pack.tools, n).does = "exec"
                /\ Picked("import", [in EXCEPT !.pack = ResolveFile(in.pack, n, missing, path)])
      BY <2>5 DEF PointAt
    <3> DEFINE p == ResolveFile(in.pack, n, missing, path)
    <3>2. /\ DOMAIN in = {"cfg", "folder", "replace", "pack"} /\ in.cfg \in Runnable /\ Roomy(in.folder)
          /\ in.replace \in BOOLEAN /\ Parcel(in.pack) /\ PackFits(in.pack)
      BY <1>2, <2>5 DEF TradeInv, PointAt
    <3>3. Parcel(p) /\ PackFits(p)
      BY <3>1, <3>2, PointedFits
    <3>4. kind' = "import" /\ in' = [in EXCEPT !.pack = p]
      BY <3>1 DEF Picked
    <3> HIDE DEF p
    <3>5. /\ DOMAIN in' = DOMAIN in /\ in'.cfg = in.cfg /\ in'.folder = in.folder
          /\ in'.replace = in.replace /\ in'.pack = p
      BY <3>2, <3>4
    <3> QED
      BY <3>2, <3>3, <3>4, <3>5 DEF TradeInv
  <2>6. CASE Apply
    <3>1. in.cfg \in Runnable /\ Roomy(in.folder) /\ Sequence(in.pack.scripts)
      BY <1>2, <2>6 DEF Apply, TradeInv, Parcel
    <3>2. PICK o : Picked("window", [cfg |-> in.cfg, folder |-> Merge(in.cfg, in.pack, o, in.folder).folder])
      BY <2>6 DEF Apply
    <3> DEFINE f == Merge(in.cfg, in.pack, o, in.folder).folder
    <3>3. Roomy(f)
      BY <3>1, MergeLeavesRoom
    <3>4. kind' = "window" /\ in' = [cfg |-> in.cfg, folder |-> f]
      BY <3>2 DEF Picked
    <3> HIDE DEF f
    <3> QED
      BY <3>1, <3>3, <3>4 DEF TradeInv
  <2>7. CASE Export
    <3>1. in.cfg \in Runnable /\ Roomy(in.folder)
      BY <1>2, <2>7 DEF Export, TradeInv
    <3>2. PICK t \in Selections(in.cfg) :
            /\ Exportable(in.cfg, t, in.folder)
            /\ kind' = "export" /\ in' = [cfg |-> in.cfg, folder |-> in.folder, chosen |-> t]
      BY <2>7 DEF Export, Picked
    <3>3. in'.cfg = in.cfg /\ in'.folder = in.folder /\ in'.chosen = t
      BY <3>2
    <3> QED
      BY <3>1, <3>2, <3>3 DEF TradeInv
  <2>8. CASE UNCHANGED <<kind, in>>
    BY <1>2, <2>8 DEF TradeInv
  <2> QED
    BY <1>2, <2>1, <2>2, <2>3, <2>4, <2>5, <2>6, <2>7, <2>8 DEF TradeNext
<1> QED
  BY <1>1, <1>2, PTL DEF TradeSpec

\* Whatever was launched and whatever was saved, deleted or imported since,
\* whatever pack fits and wherever its files are pointed at: what is shown of it
\* foretells what importing it does, but that an import is refused as invalid
\* for the body of a script that stays and was rewritten; all that changes was
\* told; and a dangerous script takes the second consent
\* (PlanForetellsImport; pack.rs, plan and merge).
THEOREM PlansAreImports == TradeSpec => []PlanForetellsImport
<1>1. ASSUME TradeInv PROVE PlanForetellsImport
  <2> SUFFICES ASSUME kind = "import" PROVE PlanForetellsImport
    BY DEF PlanForetellsImport
  <2> DEFINE c == in.cfg
             p == in.pack
             again == in.replace
             folder == in.folder
             q == Plan(c, p, again, folder)
             m == Merge(c, p, All(again), folder)
             told == q.applied.added \cup q.applied.replaced
             o(s) == [All(again) EXCEPT !.scripts = s, !.dangerous = FALSE]
             no(s) == Merge(c, p, o(s), folder)
  <2>1. c \in Runnable /\ Roomy(folder) /\ again \in BOOLEAN /\ Parcel(p) /\ PackFits(p)
    BY <1>1 DEF TradeInv
  <2>2. \A s : o(s).dangerous = FALSE
    BY DEF All
  <2> HIDE DEF c, p, again, folder, o
  <2>3. /\ m.says = IF q.says = "ok" /\ c.dir /\ Rewritten(c, p, folder) # {} THEN "invalid" ELSE q.says
        /\ q.applied = Applied(c, p)
        /\ m.says = "ok" => m.cfg = Merged(c, p) /\ q.cfg = [m.cfg EXCEPT !.dir = FALSE]
    BY <2>1, TradeAssumption, PlanSays
  <2>4. ASSUME Dangerous(p) # {}, NEW s PROVE no(s).says # "ok" /\ no(s).folder = folder
    <3> DEFINE r == Merge(c, p, o(s), folder)
    <3>1. r.says # "ok"
      BY <2>2, <2>4 DEF Merge
    <3>2. r.folder = folder
      BY <2>2, <2>4 DEF Merge
    <3> QED
      BY <3>1, <3>2
  <2> HIDE DEF q, m, no
  <2>5. /\ DOMAIN c = Fields /\ Sequence(c.upstreams) /\ Sequence(c.tools) /\ Sequence(c.scripts)
        /\ Sequence(p.upstreams) /\ Sequence(p.tools) /\ Sequence(Records(p))
        /\ \A n : Named(Records(p), n) <=> Named(p.scripts, n)
    BY <2>1, TradeAssumption, ConfigFields, RecordsAre
    DEF Runnable, Running, Configured, Parcel, PackFits, ToolList
  <2>6. ASSUME m.says = "ok"
        PROVE  /\ {<<"upstream", n>> : n \in Changed(c.upstreams, m.cfg.upstreams)} \subseteq told
               /\ {<<"tool", n>> : n \in Changed(c.tools, m.cfg.tools)} \subseteq told
               /\ {<<"script", n>> : n \in Changed(c.scripts, m.cfg.scripts)} \subseteq told
    <3>1. /\ m.cfg.upstreams = PutAll(c.upstreams, p.upstreams) /\ m.cfg.tools = PutAll(c.tools, p.tools)
          /\ m.cfg.scripts = PutAll(c.scripts, Records(p))
      BY <2>3, <2>5, <2>6, MergedIs
    <3>2. /\ \A n \in Changed(c.upstreams, m.cfg.upstreams) : Named(p.upstreams, n)
          /\ \A n \in Changed(c.tools, m.cfg.tools) : Named(p.tools, n)
          /\ \A n \in Changed(c.scripts, m.cfg.scripts) : Named(p.scripts, n)
      BY <2>5, <3>1, ChangedAreTheirs
    <3>3. told = Applied(c, p).added \cup Applied(c, p).replaced
      BY <2>3
    <3> HIDE DEF told
    <3>4. \A n : /\ Named(p.upstreams, n) => <<"upstream", n>> \in told
                 /\ Named(p.tools, n) => <<"tool", n>> \in told
                 /\ Named(p.scripts, n) => <<"script", n>> \in told
      BY <3>3, TheirsAreTold
    <3> QED
      BY <3>2, <3>4
  <2> QED
    BY <2>3, <2>4, <2>6 DEF PlanForetellsImport, c, p, again, folder, q, m, o, no
<1> QED
  BY <1>1, TradeInvariance, PTL

\* What is kept is kept one after the other.
Grow(seq, places, kept, i) == IF i \in places THEN Append(kept, seq[i]) ELSE kept

KeptSteps(f, seq, places) == /\ f[0] = <<>> /\ f[Len(seq)] = Kept(seq, places)
                             /\ \A k \in 1..Len(seq) : f[k] = Grow(seq, places, f[k - 1], k)

LEMMA KeptInSteps ==
  ASSUME NEW seq, Sequence(seq), NEW places
  PROVE  \E f : KeptSteps(f, seq, places)
<1> DEFINE ids == [i \in DOMAIN seq |-> i]
           next(f, s) == IF s = {} THEN <<>> ELSE LET x == Max(s) IN Grow(seq, places, f[s \ {x}], ids[x])
           step(f, n) == [s \in SUBSET (1..n) |-> next(f, s)]
           upTo == CHOOSE f : f = step(f, Len(seq))
           steps == [k \in 0..Len(seq) |-> upTo[1..k]]
<1>1. DOMAIN seq = 1..Len(seq) /\ Len(seq) \in Nat
  BY LenProperties DEF Sequence
<1>2. Kept(seq, places) = upTo[1..Len(seq)]
  <2>1. DOMAIN ids = 1..Len(seq)
    BY <1>1
  <2>2. Kept(seq, places) = (CHOOSE f : f = [s \in SUBSET DOMAIN ids |-> next(f, s)])[DOMAIN ids]
    BY DEF Kept, FoldLeftDomain, FoldLeft, MapThenFoldSet, Grow
  <2> HIDE DEF ids
  <2> QED
    BY <2>1, <2>2
<1>3. \A k \in 1..Len(seq) : ids[k] = k
  BY <1>1
<1> HIDE DEF ids
<1>4. \E f : f = step(f, 0)
  <2> DEFINE g == [s \in SUBSET (1..0) |-> <<>>]
  <2>1. g = step(g, 0)
    OBVIOUS
  <2> QED
    BY <2>1
<1>5. ASSUME NEW n \in Nat, \E f : f = step(f, n) PROVE \E f : f = step(f, n + 1)
  <2>1. PICK f : f = step(f, n)
    BY <1>5
  <2> DEFINE g == [s \in SUBSET (1..(n + 1)) |-> IF n + 1 \in s THEN Grow(seq, places, f[s \ {n + 1}], ids[n + 1]) ELSE f[s]]
  <2>2. ASSUME NEW s \in SUBSET (1..(n + 1)), n + 1 \in s PROVE g[s] = next(g, s)
    <3>1. s \ {n + 1} \in SUBSET (1..(n + 1)) /\ Max(s) = n + 1
      BY <2>2, LastOf
    <3>2. g[s \ {n + 1}] = f[s \ {n + 1}]
      BY <3>1
    <3>3. g[s] = Grow(seq, places, f[s \ {n + 1}], ids[n + 1])
      BY <2>2
    <3> HIDE DEF g
    <3> QED
      BY <2>2, <3>1, <3>2, <3>3
  <2>3. ASSUME NEW s \in SUBSET (1..(n + 1)), n + 1 \notin s PROVE g[s] = next(g, s)
    <3>1. s \in SUBSET (1..n)
      BY <2>3
    <3>2. f[s] = next(f, s)
      BY <2>1, <3>1
    <3>3. \A x : g[s \ {x}] = f[s \ {x}]
      BY <2>3
    <3>4. g[s] = f[s]
      BY <2>3
    <3> HIDE DEF g
    <3> QED
      BY <3>2, <3>3, <3>4
  <2>4. g = step(g, n + 1)
    <3>1. \A s \in SUBSET (1..(n + 1)) : g[s] = next(g, s)
      BY <2>2, <2>3
    <3> DEFINE G == [s \in SUBSET (1..(n + 1)) |-> g[s]]
    <3>2. g = G
      OBVIOUS
    <3> HIDE DEF g, next
    <3> QED
      BY <3>1, <3>2
  <2> QED
    BY <2>4
<1>6. \A n \in Nat : \E f : f = step(f, n)
  <2> DEFINE S == {n \in Nat : \E f : f = step(f, n)}
  <2> HIDE DEF step
  <2>1. 0 \in S /\ \A n \in Nat : n \in S => n + 1 \in S
    BY <1>4, <1>5
  <2>2. \A n \in Nat : n \in S
    <3> HIDE DEF S
    <3> QED
      BY <2>1, Upwards
  <2> QED
    BY <2>2
<1>7. upTo = step(upTo, Len(seq))
  <2> HIDE DEF step
  <2> QED
    BY <1>1, <1>6
<1> HIDE DEF upTo
<1>8. \A s \in SUBSET (1..Len(seq)) : upTo[s] = next(upTo, s)
  BY <1>7
<1>9. steps[0] = <<>>
  <2>1. 1..0 \in SUBSET (1..Len(seq)) /\ 1..0 = {}
    BY <1>1
  <2>2. upTo[1..0] = <<>>
    BY <1>8, <2>1
  <2> QED
    BY <1>1, <2>2
<1>10. ASSUME NEW k \in 1..Len(seq) PROVE steps[k] = Grow(seq, places, steps[k - 1], k)
  <2>1. k \in Nat /\ k \in 1..k /\ 1..k \in SUBSET (1..Len(seq))
    BY <1>1
  <2>2. (1..k) \ {k} = 1..(k - 1)
    <3> SUFFICES ASSUME NEW i PROVE i \in (1..k) \ {k} <=> i \in 1..(k - 1)
      OBVIOUS
    <3> QED
      BY <2>1
  <2>3. Max(1..k) = k
    BY <2>1, LastOf
  <2>4. upTo[1..k] = Grow(seq, places, upTo[1..(k - 1)], k)
    <3> HIDE DEF steps
    <3>1. upTo[1..k] = next(upTo, 1..k)
      BY <1>8, <2>1
    <3> QED
      BY <1>3, <2>1, <2>2, <2>3, <3>1
  <2> QED
    BY <1>1, <2>4
<1> QED
  <2>1. steps[Len(seq)] = Kept(seq, places)
    BY <1>1, <1>2
  <2> QED
    BY <1>9, <1>10, <2>1 DEF KeptSteps

\* What is kept is what stood there, and all of it, and no name comes to stand
\* twice.
LEMMA KeptIs ==
  ASSUME NEW seq, Sequence(seq), NEW places
  PROVE  LET all == Kept(seq, places)
         IN /\ Sequence(all)
            /\ \A j \in DOMAIN all : \E i \in DOMAIN seq : i \in places /\ all[j] = seq[i]
            /\ \A i \in DOMAIN seq : i \in places => \E j \in DOMAIN all : all[j] = seq[i]
            /\ Unique(seq) => Unique(all)
<1> DEFINE Kept1(s, k) ==
             /\ Sequence(s)
             /\ \A j \in DOMAIN s : \E i \in 1..k : i \in places /\ s[j] = seq[i]
             /\ \A i \in 1..k : i \in places => \E j \in DOMAIN s : s[j] = seq[i]
             /\ Unique(seq) => Unique(s)
<1>1. DOMAIN seq = 1..Len(seq) /\ Len(seq) \in Nat
  BY LenProperties DEF Sequence
<1>2. PICK f : KeptSteps(f, seq, places)
  BY KeptInSteps
<1>3. Kept1(f[0], 0)
  <2>1. f[0] = <<>> /\ DOMAIN <<>> = {} /\ Sequence(<<>>) /\ Unique(<<>>)
    BY <1>2 DEF KeptSteps, Sequence, Unique
  <2> QED
    BY <2>1
<1>4. ASSUME NEW k \in 0..(Len(seq) - 1), Kept1(f[k], k) PROVE Kept1(f[k + 1], k + 1)
  <2> DEFINE s == f[k]
             t == f[k + 1]
             m == k + 1
  <2>1. /\ m \in 1..Len(seq) /\ m - 1 = k /\ m \notin 1..k
        /\ \A j : j \in 1..m <=> j \in 1..k \/ j = m
    BY <1>1
  <2>2. t = IF m \in places THEN Append(s, seq[m]) ELSE s
    BY <1>2, <2>1 DEF KeptSteps, Grow
  <2>3. Kept1(s, k)
    BY <1>4
  <2> HIDE DEF s, t, m
  <2>4. CASE m \notin places
    BY <2>1, <2>2, <2>3, <2>4 DEF m, t
  <2>5. CASE m \in places
    <3>1. /\ Sequence(t) /\ Len(s) \in Nat /\ DOMAIN s = 1..Len(s) /\ DOMAIN t = 1..(Len(s) + 1)
          /\ \A j \in DOMAIN s : t[j] = s[j]
          /\ t[Len(s) + 1] = seq[m]
      <4> DEFINE S == {s[i] : i \in DOMAIN s} \cup {seq[m]}
      <4>1. s \in Seq(S) /\ DOMAIN s = 1..Len(s) /\ Len(s) \in Nat
        BY <2>3, LenProperties, SeqDef, SequenceIs DEF Sequence
      <4>2. /\ t \in Seq(S) /\ Len(t) = Len(s) + 1 /\ t[Len(s) + 1] = seq[m]
            /\ \A i \in 1..Len(s) : t[i] = s[i]
        BY <2>2, <2>5, <4>1, AppendProperties
      <4> HIDE DEF S
      <4>3. t = [i \in 1..(Len(s) + 1) |-> t[i]]
        BY <4>2, LenProperties
      <4>4. Sequence(t)
        BY <4>1, <4>3, SequenceIs
      <4> QED
        BY <4>1, <4>2, <4>4, LenProperties
    <3>2. \A j \in DOMAIN t : j \in DOMAIN s \/ j = Len(s) + 1
      BY <3>1
    <3>3. Len(s) + 1 \in DOMAIN t /\ \A j \in DOMAIN s : j \in DOMAIN t
      BY <3>1
    <3>4. \A j \in DOMAIN t : \E i \in 1..m : i \in places /\ t[j] = seq[i]
      <4>1. ASSUME NEW j \in DOMAIN s PROVE \E i \in 1..m : i \in places /\ t[j] = seq[i]
        <5>1. PICK i \in 1..k : i \in places /\ s[j] = seq[i]
          BY <2>3
        <5>2. i \in 1..m /\ t[j] = seq[i]
          BY <2>1, <3>1, <5>1
        <5> QED
          BY <5>1, <5>2
      <4>2. m \in 1..m /\ m \in places /\ t[Len(s) + 1] = seq[m]
        BY <2>1, <2>5, <3>1
      <4> QED
        BY <3>2, <4>1, <4>2
    <3>5. \A i \in 1..m : i \in places => \E j \in DOMAIN t : t[j] = seq[i]
      BY <2>1, <2>3, <3>1, <3>3
    <3>6. Unique(seq) => Unique(t)
      <4>1. ASSUME Unique(seq), NEW j \in DOMAIN s PROVE s[j].name # seq[m].name
        BY <1>1, <2>1, <2>3, <4>1 DEF Unique
      <4>2. Unique(seq) => Unique(s)
        BY <2>3
      <4> QED
        BY <3>1, <3>2, <4>1, <4>2 DEF Unique
    <3> QED
      BY <3>1, <3>4, <3>5, <3>6 DEF m, t
  <2> QED
    BY <2>4, <2>5
<1>5. Kept1(f[Len(seq)], Len(seq))
  <2> DEFINE S == {k \in Nat : k <= Len(seq) => Kept1(f[k], k)}
  <2> HIDE DEF Kept1
  <2>1. 0 \in S
    BY <1>3
  <2>2. ASSUME NEW k \in Nat, k \in S PROVE k + 1 \in S
    <3>1. k + 1 <= Len(seq) => k \in 0..(Len(seq) - 1) /\ k <= Len(seq)
      BY <1>1
    <3> QED
      BY <1>4, <2>2, <3>1
  <2>3. \A k \in Nat : k \in S
    <3> HIDE DEF S
    <3> QED
      BY <2>1, <2>2, Upwards
  <2> QED
    BY <1>1, <2>3
<1> QED
  BY <1>1, <1>2, <1>5 DEF KeptSteps

\* Of a sequence in which no name stands twice, those of some names are kept,
\* each as it is found.
LEMMA KeptNamesIs ==
  ASSUME NEW seq, Sequence(seq), Unique(seq), NEW names
  PROVE  LET all == KeptNames(seq, names)
         IN /\ Sequence(all) /\ Unique(all)
            /\ \A i \in DOMAIN all : /\ Named(seq, all[i].name) /\ all[i].name \in names
                                     /\ all[i] = First(seq, all[i].name)
                                     /\ \E j \in DOMAIN seq : all[i] = seq[j]
            /\ \A n : Named(all, n) <=> Named(seq, n) /\ n \in names
<1> DEFINE places == {i \in DOMAIN seq : seq[i].name \in names}
           all == KeptNames(seq, names)
<1>1. /\ Sequence(all)
      /\ \A j \in DOMAIN all : \E i \in DOMAIN seq : i \in places /\ all[j] = seq[i]
      /\ \A i \in DOMAIN seq : i \in places => \E j \in DOMAIN all : all[j] = seq[i]
      /\ Unique(seq) => Unique(all)
  <2> HIDE DEF places
  <2>1. Kept(seq, places) = all
    BY DEF KeptNames, places
  <2> HIDE DEF all
  <2> QED
    BY <2>1, KeptIs
<1> HIDE DEF all
<1>2. DOMAIN seq = 1..Len(seq) /\ Len(seq) \in Nat
  BY LenProperties DEF Sequence
<1>3. ASSUME NEW i \in DOMAIN seq PROVE First(seq, seq[i].name) = seq[i]
  <2>1. IsFirst(seq, i)
    BY <1>2 DEF Unique, IsFirst
  <2> QED
    BY <2>1, FoundFirst
<1>4. \A i \in DOMAIN all : /\ Named(seq, all[i].name) /\ all[i].name \in names
                            /\ all[i] = First(seq, all[i].name)
                            /\ \E j \in DOMAIN seq : all[i] = seq[j]
  BY <1>1, <1>3 DEF Named
<1>5. \A n : Named(all, n) <=> Named(seq, n) /\ n \in names
  BY <1>1 DEF Named
<1> QED
  BY <1>1, <1>4, <1>5 DEF all

\* An exported upstream is the one that runs, without its credential.
LEMMA StrippedIs ==
  ASSUME NEW u, DOMAIN u = {"name", "kind", "token", "env", "ops"}
  PROVE  LET s == Stripped(u)
         IN /\ s.name = u.name /\ s.kind = u.kind /\ s.ops = u.ops
            /\ s.token = Blank /\ s.env = EnvNamed(u)
<1> DEFINE e == EnvNamed(u)
<1>1. Stripped(u) = [u EXCEPT !.token = Blank, !.env = e]
  BY DEF Stripped
<1> HIDE DEF e
<1>2. /\ Stripped(u).name = u.name /\ Stripped(u).kind = u.kind /\ Stripped(u).ops = u.ops
      /\ Stripped(u).token = Blank /\ Stripped(u).env = e
  BY <1>1
<1> QED
  BY <1>2 DEF e

\* A credential has a variable that would carry it.
LEMMA CredentialIsNamed ==
  ASSUME NEW u, u.token # Blank
  PROVE  EnvNamed(u) # Blank
<1>1. EnvVarName(u.name) # Blank
  BY DEF EnvVarName, Blank
<1> QED
  BY <1>1 DEF EnvNamed

\* What is chosen are tools of the configuration, each once.
LEMMA ChosenAre ==
  ASSUME NEW c, ToolList(c.tools), NEW chosen \in Selections(c)
  PROVE  /\ ToolList(chosen)
         /\ \A i \in DOMAIN chosen : \E k \in DOMAIN c.tools : chosen[i] = c.tools[k]
         /\ Unique(c.tools) => Unique(chosen)
<1>1. PICK n \in 0..Len(c.tools) : \E o \in [1..n -> DOMAIN c.tools] :
        /\ \A i, j \in 1..n : o[i] = o[j] => i = j
        /\ chosen = [i \in DOMAIN o |-> c.tools[o[i]]]
  BY DEF Selections
<1>2. PICK o \in [1..n -> DOMAIN c.tools] :
        /\ \A i, j \in 1..n : o[i] = o[j] => i = j
        /\ chosen = [i \in DOMAIN o |-> c.tools[o[i]]]
  BY <1>1
<1>3. n \in Nat
  BY LenProperties DEF ToolList, Sequence
<1>4. DOMAIN chosen = 1..n /\ \A i \in 1..n : chosen[i] = c.tools[o[i]] /\ o[i] \in DOMAIN c.tools
  BY <1>2
<1>5. Sequence(chosen)
  <2>1. chosen = [i \in 1..n |-> chosen[i]]
    BY <1>2
  <2> QED
    BY <1>3, <2>1, SequenceIs
<1>6. ToolList(chosen)
  BY <1>4, <1>5 DEF ToolList
<1>7. Unique(c.tools) => Unique(chosen)
  BY <1>2, <1>4 DEF Unique
<1> QED
  BY <1>4, <1>6, <1>7

\* What a chosen tool needs is wanted; every tool, chosen in its order, wants
\* all there is.
LEMMA NeededIsWanted ==
  ASSUME NEW c, NEW chosen, NEW i \in DOMAIN chosen
  PROVE  /\ chosen[i].does = "proxy" /\ Named(c.upstreams, chosen[i].at)
              => chosen[i].at \in Wanted(c, chosen, "proxy")
         /\ chosen[i].does = "script" /\ Named(c.scripts, chosen[i].at)
              => chosen[i].at \in Wanted(c, chosen, "script")
<1>1. CASE Scoped(c, chosen)
  BY <1>1 DEF Wanted
<1>2. CASE ~Scoped(c, chosen)
  <2>1. Wanted(c, chosen, "proxy") = NamesIn(c.upstreams) /\ Wanted(c, chosen, "script") = NamesIn(c.scripts)
    BY <1>2 DEF Wanted
  <2> QED
    BY <2>1 DEF Named, NamesIn
<1> QED
  BY <1>1, <1>2

\* An exported pack: its upstreams are those that its tools need, without
\* their credentials, its scripts are whole, and it is one that can be read.
Exported(c, chosen, folder) == Build(c, "kit", chosen, folder)

TakenUpstreams(c, chosen) == KeptNames(c.upstreams, Wanted(c, chosen, "proxy"))
TakenScripts(c, chosen)   == KeptNames(c.scripts, Wanted(c, chosen, "script"))
TakenSeeds(c, chosen)     ==
  Kept(c.seeds, {i \in DOMAIN c.seeds : ~Scoped(c, chosen) \/ Named(chosen, c.seeds[i].tool)})

Holds(p, c, chosen, folder) ==
  LET ups  == TakenUpstreams(c, chosen)
      defs == TakenScripts(c, chosen)
  IN /\ DOMAIN p = {"name", "upstreams", "tools", "seeds", "scripts", "needs"}
     /\ p.name = "kit" /\ p.tools = chosen /\ p.seeds = TakenSeeds(c, chosen)
     /\ p.upstreams = [i \in DOMAIN ups |-> Stripped(ups[i])]
     /\ p.needs = {EnvNamed(ups[i]) : i \in DOMAIN ups} \ {Blank}
     /\ p.scripts = [i \in DOMAIN defs |-> Packed(defs[i], folder)]

LEMMA BuiltOf ==
  ASSUME NEW c, NEW chosen, NEW folder
  PROVE  Holds(Exported(c, chosen, folder), c, chosen, folder)
<1> DEFINE ups  == TakenUpstreams(c, chosen)
           defs == TakenScripts(c, chosen)
           A == [i \in DOMAIN ups |-> Stripped(ups[i])]
           B == {EnvNamed(ups[i]) : i \in DOMAIN ups} \ {Blank}
           C == TakenSeeds(c, chosen)
           D == [i \in DOMAIN defs |-> Packed(defs[i], folder)]
           p == Exported(c, chosen, folder)
<1>1. p = [name |-> "kit", upstreams |-> A, needs |-> B, tools |-> chosen, seeds |-> C, scripts |-> D]
  BY DEF Build, Exported, TakenUpstreams, TakenScripts, TakenSeeds
<1> HIDE DEF A, B, C, D, p
<1>2. /\ DOMAIN p = {"name", "upstreams", "tools", "seeds", "scripts", "needs"}
      /\ p.name = "kit" /\ p.tools = chosen /\ p.upstreams = A /\ p.needs = B /\ p.seeds = C /\ p.scripts = D
  BY <1>1
<1> QED
  BY <1>2 DEF Holds, A, B, C, D, p

LEMMA ExportedUpstreams ==
  ASSUME NEW c, Running(c), NEW chosen, NEW folder
  PROVE  LET p == Exported(c, chosen, folder)
         IN /\ Sequence(p.upstreams) /\ Unique(p.upstreams)
            /\ \A i \in DOMAIN p.upstreams :
                 LET s == p.upstreams[i]
                     u == First(c.upstreams, s.name)
                 IN /\ Named(c.upstreams, s.name) /\ s.token = Blank
                    /\ s.kind = u.kind /\ s.ops = u.ops /\ s.env = EnvNamed(u)
                    /\ s.env # Blank => s.env \in p.needs
            /\ \A n : Named(p.upstreams, n) <=> Named(c.upstreams, n) /\ n \in Wanted(c, chosen, "proxy")
<1> DEFINE p   == Exported(c, chosen, folder)
           ups == TakenUpstreams(c, chosen)
<1>1. /\ p.upstreams = [i \in DOMAIN ups |-> Stripped(ups[i])]
      /\ p.needs = {EnvNamed(ups[i]) : i \in DOMAIN ups} \ {Blank}
  <2>1. Holds(p, c, chosen, folder)
    BY BuiltOf
  <2> HIDE DEF p, ups
  <2> QED
    BY <2>1 DEF Holds, ups
<1>2. /\ Sequence(c.upstreams) /\ Unique(c.upstreams)
      /\ \A i \in DOMAIN c.upstreams : DOMAIN c.upstreams[i] = {"name", "kind", "token", "env", "ops"}
  BY DEF Running, Configured
<1>3. /\ Sequence(ups) /\ Unique(ups)
      /\ \A i \in DOMAIN ups : /\ Named(c.upstreams, ups[i].name)
                               /\ ups[i].name \in Wanted(c, chosen, "proxy")
                               /\ ups[i] = First(c.upstreams, ups[i].name)
                               /\ \E j \in DOMAIN c.upstreams : ups[i] = c.upstreams[j]
      /\ \A n : Named(ups, n) <=> Named(c.upstreams, n) /\ n \in Wanted(c, chosen, "proxy")
  BY <1>2, KeptNamesIs DEF TakenUpstreams
<1> HIDE DEF p, ups
<1>4. DOMAIN p.upstreams = DOMAIN ups /\ Sequence(p.upstreams)
  BY <1>1, <1>3, SequenceIs
<1>5. ASSUME NEW i \in DOMAIN ups
      PROVE  LET s == p.upstreams[i]
                 u == ups[i]
             IN s.name = u.name /\ s.kind = u.kind /\ s.ops = u.ops /\ s.token = Blank /\ s.env = EnvNamed(u)
  <2> DEFINE s == p.upstreams[i]
             u == ups[i]
  <2>1. s = Stripped(u) /\ DOMAIN u = {"name", "kind", "token", "env", "ops"}
    BY <1>1, <1>2, <1>3
  <2> HIDE DEF s, u
  <2>2. s.name = u.name /\ s.kind = u.kind /\ s.ops = u.ops /\ s.token = Blank /\ s.env = EnvNamed(u)
    BY <2>1, StrippedIs
  <2> QED
    BY <2>2 DEF s, u
<1>6. Unique(p.upstreams)
  BY <1>3, <1>4, <1>5 DEF Unique
<1>7. \A n : Named(p.upstreams, n) <=> Named(c.upstreams, n) /\ n \in Wanted(c, chosen, "proxy")
  BY <1>3, <1>4, <1>5 DEF Named
<1>8. ASSUME NEW i \in DOMAIN p.upstreams
      PROVE  LET s == p.upstreams[i]
                 u == First(c.upstreams, s.name)
             IN /\ Named(c.upstreams, s.name) /\ s.token = Blank
                /\ s.kind = u.kind /\ s.ops = u.ops /\ s.env = EnvNamed(u)
                /\ s.env # Blank => s.env \in p.needs
  BY <1>1, <1>3, <1>4, <1>5
<1> QED
  BY <1>4, <1>6, <1>7, <1>8 DEF p

LEMMA ExportedScripts ==
  ASSUME NEW c, Running(c), Unique(c.scripts), NamesIn(c.scripts) \subseteq ScriptNames,
         NEW chosen, NEW folder, Exportable(c, chosen, folder)
  PROVE  LET p == Exported(c, chosen, folder)
         IN /\ Sequence(p.scripts) /\ Unique(p.scripts) /\ NamesIn(p.scripts) \subseteq ScriptNames
            /\ \A i \in DOMAIN p.scripts :
                 LET s == p.scripts[i]
                 IN /\ s.lang \in Languages /\ s.source # NoBody /\ ~TooBig(s.source) /\ s.sha = s.source
            /\ \A n : Named(p.scripts, n) <=> Named(c.scripts, n) /\ n \in Wanted(c, chosen, "script")
<1> DEFINE p    == Exported(c, chosen, folder)
           defs == TakenScripts(c, chosen)
<1>1. p.scripts = [i \in DOMAIN defs |-> Packed(defs[i], folder)]
  <2>1. Holds(p, c, chosen, folder)
    BY BuiltOf
  <2> HIDE DEF p, defs
  <2> QED
    BY <2>1 DEF Holds, defs
<1>2. Sequence(c.scripts) /\ \A i \in DOMAIN c.scripts : c.scripts[i].lang \in Languages
  BY DEF Running
<1>3. /\ Sequence(defs) /\ Unique(defs)
      /\ \A i \in DOMAIN defs : /\ defs[i].name \in Wanted(c, chosen, "script")
                                /\ \E j \in DOMAIN c.scripts : defs[i] = c.scripts[j]
      /\ \A n : Named(defs, n) <=> Named(c.scripts, n) /\ n \in Wanted(c, chosen, "script")
  BY <1>2, KeptNamesIs DEF TakenScripts
<1> HIDE DEF p, defs
<1>4. DOMAIN p.scripts = DOMAIN defs /\ Sequence(p.scripts)
  BY <1>1, <1>3, SequenceIs
<1>5. ASSUME NEW i \in DOMAIN defs
      PROVE  LET s == p.scripts[i]
             IN /\ s.name = defs[i].name /\ s.name \in ScriptNames
                /\ s.lang \in Languages /\ s.source # NoBody /\ ~TooBig(s.source) /\ s.sha = s.source
  <2> DEFINE s == p.scripts[i]
             def == defs[i]
  <2>1. /\ s = Packed(def, folder) /\ def.name \in Wanted(c, chosen, "script")
        /\ \E j \in DOMAIN c.scripts : def = c.scripts[j]
    BY <1>1, <1>3
  <2> HIDE DEF s, def
  <2>2. Readable(folder, def) /\ def.lang \in Languages /\ def.name \in ScriptNames
    BY <1>2, <2>1 DEF Exportable, NamesIn
  <2>3. s.name = def.name /\ s.lang = def.lang /\ s.source = folder.files[At(def)] /\ s.sha = folder.files[At(def)]
    BY <2>1 DEF Packed
  <2>4. /\ s.name = def.name /\ s.name \in ScriptNames
        /\ s.lang \in Languages /\ s.source # NoBody /\ ~TooBig(s.source) /\ s.sha = s.source
    BY <2>2, <2>3 DEF Readable
  <2> QED
    BY <2>4 DEF s, def
<1>6. Unique(p.scripts)
  BY <1>3, <1>4, <1>5 DEF Unique
<1>7. \A n : Named(p.scripts, n) <=> Named(c.scripts, n) /\ n \in Wanted(c, chosen, "script")
  BY <1>3, <1>4, <1>5 DEF Named
<1>8. NamesIn(p.scripts) \subseteq ScriptNames
  BY <1>4, <1>5 DEF NamesIn
<1> QED
  BY <1>4, <1>5, <1>6, <1>7, <1>8 DEF p

\* What is exported can be read again.
LEMMA ExportedFits ==
  ASSUME NEW c, Running(c), Valid(c, Sound(c, Folder)), NEW chosen \in Selections(c),
         NEW folder, Exportable(c, chosen, folder)
  PROVE  Parcel(Exported(c, chosen, folder)) /\ PackFits(Exported(c, chosen, folder))
<1> DEFINE p == Exported(c, chosen, folder)
<1>1. /\ DOMAIN p = {"name", "upstreams", "tools", "seeds", "scripts", "needs"}
      /\ p.name = "kit" /\ p.tools = chosen
  <2>1. Holds(p, c, chosen, folder)
    BY BuiltOf
  <2> HIDE DEF p
  <2> QED
    BY <2>1 DEF Holds
<1>2. ToolList(c.tools) /\ Unique(c.scripts) /\ NamesIn(c.scripts) \subseteq ScriptNames
  BY DEF Running, Valid
<1>3. ToolList(chosen) /\ \A i \in DOMAIN chosen : \E k \in DOMAIN c.tools : chosen[i] = c.tools[k]
  BY <1>2, ChosenAre
<1>4. /\ Sequence(p.upstreams) /\ \A i \in DOMAIN p.upstreams : p.upstreams[i].token = Blank
      /\ \A n : Named(p.upstreams, n) <=> Named(c.upstreams, n) /\ n \in Wanted(c, chosen, "proxy")
  BY ExportedUpstreams
<1>5. /\ Sequence(p.scripts) /\ Unique(p.scripts) /\ NamesIn(p.scripts) \subseteq ScriptNames
      /\ \A i \in DOMAIN p.scripts :
           LET s == p.scripts[i]
           IN /\ s.lang \in Languages /\ s.source # NoBody /\ ~TooBig(s.source) /\ s.sha = s.source
      /\ \A n : Named(p.scripts, n) <=> Named(c.scripts, n) /\ n \in Wanted(c, chosen, "script")
  BY <1>2, ExportedScripts
<1> HIDE DEF p
<1>6. ASSUME NEW i \in DOMAIN chosen
      PROVE  /\ chosen[i].does = "proxy"  => Named(p.upstreams, chosen[i].at)
             /\ chosen[i].does = "script" => Named(p.scripts, chosen[i].at)
  <2>1. PICK k \in DOMAIN c.tools : chosen[i] = c.tools[k]
    BY <1>3
  <2>2. /\ chosen[i].does = "proxy"  => ProxyFits(c, chosen[i])
        /\ chosen[i].does = "script" => ScriptFits(c, chosen[i], Sound(c, Folder))
    BY <2>1 DEF Valid
  <2> QED
    BY <1>4, <1>5, <2>2, NeededIsWanted DEF ProxyFits, ScriptFits
<1>7. p.name # Blank
  <2>1. "kit" # Blank
    BY DEF Blank
  <2> QED
    BY <1>1, <2>1
<1>8. Parcel(p)
  BY <1>1, <1>3, <1>4, <1>5 DEF Parcel
<1>9. PackFits(p)
  BY <1>1, <1>4, <1>5, <1>6, <1>7 DEF PackFits
<1> QED
  BY <1>8, <1>9 DEF p

\* The empty gateway holds nothing but a credential; its folder has room.
LEMMA Base0Is ==
  /\ DOMAIN Base0 = Fields /\ Running(Base0) /\ Base0.dir = TRUE
  /\ Base0.bearer \notin {Blank, "short"} /\ ~Base0.access.on /\ Base0.deadline = 0
  /\ Base0.upstreams = <<>> /\ Base0.tools = <<>> /\ Base0.scripts = <<>> /\ Base0.seeds = <<>>
  /\ PublishFits(Base0)
<1>1. "owner" \notin {Blank, "short"}
  BY DEF Blank
<1>2. /\ DOMAIN Base0 = Fields /\ Base0.dir = TRUE /\ Base0.bearer = "owner"
      /\ Base0.access = [on |-> FALSE, team |-> Blank, aud |-> Blank] /\ Base0.deadline = 0
      /\ Base0.upstreams = <<>> /\ Base0.tools = <<>> /\ Base0.scripts = <<>> /\ Base0.seeds = <<>>
      /\ Base0.via = "none"
  BY DEF Base0, Default, Fields
<1>3. DOMAIN <<>> = {} /\ Sequence(<<>>) /\ Unique(<<>>)
  BY DEF Sequence, Unique
<1>4. Running(Base0)
  BY <1>2, <1>3, ConfigFields DEF Running, Configured, ToolList
<1>5. PublishFits(Base0)
  BY <1>2 DEF PublishFits
<1> QED
  BY <1>1, <1>2, <1>4, <1>5

LEMMA ShelfIs == Roomy(Shelf(<<>>))
  BY DEF Roomy, Shelf, Contained

\* Where there are no seeds, those that are taken are the pack's.
LEMMA SeededIs ==
  ASSUME NEW new, Sequence(new)
  PROVE  \A i \in DOMAIN Seeded(<<>>, new) : \E j \in DOMAIN new : Seeded(<<>>, new)[i] = new[j]
<1> DEFINE places == {i \in DOMAIN new : /\ \A j \in DOMAIN <<>> : ~SamePair(<<>>[j], new[i])
                                         /\ \A j \in 1..(i - 1) : ~SamePair(new[j], new[i])}
           all == Kept(new, places)
<1>1. Seeded(<<>>, new) = <<>> \o all
  BY DEF Seeded
<1> HIDE DEF places
<1>2. Sequence(all) /\ \A j \in DOMAIN all : \E i \in DOMAIN new : all[j] = new[i]
  BY KeptIs
<1> HIDE DEF all
<1>3. <<>> \o all = all
  BY <1>2, ConcatEmptySeq DEF Sequence
<1> QED
  BY <1>1, <1>2, <1>3

\* The seeds that travel name a tool that does, or any.
LEMMA ExportedSeeds ==
  ASSUME NEW c, Running(c), NEW chosen, NEW folder, ToolList(chosen),
         \A i \in DOMAIN c.seeds : c.seeds[i].tool \in {"*"} \cup NamesIn(c.tools)
  PROVE  LET p == Exported(c, chosen, folder)
         IN Sequence(p.seeds) /\ \A i \in DOMAIN p.seeds : p.seeds[i].tool \in {"*"} \cup NamesIn(chosen)
<1> DEFINE p == Exported(c, chosen, folder)
           places == {i \in DOMAIN c.seeds : ~Scoped(c, chosen) \/ Named(chosen, c.seeds[i].tool)}
<1>1. p.seeds = Kept(c.seeds, places)
  <2>1. Holds(p, c, chosen, folder)
    BY BuiltOf
  <2> HIDE DEF p
  <2> QED
    BY <2>1 DEF Holds, TakenSeeds
<1>2. Sequence(c.seeds) /\ ToolList(c.tools)
  BY DEF Running
<1> HIDE DEF p, places
<1>3. Sequence(p.seeds) /\ \A j \in DOMAIN p.seeds : \E i \in DOMAIN c.seeds : i \in places /\ p.seeds[j] = c.seeds[i]
  BY <1>1, <1>2, KeptIs
<1>4. ~Scoped(c, chosen) => NamesIn(c.tools) \subseteq NamesIn(chosen)
  <2>1. /\ DOMAIN chosen = 1..Len(chosen) /\ DOMAIN c.tools = 1..Len(c.tools)
    BY <1>2, LenProperties DEF ToolList, Sequence
  <2> QED
    BY <2>1 DEF Scoped, NamesIn
<1>5. ASSUME NEW i \in DOMAIN c.seeds, i \in places PROVE c.seeds[i].tool \in {"*"} \cup NamesIn(chosen)
  <2>1. ~Scoped(c, chosen) \/ c.seeds[i].tool \in NamesIn(chosen)
    BY <1>5 DEF places, Named, NamesIn
  <2> QED
    BY <1>4, <2>1
<1> QED
  BY <1>3, <1>5 DEF p

\* Imported into the empty gateway, an exported tool fits as it did where it
\* came from.
LEMMA ImportedToolFits ==
  ASSUME NEW c, Running(c), Valid(c, Sound(c, Folder)), NEW chosen \in Selections(c),
         NEW folder, Exportable(c, chosen, folder), NEW i \in DOMAIN Merged(Base0, Exported(c, chosen, folder)).tools
  PROVE  LET p == Exported(c, chosen, folder)
             d == Merged(Base0, p)
             t == d.tools[i]
             w == FoldLeft(Saved, Shelf(<<>>), p.scripts)
         IN /\ ArgumentsFit(t)
            /\ CASE t.does = "proxy"  -> ProxyFits(d, t)
                 [] t.does = "exec"   -> ExecFits(d, t)
                 [] t.does = "script" -> ScriptFits(d, t, Sound(d, w))
<1> DEFINE p == Exported(c, chosen, folder)
           d == Merged(Base0, p)
           t == d.tools[i]
           w == FoldLeft(Saved, Shelf(<<>>), p.scripts)
<1>1. Parcel(p) /\ PackFits(p)
  BY ExportedFits
<1>2. p.tools = chosen
  <2>1. Holds(p, c, chosen, folder)
    BY BuiltOf
  <2> HIDE DEF p
  <2> QED
    BY <2>1 DEF Holds
<1>3. /\ Sequence(p.upstreams) /\ Unique(p.upstreams)
      /\ \A k \in DOMAIN p.upstreams :
           LET s == p.upstreams[k]
               u == First(c.upstreams, s.name)
           IN s.kind = u.kind /\ s.ops = u.ops
      /\ \A n : Named(p.upstreams, n) <=> Named(c.upstreams, n) /\ n \in Wanted(c, chosen, "proxy")
  BY ExportedUpstreams
<1>4. \A n : Named(p.scripts, n) <=> Named(c.scripts, n) /\ n \in Wanted(c, chosen, "script")
  BY ExportedScripts DEF Valid
<1>5. ToolList(chosen) /\ \A k \in DOMAIN chosen : \E j \in DOMAIN c.tools : chosen[k] = c.tools[j]
  BY ChosenAre DEF Running
<1>6. i \in DOMAIN d.tools
  OBVIOUS
<1> HIDE DEF p, w
<1>7. /\ d.scripts = PutAll(<<>>, Records(p)) /\ d.upstreams = PutAll(<<>>, p.upstreams)
      /\ d.tools = PutAll(<<>>, p.tools) /\ d.deadline = 0
  BY Base0Is, MergedIs DEF Fields
<1>8. DOMAIN <<>> = {} /\ Sequence(<<>>) /\ \A n : ~Named(<<>>, n)
  BY DEF Sequence, Named
<1>9. PICK k \in DOMAIN chosen : t = chosen[k]
  <2> HIDE DEF d
  <2> QED
    BY <1>2, <1>5, <1>6, <1>7, <1>8, AllPutIn DEF ToolList
<1>10. PICK j \in DOMAIN c.tools : t = c.tools[j]
  BY <1>5, <1>9
<1>11. /\ ArgumentsFit(t)
       /\ t.does = "proxy"  => ProxyFits(c, t)
       /\ t.does = "exec"   => ExecFits(c, t)
       /\ t.does = "script" => ScriptFits(c, t, Sound(c, Folder))
       /\ t.does \in {"proxy", "exec", "script"}
  <2> HIDE DEF t
  <2> QED
    BY <1>10 DEF Valid, Running, ToolList
<1>12. t.does = "proxy" => ProxyFits(d, t)
  <2> SUFFICES ASSUME t.does = "proxy" PROVE ProxyFits(d, t)
    OBVIOUS
  <2>1. ProxyFits(c, t)
    BY <1>11
  <2>2. Named(p.upstreams, t.at)
    BY <1>3, <1>9, <2>1, NeededIsWanted DEF ProxyFits
  <2>3. PICK m \in DOMAIN p.upstreams : p.upstreams[m].name = t.at
    BY <2>2 DEF Named
  <2> HIDE DEF t, d
  <2>4. Named(d.upstreams, t.at) /\ First(d.upstreams, t.at) = p.upstreams[m]
    BY <1>3, <1>7, <1>8, <2>2, <2>3, AllPutIn
  <2>5. /\ p.upstreams[m].kind = First(c.upstreams, t.at).kind
        /\ p.upstreams[m].ops = First(c.upstreams, t.at).ops
    BY <1>3, <2>3
  <2> QED
    BY <2>1, <2>4, <2>5 DEF ProxyFits
<1>13. t.does = "exec" => ExecFits(d, t)
  <2> HIDE DEF t, d
  <2> QED
    BY <1>7, <1>11 DEF ExecFits
<1>14. t.does = "script" => ScriptFits(d, t, Sound(d, w))
  <2> SUFFICES ASSUME t.does = "script" PROVE ScriptFits(d, t, Sound(d, w))
    OBVIOUS
  <2>1. ScriptFits(c, t, Sound(c, Folder))
    BY <1>11
  <2>2. Named(p.scripts, t.at)
    BY <1>4, <1>9, <2>1, NeededIsWanted DEF ScriptFits
  <2>3. Named(d.scripts, t.at)
    <3>1. Sequence(Records(p)) /\ Named(Records(p), t.at)
      BY <1>1, <2>2, RecordsAre DEF Parcel, PackFits
    <3> HIDE DEF t, d
    <3> QED
      BY <1>7, <1>8, <3>1, AllPutIn
  <2>4. Named(d.scripts, t.at) => First(d.scripts, t.at) \in Sound(d, w)
    <3>1. Running(Base0) /\ NamesIn(Base0.scripts) = {}
      BY <1>8, Base0Is DEF NamesIn
    <3>2. Rewritten(Base0, p, Shelf(<<>>)) = {}
      BY <3>1 DEF Rewritten
    <3> QED
      BY <1>1, <1>6, <3>1, <3>2, ShelfIs, MergedScriptsAreSound DEF w
  <2> HIDE DEF t, d
  <2> QED
    BY <2>1, <2>3, <2>4 DEF ScriptFits
<1> HIDE DEF t, d
<1> QED
  BY <1>11, <1>12, <1>13, <1>14 DEF p, d, t, w

\* The export is imported into the empty gateway, and is valid there.
LEMMA ExportIsTaken ==
  ASSUME NEW c, Running(c), Valid(c, Sound(c, Folder)), NEW chosen \in Selections(c),
         NEW folder, Exportable(c, chosen, folder),
         NEW o, o.replace = FALSE, o.scripts = TRUE, o.write = TRUE,
         Dangerous(Exported(c, chosen, folder)) = {} \/ o.dangerous = TRUE
  PROVE  Merge(Base0, Exported(c, chosen, folder), o, Shelf(<<>>)).says = "ok"
<1> DEFINE p == Exported(c, chosen, folder)
           d == Merged(Base0, p)
           w == FoldLeft(Saved, Shelf(<<>>), p.scripts)
           m == Merge(Base0, p, o, Shelf(<<>>))
<1>1. Parcel(p) /\ PackFits(p)
  BY ExportedFits
<1>2. p.tools = chosen
  <2>1. Holds(p, c, chosen, folder)
    BY BuiltOf
  <2> HIDE DEF p
  <2> QED
    BY <2>1 DEF Holds
<1>3. Sequence(p.upstreams) /\ Unique(p.upstreams)
  BY ExportedUpstreams
<1>4. ToolList(chosen) /\ Unique(chosen)
  BY ChosenAre DEF Running, Valid
<1>5. Sequence(p.seeds) /\ \A i \in DOMAIN p.seeds : p.seeds[i].tool \in {"*"} \cup NamesIn(chosen)
  BY <1>4, ExportedSeeds DEF Valid
<1>6. \A i \in DOMAIN d.tools :
        /\ ArgumentsFit(d.tools[i])
        /\ CASE d.tools[i].does = "proxy"  -> ProxyFits(d, d.tools[i])
             [] d.tools[i].does = "exec"   -> ExecFits(d, d.tools[i])
             [] d.tools[i].does = "script" -> ScriptFits(d, d.tools[i], Sound(d, w))
  BY ImportedToolFits
<1>7. Dangerous(p) = {} \/ o.dangerous = TRUE
  OBVIOUS
<1> HIDE DEF p, w
<1>8. /\ d.scripts = PutAll(<<>>, Records(p)) /\ d.tools = PutAll(<<>>, p.tools)
      /\ d.seeds = Seeded(<<>>, p.seeds)
      /\ d.bearer = Base0.bearer /\ d.access = Base0.access /\ d.via = Base0.via /\ d.funnel = Base0.funnel
  BY Base0Is, MergedIs DEF Fields
<1>9. DOMAIN <<>> = {} /\ Sequence(<<>>) /\ Unique(<<>>) /\ NamesIn(<<>>) = {} /\ \A n : ~Named(<<>>, n)
  BY DEF Sequence, Unique, NamesIn, Named
<1>10. NotTaken(Base0, p, o, Shelf(<<>>)) = {}
  <2>1. DOMAIN p.scripts = 1..Len(p.scripts) /\ Len(p.scripts) \in Nat
    BY <1>1, LenProperties DEF Parcel, Sequence
  <2>2. ASSUME NEW i \in DOMAIN p.scripts
        PROVE  IsFirst(p.scripts, i) /\ Savable(Shelf(<<>>), p.scripts[i])
    <3>1. IsFirst(p.scripts, i)
      BY <1>1, <2>1 DEF PackFits, Unique, IsFirst
    <3>2. p.scripts[i].name \in ScriptNames /\ ~TooBig(p.scripts[i].source)
      BY <1>1 DEF PackFits, NamesIn
    <3>3. Contained(Shelf(<<>>), FALSE)
      BY ShelfIs DEF Roomy
    <3> QED
      BY <3>1, <3>2, <3>3 DEF Savable
  <2> QED
    BY <1>9, <2>2, Base0Is DEF NotTaken
<1>11. ~Clash(Base0.upstreams, p.upstreams) /\ ~Clash(Base0.tools, p.tools)
  BY <1>2, <1>3, <1>4, <1>9, Base0Is DEF Clash
<1>12. WrittenBy(Base0, p, o, Shelf(<<>>)) = w
  <2>1. SubSeq(p.scripts, 1, Len(p.scripts)) = p.scripts
    BY <1>1, SubSeqProperties, LenProperties DEF Parcel, Sequence
  <2> QED
    BY <1>10, <2>1 DEF WrittenBy, w
<1> HIDE DEF d
<1>13. Unique(d.scripts) /\ NamesIn(d.scripts) \subseteq ScriptNames
  <2>1. /\ Sequence(Records(p)) /\ Unique(Records(p))
        /\ \A n : Named(Records(p), n) <=> Named(p.scripts, n)
    BY <1>1, RecordsAre DEF Parcel, PackFits
  <2>2. Unique(d.scripts) /\ \A n : Named(d.scripts, n) => Named(p.scripts, n)
    BY <1>8, <1>9, <2>1, AllPutIn
  <2>3. NamesIn(p.scripts) \subseteq ScriptNames
    BY <1>1 DEF PackFits
  <2> QED
    BY <2>2, <2>3 DEF NamesIn, Named
<1>14. Unique(d.tools) /\ \A n : Named(d.tools, n) <=> Named(chosen, n)
  BY <1>2, <1>4, <1>8, <1>9, AllPutIn DEF ToolList
<1>15. \A i \in DOMAIN d.seeds : d.seeds[i].tool \in {"*"} \cup NamesIn(d.tools)
  <2>1. NamesIn(d.tools) = NamesIn(chosen)
    BY <1>14 DEF NamesIn, Named
  <2>2. \A i \in DOMAIN d.seeds : \E j \in DOMAIN p.seeds : d.seeds[i] = p.seeds[j]
    BY <1>5, <1>8, SeededIs
  <2> QED
    BY <1>5, <2>1, <2>2
<1>16. PublishFits(d)
  BY <1>8, Base0Is DEF PublishFits
<1>17. Valid(d, Sound(d, w))
  BY <1>6, <1>8, <1>13, <1>14, <1>15, <1>16, Base0Is DEF Valid
<1>18. m.says = IF NotTaken(Base0, p, o, Shelf(<<>>)) # {} THEN "script"
                ELSE IF Clash(Base0.upstreams, p.upstreams) /\ ~o.replace THEN "upstream"
                ELSE IF Clash(Base0.tools, p.tools) /\ ~o.replace THEN "tool"
                ELSE IF ~Valid(d, Sound(d, WrittenBy(Base0, p, o, Shelf(<<>>)))) THEN "invalid"
                ELSE "ok"
  BY <1>7, MergeSays DEF d
<1> HIDE DEF m
<1>19. m.says = "ok"
  BY <1>10, <1>11, <1>12, <1>17, <1>18
<1> QED
  BY <1>19 DEF m, p

\* Whatever is chosen of whatever configuration runs, and whatever lies in its
\* folder by then: the pack that is made of it can be read, imported into an
\* empty gateway and run there; it carries no credential, and names the variable
\* of each one that it left behind (PackStandsAlone; pack.rs, build).
THEOREM PacksStandAlone == TradeSpec => []PackStandsAlone
<1>1. ASSUME TradeInv PROVE PackStandsAlone
  <2> SUFFICES ASSUME kind = "export" PROVE PackStandsAlone
    BY DEF PackStandsAlone
  <2> DEFINE c == in.cfg
             chosen == in.chosen
             folder == in.folder
             p == Exported(c, chosen, folder)
             o == [All(FALSE) EXCEPT !.dangerous = Dangerous(p) # {}]
             m == Merge(Base0, p, o, Shelf(<<>>))
  <2>1. /\ Running(c) /\ Valid(c, Sound(c, Folder)) /\ chosen \in Selections(c)
        /\ Exportable(c, chosen, folder)
    BY <1>1, TradeAssumption DEF TradeInv, Runnable
  <2>2. /\ o.replace = FALSE /\ o.scripts = TRUE /\ o.write = TRUE
        /\ Dangerous(p) = {} \/ o.dangerous = TRUE
    <3> HIDE DEF p
    <3> QED
      BY DEF All
  <2> HIDE DEF c, chosen, folder, o
  <2>3. Parcel(p) /\ PackFits(p)
    BY <2>1, ExportedFits
  <2>4. m.says = "ok"
    BY <2>1, <2>2, ExportIsTaken
  <2>5. m.cfg = Merged(Base0, p)
    BY <2>4, MergedIfOk
  <2>6. p.tools = chosen
    <3>1. Holds(p, c, chosen, folder)
      BY BuiltOf
    <3> HIDE DEF p
    <3> QED
      BY <3>1 DEF Holds
  <2>7. ToolList(chosen)
    BY <2>1, ChosenAre DEF Running
  <2>8. /\ Sequence(p.upstreams) /\ Unique(p.upstreams)
        /\ \A i \in DOMAIN p.upstreams :
             LET s == p.upstreams[i]
                 u == First(c.upstreams, s.name)
             IN s.token = Blank /\ s.env = EnvNamed(u) /\ (s.env # Blank => s.env \in p.needs)
    BY <2>1, ExportedUpstreams
  <2> HIDE DEF p, m
  <2>9. m.cfg.tools = PutAll(<<>>, chosen) /\ m.cfg.upstreams = PutAll(<<>>, p.upstreams)
    BY <2>5, <2>6, Base0Is, MergedIs
  <2>10. DOMAIN <<>> = {} /\ Sequence(<<>>) /\ \A n : ~Named(<<>>, n)
    BY DEF Sequence, Named
  <2>11. NamesIn(m.cfg.tools) = NamesIn(chosen)
    <3>1. \A n : Named(m.cfg.tools, n) <=> Named(chosen, n)
      BY <2>7, <2>9, <2>10, AllPutIn DEF ToolList
    <3> QED
      BY <3>1 DEF NamesIn, Named
  <2>12. ASSUME NEW i \in DOMAIN p.upstreams, First(c.upstreams, p.upstreams[i].name).token # Blank
         PROVE  \E v \in MissingEnv(p, <<>>) : First(m.cfg.upstreams, p.upstreams[i].name).env = v
    <3> DEFINE s == p.upstreams[i]
    <3>1. s.env # Blank /\ s.env \in p.needs
      BY <2>8, <2>12, CredentialIsNamed
    <3>2. s.env \in MissingEnv(p, <<>>)
      BY <2>10, <3>1 DEF MissingEnv, Over
    <3>3. First(m.cfg.upstreams, s.name) = s
      BY <2>8, <2>9, <2>10, AllPutIn
    <3> QED
      BY <3>2, <3>3
  <2>13. /\ PackFits(p) /\ m.says = "ok"
         /\ NamesIn(m.cfg.tools) = NamesIn(chosen)
         /\ \A i \in DOMAIN p.upstreams :
              LET u == p.upstreams[i] IN
              /\ u.token = Blank
              /\ First(c.upstreams, u.name).token # Blank =>
                   \E v \in MissingEnv(p, <<>>) : First(m.cfg.upstreams, u.name).env = v
    BY <2>3, <2>4, <2>8, <2>11, <2>12
  <2> QED
    BY <2>13 DEF PackStandsAlone, Exported, c, chosen, folder, p, o, m
<1> QED
  BY <1>1, TradeInvariance, PTL

=============================================================================
