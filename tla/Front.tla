------------------------------- MODULE Front -------------------------------
(***************************************************************************)
(* The way into the gateway (auth.rs and handle_mcp of mcp.rs): the bearer *)
(* token, the Cloudflare Access token with the keys it is checked against, *)
(* and what is answered to a request that got in.  Requests run side by    *)
(* side; they meet at the cached key set, which each may fetch anew while  *)
(* the team rotates its keys.  A call goes on in Call.                     *)
(***************************************************************************)
EXTENDS Protocol

CONSTANTS Requests,
          Keys,      \* signing keys of the team, by their kid
          TTL,       \* JWKS_TTL, in ticks
          Fetch,     \* the timeout of a fetch
          MaxTime    \* bound: the clock

ASSUME FrontAssumption == TTL \in Nat \ {0} /\ Fetch \in Nat /\ MaxTime \in Nat

VARIABLES
  clock,
  access,   \* [auth.access] is configured
  key,      \* each signing key: "coming", "published" or "withdrawn", and since when
  cache,    \* the key set, and when it was kept
  req       \* each request

vars == <<clock, access, key, cache, req>>

NoCache == [kept |-> FALSE, at |-> 0, keys |-> {}]
Idle    == [stage |-> "away", kid |-> "none", had |-> FALSE, id |-> "none",
            began |-> 0, forced |-> FALSE, got |-> {}]

Published == {k \in Keys : key[k].is = "published"}

\* AuthError and refuse(): an "auth" row that names nobody, and a challenge;
\* only "not allowed" is a 403.
Refusals == {"missing credentials", "bad credentials", "not allowed", "no such key", "no keys"}
Out(why) == [Idle EXCEPT !.stage = why]

\* handle_mcp is done with it; what becomes of a call is Call's matter.
Done == {"away", "answered", "calling", "gone"} \cup Refusals

Set(r, q) == req' = [req EXCEPT ![r] = q]

Init == /\ clock = 0 /\ access \in BOOLEAN
        /\ key \in [Keys -> [is : {"coming", "published"}, since : {0}]]
        /\ cache = NoCache /\ req = [r \in Requests |-> Idle]

-----------------------------------------------------------------------------
(* authenticate(): the bearer first, then the Access token.                *)

Bearers == {"none", "wrong", "super", "active", "revoked"}   \* the last two were issued

\* resolve_issued: a token that looks issued never falls to the super token.
BearerError(b) == CASE b = "none"                -> "missing credentials"
                    [] b \in {"wrong", "revoked"} -> "bad credentials"
                    [] OTHER                      -> "none"

\* An issued token names the caller more precisely than Access does.
Identity(b) == IF b = "active" THEN "issued" ELSE IF access THEN "access" ELSE "bearer_identity"

\* One client sends one request after another.
Arrive(r) ==
  /\ req[r].stage \in Done
  /\ \E b \in Bearers, j \in {"none", "malformed", "signed"}, k \in Keys :
        LET q == [Idle EXCEPT !.id = Identity(b)]
        IN Set(r, IF BearerError(b) # "none" THEN Out(BearerError(b))
                  ELSE IF ~access THEN [q EXCEPT !.stage = "in"]
                  ELSE CASE j = "none"      -> Out("missing credentials")
                         [] j = "malformed" -> Out("bad credentials")
                         [] j = "signed"    -> [q EXCEPT !.stage = "keys", !.kid = k,
                                                         !.had = k \in Published])
  /\ UNCHANGED <<clock, access, key, cache>>

\* verify(), with a set that has the key: the signature and claims, then the allow list.
Judged(q) == {Out("bad credentials"), Out("not allowed"),
              [Idle EXCEPT !.stage = "in", !.id = q.id, !.kid = q.kid]}

Asking(q, force) == [q EXCEPT !.stage = "asking", !.began = clock, !.forced = force, !.got = {}]

\* Mutant: a key set that was kept is kept for good.
FreshForever == cache.kept

Fresh == cache.kept /\ clock - cache.at < TTL

Become(r, Qs) == \E q \in Qs : req' = [req EXCEPT ![r] = q]

\* Mutant: an unknown key is refused without asking again.
LookOnce(r) ==
  /\ req[r].stage = "keys"
  /\ Become(r, IF ~Fresh THEN {Asking(req[r], FALSE)}
               ELSE IF req[r].kid \in cache.keys THEN Judged(req[r]) ELSE {Out("no such key")})
  /\ UNCHANGED <<clock, access, key, cache>>

\* jwks(false): the cached set, unless it is too old, and again if it lacks the key.
Look(r) ==
  /\ req[r].stage = "keys"
  /\ Become(r, IF Fresh /\ req[r].kid \in cache.keys THEN Judged(req[r])
               ELSE {Asking(req[r], Fresh)})
  /\ UNCHANGED <<clock, access, key, cache>>

TeamAnswers(r) ==
  /\ req[r].stage = "asking"
  /\ Set(r, [req[r] EXCEPT !.stage = "told", !.got = Published])
  /\ UNCHANGED <<clock, access, key, cache>>

\* The set is kept whatever another request kept meanwhile.
Keep(r) ==
  /\ req[r].stage = "told"
  /\ cache' = [kept |-> TRUE, at |-> clock, keys |-> req[r].got]
  /\ Become(r, IF req[r].kid \in req[r].got THEN Judged(req[r])
               ELSE IF req[r].forced THEN {Out("no such key")} ELSE {Asking(req[r], TRUE)})
  /\ UNCHANGED <<clock, access, key>>

\* Mutant: asked again until it answers.
FetchRepeats(r) ==
  /\ req[r].stage \in {"asking", "told"}
  /\ Set(r, Asking(req[r], req[r].forced))
  /\ UNCHANGED <<clock, access, key, cache>>

\* An error or the timeout; a set that is too old is no help.
FetchFails(r) ==
  /\ req[r].stage \in {"asking", "told"}
  /\ Set(r, Out("no keys"))
  /\ UNCHANGED <<clock, access, key, cache>>

-----------------------------------------------------------------------------
(* handle_mcp: what a request that got in is answered.                     *)

Answers == {Reply(w).reply : w \in Wires}

\* A body that does not parse, a notification, or a request.
Serve(r) ==
  /\ req[r].stage = "in"
  /\ \/ Set(r, [Idle EXCEPT !.stage = "answered"])
     \/ \E a \in Answers :
          Set(r, IF a = "call" THEN [Idle EXCEPT !.stage = "calling", !.id = req[r].id]
                 ELSE [Idle EXCEPT !.stage = "answered"])
  /\ UNCHANGED <<clock, access, key, cache>>

HangUp(r) ==
  /\ req[r].stage \in {"keys", "asking", "told", "in"}
  /\ Set(r, [Idle EXCEPT !.stage = "gone"])
  /\ UNCHANGED <<clock, access, key, cache>>

-----------------------------------------------------------------------------
(* The team and the clock.                                                 *)

Rotate(k) ==
  /\ key[k].is # "withdrawn"
  /\ key' = [key EXCEPT ![k] = [is    |-> IF @.is = "coming" THEN "published" ELSE "withdrawn",
                                since |-> clock]]
  /\ UNCHANGED <<clock, access, cache, req>>

\* A fetch has its answer, or its timeout, in Fetch ticks; the rest takes no time.
Tick == /\ clock < MaxTime
        /\ \A r \in Requests : /\ req[r].stage # "keys"
                               /\ req[r].stage \in {"asking", "told"} => clock < req[r].began + Fetch
        /\ clock' = clock + 1
        /\ UNCHANGED <<access, key, cache, req>>

Step(r) == Look(r) \/ Keep(r) \/ FetchFails(r) \/ Serve(r)

Next == \/ \E r \in Requests : Arrive(r) \/ Step(r) \/ TeamAnswers(r) \/ HangUp(r)
        \/ (\E k \in Keys : Rotate(k)) \/ Tick

Spec == Init /\ [][Next]_vars

\* The runtime runs every request; the client's timeout ends a fetch nobody answers.
FairSpec == Spec /\ \A r \in Requests : WF_vars(Step(r))
-----------------------------------------------------------------------------
(* Properties.                                                             *)

TypeOK == /\ clock \in 0..MaxTime /\ access \in BOOLEAN
          /\ key \in [Keys -> [is : {"coming", "published", "withdrawn"}, since : 0..MaxTime]]
          /\ cache \in [kept : BOOLEAN, at : 0..MaxTime, keys : SUBSET Keys]
          /\ \A r \in Requests :
                /\ req[r].stage \in {"keys", "asking", "told", "in"} \cup Done
                /\ req[r].got \subseteq Keys /\ req[r].began \in 0..MaxTime
                /\ req[r].forced \in BOOLEAN /\ req[r].had \in BOOLEAN

\* Whoever Access lets in was signed for with a key that the team published less
\* than an hour and one fetch ago, whichever of two overlapping fetches was kept last.
WithdrawnKeyExpires ==
  [][ \A r \in Requests : access /\ req[r].stage # "in" /\ req'[r].stage = "in" =>
        LET k == key[req[r].kid] IN
        \/ k.is = "published"
        \/ k.is = "withdrawn" /\ clock < k.since + TTL + Fetch ]_vars

\* A good token is not turned away for its key if the team published that key
\* before the request came and still does, however old the cached set is.
SteadyKeyIsFound ==
  [][ \A r \in Requests : req[r].had /\ req'[r].stage = "no such key" =>
        key[req[r].kid].is = "withdrawn" ]_vars

\* A request is answered or its client goes, also when the team's server says nothing.
EveryRequestAnswered ==
  \A r \in Requests : req[r].stage \in {"keys", "asking", "told", "in"}
                        ~> req[r].stage \in Done
=============================================================================
