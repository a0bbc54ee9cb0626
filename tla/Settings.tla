------------------------------ MODULE Settings ------------------------------
(***************************************************************************)
(* The configuration file and the environment (config.rs): what the        *)
(* gateway runs with, what it refuses to run with, and what may be written *)
(* back.  A credential is a value, "" when there is none, and "short" when *)
(* it is too short to be a bearer token.                                   *)
(*                                                                         *)
(* A configuration is [listen, bearer, who, access, via, funnel, tunnel,   *)
(* tunnelEnv, deadline, upstreams, tools, scripts, seeds, fromEnv, dir]:   *)
(* upstreams are [name, kind, token, env, ops]; tools are [name, does, at, *)
(* op, limit, slots, quickAfter, label, files, cwd] next to the fields of  *)
(* Arguments; scripts are [name, lang, sha, origin]; seeds are [identity,  *)
(* tool, decision].  `dir` says whether it came from a file.               *)
(***************************************************************************)
EXTENDS Arguments, FiniteSets

\* An empty string: no credential, no name, no value.
Blank == ""

Over(env, var, old) == IF var \in DOMAIN env THEN env[var] ELSE old

LocalOnly == "127.0.0.1:8790"

\* Config::default()
Default == [listen |-> LocalOnly, bearer |-> Blank, who |-> "bearer",
            access |-> [on |-> FALSE, team |-> Blank, aud |-> Blank], via |-> "none", funnel |-> FALSE,
            tunnel |-> Blank, tunnelEnv |-> Blank, deadline |-> 0, upstreams |-> <<>>, tools |-> <<>>,
            scripts |-> <<>>, seeds |-> <<>>, fromEnv |-> {}, dir |-> FALSE]
-----------------------------------------------------------------------------
(* Credentials and where they came from.                                   *)

\* secret_slots()
Slots(c) == {<<"bearer">>, <<"tunnel">>} \cup {<<"upstream", n>> : n \in NamesIn(c.upstreams)}

\* secret()
Secret(c, slot) == CASE slot = <<"bearer">> -> c.bearer
                     [] slot = <<"tunnel">> -> c.tunnel
                     [] OTHER -> IF Named(c.upstreams, slot[2])
                                 THEN First(c.upstreams, slot[2]).token ELSE Blank

IsFirst(seq, i) == \A j \in 1..(i - 1) : seq[j].name # seq[i].name

\* set_secret(), for every slot at once: an upstream is found by its name.
WithSecrets(c, value) ==
  [c EXCEPT !.bearer = value[<<"bearer">>], !.tunnel = value[<<"tunnel">>],
            !.upstreams = [i \in DOMAIN c.upstreams |->
               IF IsFirst(c.upstreams, i)
               THEN [c.upstreams[i] EXCEPT !.token = value[<<"upstream", c.upstreams[i].name>>]]
               ELSE c.upstreams[i]]]

\* The Access pair: both variables make one, either alone changes one.
AccessFrom(env, a) ==
  LET Half == [a EXCEPT !.team = Over(env, "CF_ACCESS_TEAM_DOMAIN", @),
                        !.aud  = Over(env, "CF_ACCESS_AUD", @)]
  IN IF {"CF_ACCESS_TEAM_DOMAIN", "CF_ACCESS_AUD"} \subseteq DOMAIN env
     THEN [Half EXCEPT !.on = TRUE]
     ELSE IF a.on THEN Half ELSE a

AtLeastOne(n) == IF n = 0 THEN 1 ELSE n

\* apply_env_values()
ApplyEnvValues(c, env) ==
  [c EXCEPT
     !.listen = Over(env, "LISTEN_ADDR", @),
     !.bearer = Over(env, "GATEHOUND_TOKEN", @),
     !.access = AccessFrom(env, @),
     !.via    = IF Over(env, "PUBLISH_VIA", @) \in {"none", "auto", "cloudflare", "tailscale"}
                THEN Over(env, "PUBLISH_VIA", @) ELSE @,
     !.tunnel = Over(env, "CLOUDFLARE_TUNNEL_TOKEN", Over(env, c.tunnelEnv, @)),
     !.upstreams = [i \in DOMAIN c.upstreams |->
        [c.upstreams[i] EXCEPT !.token = Over(env, c.upstreams[i].env, @)]],
     !.tools = [i \in DOMAIN c.tools |->
        IF c.tools[i].limit = 0 \/ "SEND_LIMIT_PER_HOUR" \notin DOMAIN env THEN c.tools[i]
        ELSE [c.tools[i] EXCEPT !.limit = AtLeastOne(env["SEND_LIMIT_PER_HOUR"])]]]

\* apply_env_from(): what changed is remembered, once for each slot.
ApplyEnv(c, env) ==
  LET d == ApplyEnvValues(c, env)
  IN [d EXCEPT !.fromEnv = @ \cup
        {[slot |-> s, file |-> Secret(c, s), env |-> Secret(d, s)] :
           s \in {x \in Slots(c) : /\ Secret(d, x) # Secret(c, x)
                                   /\ \A e \in c.fromEnv : e.slot # x}}]

\* Mutant: one that was changed since goes back as well.
UnsuppliedAlways(c, s) == \E e \in c.fromEnv : e.slot = s

\* for_disk(): a credential the environment gave goes back to what the file
\* said, unless it has been changed since.
Unsupplied(c, s) == \E e \in c.fromEnv : e.slot = s /\ e.env = Secret(c, s)

ForDisk(c) ==
  LET back == [s \in Slots(c) |-> IF Unsupplied(c, s)
                 THEN (CHOOSE e \in c.fromEnv : e.slot = s).file ELSE Secret(c, s)]
  IN [WithSecrets(c, back) EXCEPT !.fromEnv = {}]
-----------------------------------------------------------------------------
(* What the gateway refuses to run with.                                   *)

\* What is installed: a process started from the Dock has little on its PATH.
OnPath == {"python3", "node"}
Paths  == {"/usr/bin/python3", "/usr/bin/node", "/opt/homebrew/bin/qmd"}

Base(cmd) == CASE cmd \in {"python3", "/usr/bin/python3"} -> "python3"
               [] cmd \in {"node", "/usr/bin/node"}       -> "node"
               [] cmd \in {"qmd", "/opt/homebrew/bin/qmd", "/gone/qmd"} -> "qmd"
               [] OTHER -> Blank

\* resolve_command(): a path must be a file, a bare name must be on PATH.
ResolveCommand(cmd) == cmd \in OnPath \cup Paths

\* find_command(): every place one of that name is, PATH or not.
FindCommand(cmd) == {x \in Paths : Base(cmd) # Blank /\ Base(x) = Base(cmd)}

ScriptNames == {"tidy", "fetch"}

ProxyFits(c, t) == /\ Named(c.upstreams, t.at)
                   /\ LET u == First(c.upstreams, t.at) IN u.kind = "http" => t.op \in u.ops

\* A fallback starts after some time and before the call's deadline, and has
\* a label.
ExecFits(c, t) == /\ t.at # Blank /\ t.slots > 0
                  /\ t.quick # <<>> => /\ t.quickAfter > 0 /\ t.label # Blank
                                       /\ c.deadline > 0 => t.quickAfter < c.deadline
                  /\ ResolveCommand(t.at)

\* The body is verified only when the configuration came from a file; `sound`
\* are the scripts whose bodies pass (Scripts, Sound).
ScriptFits(c, t, sound) == /\ t.slots > 0 /\ Named(c.scripts, t.at)
                           /\ c.dir => First(c.scripts, t.at) \in sound

Unique(seq) == \A i, j \in DOMAIN seq : seq[i].name = seq[j].name => i = j

\* PublishConfig::check: the internet takes a second factor, except for "auto".
PublishFits(c) == \/ c.access.on
                  \/ c.via \in {"none", "auto"}
                  \/ c.via = "tailscale" /\ ~c.funnel

\* validate()
Valid(c, sound) ==
  /\ c.bearer \notin {Blank, "short"}
  /\ c.access.on => c.access.team # Blank /\ c.access.aud # Blank
  /\ Unique(c.scripts) /\ NamesIn(c.scripts) \subseteq ScriptNames
  /\ Unique(c.tools)
  /\ \A i \in DOMAIN c.tools :
       LET t == c.tools[i] IN
       /\ ArgumentsFit(t)
       /\ CASE t.does = "proxy"  -> ProxyFits(c, t)
            [] t.does = "exec"   -> ExecFits(c, t)
            [] t.does = "script" -> ScriptFits(c, t, sound)
  /\ PublishFits(c)
  /\ \A i \in DOMAIN c.seeds : c.seeds[i].tool \in {"*"} \cup NamesIn(c.tools)

\* Config::load: the file, the environment over it, and an empty name for the
\* owner made the default one.  It counts only if it is valid.
Load(file, env) ==
  LET c == ApplyEnv([file EXCEPT !.dir = TRUE], env)
  IN IF c.who = Blank THEN [c EXCEPT !.who = "bearer"] ELSE c

\* load_config(): the app's first run makes a file, with a token of its own
\* unless the environment has one; this write alone keeps that one.
FirstRun(env) ==
  LET c == ApplyEnv(Default, env)
  IN IF c.bearer \in {Blank, "short"} THEN [c EXCEPT !.bearer = "made"] ELSE c
-----------------------------------------------------------------------------
(* The panel's edit of publishing (gatehound-app/src/main.rs).             *)

\* apply_publish_edit(): a token the panel did not touch is left as it is.
PublishEdited(c, e) ==
  [c EXCEPT !.via = e.via, !.funnel = e.funnel,
            !.tunnel = IF e.touched THEN e.token ELSE @,
            !.access = [on |-> e.team # Blank \/ e.aud # Blank, team |-> e.team, aud |-> e.aud]]
=============================================================================
