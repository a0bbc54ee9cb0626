------------------------------ MODULE MCForms ------------------------------
(***************************************************************************)
(* The inputs of Forms, of ConfigFile and of Trade.                        *)
(***************************************************************************)
EXTENDS Trade

Over0(S, T) == UNION {[D -> T] : D \in SUBSET S}

-----------------------------------------------------------------------------
(* Calls.                                                                  *)

Arg(n, must, k) == [name |-> n, required |-> must, kind |-> k]
Hole(n)         == [dash |-> FALSE, text |-> FALSE, holes |-> <<n>>]
Within(n)       == [dash |-> FALSE, text |-> TRUE, holes |-> <<n>>]
Flagged(n)      == [dash |-> TRUE, text |-> FALSE, holes |-> <<n>>]

Arguments1 == {<<>>, <<Arg("note", TRUE, "string")>>,
             <<Arg("note", TRUE, "string"), Arg("count", FALSE, "integer")>>,
             <<Arg(" note", FALSE, "string")>>, <<Arg("note", FALSE, "string"), Arg("note", TRUE, "number")>>,
             <<Arg(Key, TRUE, "string"), Arg("note", FALSE, "string")>>, <<Arg(Key, FALSE, "string")>>}

Tool == [name |-> "x", does |-> "exec", at |-> "node", op |-> "", limit |-> 0, slots |-> 1,
         quickAfter |-> 1, label |-> "in short", files |-> <<>>, cwd |-> <<>>, arguments |-> <<>>,
         own |-> FALSE, idempotent |-> FALSE, args |-> <<>>, stdin |-> <<>>, quick |-> <<>>]

MCTools == {[Tool EXCEPT !.does = d, !.arguments = as, !.own = o, !.idempotent = i, !.args = ts,
                       !.stdin = s, !.quick = q] :
            d \in {"exec", "script"}, as \in Arguments1, o \in BOOLEAN, i \in BOOLEAN,
            ts \in {<<>>, <<Hole("note")>>, <<Within("note"), Flagged("count")>>},
            s \in {<<>>, <<Hole("note")>>},
            q \in {<<>>, <<<<>>>>, <<<<Hole("note")>>>>}}

Str(x) == [json |-> "string", text |-> x]

MCSends == {f \in Over0({"note", "count", Key, "nose", " note"},
                      {Str("word"), Str("-word"), Str("12"), Str("long"),
                       [json |-> "integer", text |-> "12"], [json |-> "null", text |-> ""]}) :
            /\ Key \in DOMAIN f => f[Key].text = "word"
            /\ "nose" \in DOMAIN f => f["nose"].text = "word"
            /\ " note" \in DOMAIN f => (f[" note"].text = "word" /\ "note" \notin DOMAIN f)}
-----------------------------------------------------------------------------
(* Reviews of a script's line.                                             *)

Fragments == {"compile(", "re.compile(", "eval(", "os.system(", "urllib", "urllib.parse",
              "os.environ", "/etc/", "curl ", "long"}

MCLines == SUBSET Fragments
-----------------------------------------------------------------------------
(* Packs.                                                                  *)

Up(n, k, token, env) == [name |-> n, kind |-> k, token |-> token, env |-> env,
                         ops |-> IF k = "http" THEN {"list"} ELSE {}]

Proxy(n, u)  == [Tool EXCEPT !.name = n, !.does = "proxy", !.at = u, !.op = "list"]
Runner(n, s) == [Tool EXCEPT !.name = n, !.does = "script", !.at = s]
Spawner(n, cmd, file) == [Tool EXCEPT !.name = n, !.at = cmd, !.files = file]
Placed(n, dir)        == [Spawner(n, "node", <<>>) EXCEPT !.cwd = <<dir>>]
Mute(n)               == [Spawner(n, "node", <<>>) EXCEPT !.quick = <<<<>>>>, !.label = ""]
Seed(who, t) == [identity |-> who, tool |-> t, decision |-> "allow"]

Clean  == <<{"print("}>>
Danger == <<{"print("}, {"os.system("}>>

MCConfigs ==
  {[Base0 EXCEPT !.upstreams = us, !.tools = ts, !.seeds = ss,
                 !.scripts = IF sc THEN <<[Def("python3") EXCEPT !.sha = Clean]>> ELSE <<>>] :
     us \in {<<>>, <<Up("notes", "http", "secret", "")>>,
             <<Up("notes", "http", "secret", "NOTES"), Up("my.mail", "mcp", "secret", "")>>},
     ts \in {<<>>, <<Proxy("list", "notes")>>, <<Runner("sort", "tidy")>>,
             <<Proxy("list", "notes"), Runner("sort", "tidy"), Spawner("find", "node", <<>>)>>},
     ss \in {<<>>, <<Seed("amy", "*"), Seed("amy", "list")>>}, sc \in BOOLEAN}
  \cup {[Base0 EXCEPT !.dir = FALSE]}

TheShelf == Shelf([x \in {<<"tidy", "python3">>} |-> Clean])

\* What the operator saves: another body, or one in another language.
MCEdited == {[name |-> "tidy", lang |-> "python3", source |-> Danger],
             [name |-> "tidy", lang |-> "node", source |-> Clean]}

PScript(n, body, sha) == [name |-> n, lang |-> "python3", source |-> body, sha |-> sha]

MCParcels ==
  {[name |-> "kit", upstreams |-> us, tools |-> ts, seeds |-> ss, scripts |-> sc, needs |-> {}] :
     us \in {<<>>, <<Up("notes", "http", "", "NOTES")>>,
             <<Up("notes", "mcp", "", ""), Up("my-mail", "mcp", "", "")>>},
     ts \in {<<>>, <<Proxy("list", "notes")>>, <<Proxy("list", "my-mail"), Proxy("list", "notes")>>,
             <<Runner("sort", "tidy")>>, <<Spawner("find", "qmd", <<>>)>>,
             <<Spawner("seek", "/gone/qmd", <<"/etc/prompt", "/gone/prompt">>)>>,
             <<Placed("find", "/gone/work"), Mute("seek")>>},
     ss \in {<<>>, <<Seed("amy", "list")>>, <<Seed("amy", "*")>>},
     sc \in {<<>>, <<PScript("tidy", Danger, <<>>)>>, <<PScript("fetch", Clean, Clean)>>,
             <<PScript("fetch", Clean, Danger)>>, <<PScript("fetch", Clean, <<>>), PScript("tidy", Clean, Clean)>>}}

\* Where the operator has what a pack names.
MCPlaces == {"/opt/homebrew/bin/qmd", "/etc/prompt"}
-----------------------------------------------------------------------------
(* Requests to a REST upstream.                                            *)

Lit(x)     == [text |-> x, hole |-> FALSE, name |-> ""]
Var(x)     == [text |-> "", hole |-> TRUE, name |-> x]
Past(t, x) == [text |-> t, hole |-> TRUE, name |-> x]
Entry(s, n) == [shape |-> s, name |-> n]

MCOps == {[declared |-> d, path |-> p, query |-> q, body |-> b] :
            d \in BOOLEAN,
            p \in {<<Lit("v1"), Lit("chats")>>, <<Lit("v1"), Lit("chats"), Var("id"), Lit("read")>>,
                   <<Lit("v1"), Var("id"), Var("to")>>, <<Lit("v1"), Lit(".."), Var("id")>>,
                   <<Lit("v1"), Past("m-", "id"), Past(".", "to")>>},
            q \in {<<>>, [limit |-> Entry("sole", "to"), sort |-> Entry("plain", "")], [q |-> Entry("text", "to")]},
            b \in {<<>>, [note |-> Entry("sole", "id"), to |-> Entry("text", "to")]}}

MCFills == Over0({"id", "to"}, Sendable)
-----------------------------------------------------------------------------
(* The configuration file.                                                 *)

MCEnvs == Over0({"GATEHOUND_TOKEN", "NOTES", "CLOUDFLARE_TUNNEL_TOKEN"}, {"env"}) \cup
          {[CF_ACCESS_TEAM_DOMAIN |-> "team", CF_ACCESS_AUD |-> "aud", PUBLISH_VIA |-> "cloudflare",
            LISTEN_ADDR |-> "127.0.0.1:9000", CLOUDFLARE_TUNNEL_TOKEN |-> "env"]}

MCFiles == {[Base0 EXCEPT !.dir = FALSE, !.bearer = b, !.tunnel = t, !.upstreams = us] :
              b \in {"owner", "short", ""}, t \in {"", "dug"},
              us \in {<<>>, <<Up("notes", "http", "secret", "NOTES")>>, <<Up("notes", "http", "", "NOTES")>>}}

MCEdits == {[via |-> p[1], funnel |-> FALSE, touched |-> t # "as is", token |-> t, team |-> p[2], aud |-> p[2]] :
              p \in {<<"none", "">>, <<"cloudflare", "aud">>}, t \in {"as is", "", "typed", "env"}}

\* A service, and a command, which takes no token.
MCConnections ==
  {[name |-> n, service |-> "http", target |-> "https://api.example.com/v1", env |-> "NOTES", token |-> t,
    tools |-> <<[name |-> "list", binding |-> "op", op |-> "", request |-> "full", cmd |-> ""]>>] :
     n \in {"notes", ""}, t \in {"", "pasted"}} \cup
  {[name |-> "notes", service |-> "exec", target |-> "", env |-> "", token |-> "",
    tools |-> <<[name |-> "list", binding |-> "exec", op |-> "", request |-> "", cmd |-> "node"]>>]}
-----------------------------------------------------------------------------
\* What a step may be.
PartsNext == FormsNext \/ FileNext \/ TradeNext

PartsSpec == FormsInit /\ [][PartsNext]_<<kind, in>>
=============================================================================
