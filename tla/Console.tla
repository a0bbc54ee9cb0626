------------------------------ MODULE Console ------------------------------
(***************************************************************************)
(* What the operator's window edits (gatehound-app/src/main.rs): the       *)
(* configuration file, the one script body beside it, the policy rules and *)
(* the issued tokens (store.rs).  The gateway serves the configuration it  *)
(* started with (`cfg`) until it restarts; every command that edits the    *)
(* configuration writes a changed copy of `cfg` over the file (`disk`).    *)
(* The window's commands run one at a time, but each takes several steps,  *)
(* and calls, the command line and a crash come between them.              *)
(***************************************************************************)
EXTENDS Naturals, Sequences, FiniteSets

CONSTANTS
  Names,      \* tool names
  Star,       \* "*" as a tool: the wildcard rule
  Clients,    \* the identities one token name may become, in order
  AnyOne,     \* "*" as an identity
  Tokens,     \* token ids
  NoToken,    \* no row for a token id
  PackSeeds,  \* the identity seeds a pack may carry
  MaxBody,    \* bound: versions of the script's body
  MaxEdits    \* bound: commands, and restarts

Identities == {Clients[n] : n \in DOMAIN Clients}
Who        == Identities \cup {AnyOne}
Subjects   == Names \cup {Star}
Decisions  == {"allow", "deny", "ask"}
SeedSet    == Who \X Subjects \X Decisions

ASSUME ConsoleAssumption == /\ Star \notin Names /\ AnyOne \notin Identities
                            /\ PackSeeds \subseteq SeedSet
                            /\ MaxBody \in Nat \ {0} /\ MaxEdits \in Nat
                            /\ NoToken \notin [who : Identities, chosen : SUBSET Names, shown : BOOLEAN]

VARIABLES
  up,         \* the app runs
  cfg,        \* the configuration the gateway serves
  disk,       \* the configuration in the file
  body,       \* the version of the script's body on disk, 0 if there is none
  rules,      \* rules[<<i, t>>]: the row of `identities`, or "none"
  tokens,     \* tokens[k]: the row of `tokens`, or NoToken
  held,       \* the calls waiting in Approvals, by identity and tool
  doing,      \* what the command under way still has to do
  edits,      \* commands and restarts so far
  said,       \* history: pairs a person ruled on since the identity was chosen
  unchecked   \* history: the last change to the file or the body was not validated

fileVars == <<disk, body, unchecked>>
ruleVars == <<rules, said>>
vars == <<up, cfg, disk, body, rules, tokens, held, doing, edits, said, unchecked>>

Idle         == [op |-> "idle"]
NewName(a, b) == [op |-> "move", from |-> a, to |-> b]
Forget(T)    == [op |-> "forget", tools |-> T]
AskFirst(t)  == [op |-> "ask", tool |-> t]
Write(c, T)  == [op |-> "write", cfg |-> c, tools |-> T]
Issue(i, T)  == [op |-> "issue", who |-> i, chosen |-> T]
Grant(k, T)  == [op |-> "grant", token |-> k, todo |-> T]
Drop(i)      == [op |-> "drop", who |-> i]
-----------------------------------------------------------------------------
(* The policy, and configurations.                                         *)

\* The exact rule, else the identity's wildcard, else ask.
Decide(i, t) == IF rules[<<i, t>>] # "none" THEN rules[<<i, t>>]
                ELSE IF rules[<<i, Star>>] # "none" THEN rules[<<i, Star>>]
                ELSE "ask"

\* Config::validate: every script tool's body is there and has the recorded
\* digest, and every seed is for a tool the file has.
Valid(c, b) == /\ \A t \in Names : c.tool[t] = "script" => c.script # 0 /\ b = c.script
               /\ \A s \in c.seeds : s[2] = Star \/ c.tool[s[2]] # "none"

Tooled(c, t, kind) == [c EXCEPT !.tool[t] = kind]
Scripted(c, v)     == [c EXCEPT !.script = v]
Seeded(c, S) ==
  [c EXCEPT !.seeds = @ \cup {s \in S : \A r \in @ : <<r[1], r[2]>> # <<s[1], s[2]>>}]

Without(c, T) == [c EXCEPT !.tool = [t \in Names |-> IF t \in T THEN "none" ELSE @[t]],
                           !.seeds = {s \in @ : s[2] \notin T}]

\* The tool's name changes; the seeds that name it do not.
Renamed(c, a, b) == [c EXCEPT !.tool[b] = c.tool[a], !.tool[a] = "none"]

\* INSERT OR IGNORE, for each seed of the configuration.
Seeding(c, r) == [p \in DOMAIN r |->
  IF r[p] = "none" /\ \E s \in c.seeds : <<s[1], s[2]>> = p
  THEN (CHOOSE s \in c.seeds : <<s[1], s[2]>> = p)[3] ELSE r[p]]

Init ==
  /\ up = TRUE /\ doing = Idle /\ edits = 0 /\ held = {} /\ unchecked = FALSE
  /\ body = 1
  /\ \E kind \in [Names -> {"none", "proxy", "script"}], S \in SUBSET PackSeeds :
        /\ cfg = [tool |-> kind, script |-> 1, seeds |-> S]
        /\ Valid(cfg, body)
  /\ disk = cfg
  /\ rules = Seeding(cfg, [p \in Who \X Subjects |-> "none"])
  /\ said = {p \in Identities \X Subjects : rules[p] # "none"}
  /\ tokens = [k \in Tokens |-> NoToken]

\* A command of the window begins: they are synchronous and run on one thread.
Command == up /\ doing = Idle /\ edits < MaxEdits /\ edits' = edits + 1

\* Mutant: the file is written without the validation.
SaveBlind(c) == /\ disk' = c /\ unchecked' = FALSE
                /\ UNCHANGED body

\* write_config, merge and apply_publish_edit: nothing invalid is written.
SaveChecked(c) == /\ Valid(c, body)
                  /\ disk' = c /\ unchecked' = FALSE
                  /\ UNCHANGED body

\* set_tool_face writes without validating.
SaveUnchecked(c) == /\ disk' = c /\ unchecked' = TRUE
                    /\ UNCHANGED body
-----------------------------------------------------------------------------
(* Editing the configuration.                                              *)

\* set_tool_face.  Keeping the name only rewords the description.
SetToolFace(a, b) ==
  /\ Command /\ cfg.tool[a] # "none"
  /\ b = a \/ cfg.tool[b] = "none"
  /\ SaveUnchecked(IF a = b THEN cfg ELSE Renamed(cfg, a, b))
  /\ doing' = IF a = b THEN Idle ELSE NewName(a, b)
  /\ UNCHANGED <<up, cfg, ruleVars, tokens, held>>

\* Mutant: the rule already under the new name is overwritten.
MoveRulesOver ==
  /\ doing.op = "move"
  /\ LET a == doing.from  b == doing.to IN
     /\ rules' = [p \in DOMAIN rules |->
          IF p[2] = a THEN "none"
          ELSE IF p[2] = b /\ rules[<<p[1], a>>] # "none" THEN rules[<<p[1], a>>] ELSE rules[p]]
     /\ said' = {p \in said : p[2] # a} \cup {p \in Identities \X {b} : <<p[1], a>> \in said}
     /\ tokens' = [k \in Tokens |->
          IF tokens[k] # NoToken /\ a \in tokens[k].chosen
          THEN [tokens[k] EXCEPT !.chosen = (@ \ {a}) \cup {b}] ELSE tokens[k]]
  /\ doing' = Idle
  /\ UNCHANGED <<up, cfg, fileVars, held, edits>>

\* rename_tool_rules: a rule already under the new name wins; none stays
\* under the old.  The history follows the tool.
MoveRules ==
  /\ doing.op = "move"
  /\ LET a == doing.from  b == doing.to IN
     /\ rules' = [p \in DOMAIN rules |->
          IF p[2] = a THEN "none"
          ELSE IF p[2] = b /\ rules[p] = "none" THEN rules[<<p[1], a>>] ELSE rules[p]]
     /\ said' = {p \in said : p[2] # a} \cup {p \in Identities \X {b} : p \in said \/ <<p[1], a>> \in said}
     /\ tokens' = [k \in Tokens |->
          IF tokens[k] # NoToken /\ a \in tokens[k].chosen
          THEN [tokens[k] EXCEPT !.chosen = (@ \ {a}) \cup {b}] ELSE tokens[k]]
  /\ doing' = Idle
  /\ UNCHANGED <<up, cfg, fileVars, held, edits>>

\* set_publish: nothing this module models changes, but the file is written.
SetPublish == /\ Command /\ SaveChecked(cfg)
              /\ UNCHANGED <<up, cfg, ruleVars, tokens, held, doing>>

\* delete_tool: the file first, then the rules.
DeleteTool(t) == /\ Command /\ cfg.tool[t] # "none"
                 /\ SaveChecked(Without(cfg, {t}))
                 /\ doing' = Forget({t})
                 /\ UNCHANGED <<up, cfg, ruleVars, tokens, held>>

\* forget_tool, one tool at a time.
ForgetTool(t) == /\ doing.op = "forget" /\ t \in doing.tools
                 /\ rules' = [p \in DOMAIN rules |-> IF p[2] = t THEN "none" ELSE rules[p]]
                 /\ doing' = IF doing.tools = {t} THEN Idle ELSE Forget(doing.tools \ {t})
                 /\ UNCHANGED <<up, cfg, fileVars, tokens, held, edits, said>>

Users == {t \in Names : cfg.tool[t] = "script"}

\* delete_script, with the tools that run it: the body goes first.
DeleteScript == /\ Command /\ cfg.script # 0
                /\ body' = 0
                /\ doing' = Write(Scripted(Without(cfg, Users), 0), Users)
                /\ UNCHANGED <<up, cfg, disk, unchecked, ruleVars, tokens, held>>

\* save_script: the body goes first.
SaveScript(v) == /\ Command
                 /\ body' = v
                 /\ doing' = Write(Scripted(cfg, v), {})
                 /\ UNCHANGED <<up, cfg, disk, unchecked, ruleVars, tokens, held>>

\* apply_pack with a script in the pack, replacing: merge writes the body first.
ApplyScriptPack(v, t, S) == /\ Command
                            /\ body' = v
                            /\ doing' = Write(Seeded(Scripted(Tooled(cfg, t, "script"), v), S), {})
                            /\ UNCHANGED <<up, cfg, disk, unchecked, ruleVars, tokens, held>>

\* The second half of a script command: write the file ...
WriteFile == /\ doing.op = "write"
             /\ SaveChecked(doing.cfg)
             /\ doing' = IF doing.tools = {} THEN Idle ELSE Forget(doing.tools)
             /\ UNCHANGED <<up, cfg, ruleVars, tokens, held, edits>>

\* ... or find the rest of the configuration wanting (a command that is not
\* on this machine, an upstream the pack does not declare) and refuse.
WriteRefused == /\ doing.op = "write"
                /\ doing' = Idle /\ unchecked' = TRUE
                /\ UNCHANGED <<up, cfg, disk, body, ruleVars, tokens, held, edits>>

\* add_script_tool.
AddScriptTool(t, deny) ==
  /\ Command /\ cfg.script # 0 /\ cfg.tool[t] = "none"
  /\ LET c == Tooled(cfg, t, "script") IN
     SaveChecked(IF deny THEN [c EXCEPT !.seeds = @ \cup {<<AnyOne, t, "deny">>}] ELSE c)
  /\ UNCHANGED <<up, cfg, ruleVars, tokens, held, doing>>

\* apply_pack without scripts: a tool, new or replaced, and seeds.
ApplyPack(t, S) == /\ Command
                   /\ SaveChecked(Seeded(Tooled(cfg, t, "proxy"), S))
                   /\ UNCHANGED <<up, cfg, ruleVars, tokens, held, doing>>

\* add_connection: no seeds, and only a new tool is asked about.
AddConnection(t, ask) == /\ Command
                         /\ SaveChecked(Tooled(cfg, t, "proxy"))
                         /\ doing' = IF ask /\ cfg.tool[t] = "none" THEN AskFirst(t) ELSE Idle
                         /\ UNCHANGED <<up, cfg, ruleVars, tokens, held>>

\* Every identity whose wildcard is deny is to be asked about the new tool.
AskAbout == LET walled == {p \in Who \X Names : p[2] = doing.tool /\ rules[<<p[1], Star>>] = "deny"} IN
            /\ doing.op = "ask"
            /\ rules' = [p \in DOMAIN rules |-> IF p \in walled THEN "ask" ELSE rules[p]]
            /\ said' = said \cup (walled \cap (Identities \X Names))
            /\ doing' = Idle
            /\ UNCHANGED <<up, cfg, fileVars, tokens, held, edits>>
-----------------------------------------------------------------------------
(* Rules and tokens.                                                       *)

\* set_identity.
SetRule(i, t, d) == /\ Command
                    /\ rules' = [rules EXCEPT ![<<i, t>>] = d]
                    /\ said' = said \cup {<<i, t>>}
                    /\ UNCHANGED <<up, cfg, fileVars, tokens, held, doing>>

\* `allow` and `deny` of the command line, on the same file and database and at
\* any time: it builds a gateway of its own, which seeds first.
CliRule(i, t, d) ==
  /\ edits < MaxEdits /\ edits' = edits + 1
  /\ Valid(disk, body) /\ t \in {Star} \cup {n \in Names : disk.tool[n] # "none"}
  /\ rules' = [Seeding(disk, rules) EXCEPT ![<<i, t>>] = d]
  /\ said' = said \cup {<<i, t>>} \cup {p \in Identities \X Subjects : rules'[p] # rules[p]}
  /\ UNCHANGED <<up, cfg, fileVars, tokens, held, doing>>

\* forget_identity: one rule goes.
ForgetRule(i, t) == /\ Command /\ rules[<<i, t>>] # "none"
                    /\ rules' = [rules EXCEPT ![<<i, t>>] = "none"]
                    /\ said' = said \cup {<<i, t>>}
                    /\ UNCHANGED <<up, cfg, fileVars, tokens, held, doing>>

\* Mutant: only rules reserve an identity.
TakenByRules == {i \in Identities : \E t \in Subjects : rules[<<i, t>>] # "none"}

\* Mutant: only tokens reserve an identity.
TakenByTokens == {i \in Identities : \E k \in Tokens : tokens[k] # NoToken /\ tokens[k].who = i}

\* identity_for: what reserves an identity is a token or a rule.
Taken == {i \in Identities : \/ \E t \in Subjects : rules[<<i, t>>] # "none"
                             \/ \E k \in Tokens : tokens[k] # NoToken /\ tokens[k].who = i}

\* issue_token: choose the first identity that is free.
IssueToken(T) ==
  /\ Command /\ \A t \in T : cfg.tool[t] # "none"
  /\ \E n \in DOMAIN Clients :
        /\ Clients[n] \notin Taken /\ \A m \in 1..n - 1 : Clients[m] \in Taken
        /\ doing' = Issue(Clients[n], T)
        /\ said' = {p \in said : p[1] # Clients[n]}
  /\ UNCHANGED <<up, cfg, fileVars, rules, tokens, held>>

\* Store::issue_token: the row, and deny to everything.
StoreToken(k) == LET i == doing.who IN
  /\ doing.op = "issue" /\ tokens[k] = NoToken
  /\ tokens' = [tokens EXCEPT ![k] = [who |-> i, chosen |-> doing.chosen, shown |-> FALSE]]
  /\ rules' = [rules EXCEPT ![<<i, Star>>] = "deny"]
  /\ doing' = Grant(k, doing.chosen)
  /\ UNCHANGED <<up, cfg, fileVars, held, edits, said>>

\* Each tool chosen is allowed.
GrantTool(t) == /\ doing.op = "grant" /\ t \in doing.todo
                /\ rules' = [rules EXCEPT ![<<tokens[doing.token].who, t>>] = "allow"]
                /\ doing' = Grant(doing.token, doing.todo \ {t})
                /\ UNCHANGED <<up, cfg, fileVars, tokens, held, edits, said>>

\* The secret is shown; until now nobody has it.
ShowSecret == /\ doing.op = "grant" /\ doing.todo = {}
              /\ tokens' = [tokens EXCEPT ![doing.token].shown = TRUE]
              /\ doing' = Idle
              /\ UNCHANGED <<up, cfg, fileVars, ruleVars, held, edits>>

\* revoke_token: the row goes, then, if asked, the identity's rules.
RevokeToken(k, forget) == /\ Command /\ tokens[k] # NoToken
                          /\ tokens' = [tokens EXCEPT ![k] = NoToken]
                          /\ doing' = IF forget THEN Drop(tokens[k].who) ELSE Idle
                          /\ UNCHANGED <<up, cfg, fileVars, ruleVars, held>>

DropRules == /\ doing.op = "drop"
             /\ rules' = [p \in DOMAIN rules |-> IF p[1] = doing.who THEN "none" ELSE rules[p]]
             /\ doing' = Idle
             /\ UNCHANGED <<up, cfg, fileVars, tokens, held, edits, said>>
-----------------------------------------------------------------------------
(* Calls in Approvals, stopping and starting.                              *)

\* A client's call is held: it came in on a token that was good at the time.
HoldCall(k, t) == /\ up /\ tokens[k] # NoToken /\ tokens[k].shown
                  /\ cfg.tool[t] # "none" /\ Decide(tokens[k].who, t) = "ask"
                  /\ held' = held \cup {<<tokens[k].who, t>>}
                  /\ UNCHANGED <<up, cfg, fileVars, ruleVars, tokens, doing, edits>>

\* Its Always is written by its own task, whatever has become of the token.
Remember(p) == /\ p \in held
               /\ held' = held \ {p}
               /\ rules' = [rules EXCEPT ![p] = "allow"]
               /\ said' = said \cup {p}
               /\ UNCHANGED <<up, cfg, fileVars, tokens, doing, edits>>

\* restart_app, quitting, or the process being killed in mid-command.
Stop == /\ up /\ edits < MaxEdits /\ edits' = edits + 1
        /\ up' = FALSE /\ held' = {} /\ doing' = Idle
        /\ unchecked' = (unchecked \/ doing.op = "write")
        /\ UNCHANGED <<cfg, disk, body, ruleVars, tokens>>

\* setup_app: Config::load, then Gateway::build.  A file that does not load
\* is the end of the app until someone mends it by hand.
Start == /\ ~up /\ Valid(disk, body)
         /\ up' = TRUE /\ cfg' = disk
         /\ rules' = Seeding(disk, rules)
         /\ said' = said \cup {p \in Identities \X Subjects : rules'[p] # rules[p]}
         /\ UNCHANGED <<fileVars, tokens, held, doing, edits>>

ConfigCommand == \/ \E a, b \in Names : SetToolFace(a, b)
                 \/ SetPublish \/ DeleteScript
                 \/ \E t \in Names : DeleteTool(t)
                 \/ \E v \in 1..MaxBody : SaveScript(v)
                 \/ \E v \in 1..MaxBody, t \in Names, S \in SUBSET PackSeeds : ApplyScriptPack(v, t, S)
                 \/ \E t \in Names, deny \in BOOLEAN : AddScriptTool(t, deny)
                 \/ \E t \in Names, S \in SUBSET PackSeeds : ApplyPack(t, S)
                 \/ \E t \in Names, ask \in BOOLEAN : AddConnection(t, ask)

AccessCommand == \/ \E i \in Identities, t \in Subjects, d \in Decisions : SetRule(i, t, d)
                 \/ \E i \in Identities, t \in Subjects, d \in {"allow", "deny"} : CliRule(i, t, d)
                 \/ \E i \in Identities, t \in Subjects : ForgetRule(i, t)
                 \/ \E T \in SUBSET Names : IssueToken(T)
                 \/ \E k \in Tokens, forget \in BOOLEAN : RevokeToken(k, forget)

Continue == \/ MoveRules \/ WriteFile \/ WriteRefused \/ AskAbout \/ ShowSecret \/ DropRules
            \/ \E t \in Names : ForgetTool(t) \/ GrantTool(t)
            \/ \E k \in Tokens : StoreToken(k)

Calls == \/ \E k \in Tokens, t \in Names : HoldCall(k, t)
         \/ \E p \in held : Remember(p)

Next == ConfigCommand \/ AccessCommand \/ Continue \/ Calls \/ Stop \/ Start

Spec == Init /\ [][Next]_vars
-----------------------------------------------------------------------------
(* Properties.                                                             *)

Configs == [tool : [Names -> {"none", "proxy", "script"}], script : 0..MaxBody, seeds : SUBSET SeedSet]
Rows    == [who : Identities, chosen : SUBSET Names, shown : BOOLEAN]

TypeOK == /\ up \in BOOLEAN /\ unchecked \in BOOLEAN
          /\ cfg \in Configs /\ disk \in Configs
          /\ body \in 0..MaxBody /\ edits \in 0..MaxEdits
          /\ rules \in [Who \X Subjects -> Decisions \cup {"none"}]
          /\ tokens \in [Tokens -> Rows \cup {NoToken}]
          /\ held \subseteq Identities \X Names
          /\ said \subseteq Identities \X Subjects

\* identity_for: no two tokens issued from the window share an identity, and
\* with it one set of permissions, whatever was revoked or forgotten.
TokensKeepApart ==
  \A k, l \in Tokens : tokens[k] # NoToken /\ tokens[l] # NoToken /\ k # l =>
     tokens[k].who # tokens[l].who

\* A token whose secret was shown is denied every tool that was neither chosen
\* for it nor ruled on since, by a person or by a seed at a start: no rule of
\* an earlier client, or of a tool that changed its name, reaches it.
TokenIsNarrow ==
  \A k \in Tokens : tokens[k] # NoToken /\ tokens[k].shown =>
     \A t \in Names : Decide(tokens[k].who, t) # "deny" =>
        t \in tokens[k].chosen \/ said \cap ({tokens[k].who} \X {t, Star}) # {}

\* After a rename every client's decision for the new name is the one it had
\* for the old, or that of a rule the new name already had.
RenameCarriesDecisions ==
  [][ \A x, y \in Names : doing = NewName(x, y) /\ up' /\ doing' = Idle =>
        \A i \in Identities :
           Decide(i, y)' = IF rules[<<i, y>>] # "none" THEN Decide(i, y) ELSE Decide(i, x) ]_vars

\* Only a rename, a refused or interrupted script edit, leaves a file the app
\* will not start from: every other edit keeps it loadable, although what it
\* checks is its own copy and the body it shares with the file keeps changing.
CheckedEditsLoad == Valid(disk, body) \/ unchecked \/ doing.op = "write"

\* A saved configuration is one the app starts from.
SavedConfigLoads == Valid(disk, body) \/ doing.op = "write"
=============================================================================
