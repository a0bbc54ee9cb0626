--------------------------- MODULE ConsoleProofs ---------------------------
(***************************************************************************)
(* Tokens issued from the window keep apart, and checked edits leave a     *)
(* file the app starts from, for any names, clients, packs and bounds.     *)
(***************************************************************************)
EXTENDS Console, TLAPS

\* What a row of `tokens` is, and what the command under way remembers.
TokensOK == tokens \in [Tokens -> Rows \cup {NoToken}]

DoingOK ==
  /\ doing.op = "move" => doing.from \in Names /\ doing.to \in Names
  /\ doing.op = "issue" => doing.who \in Identities /\ doing.chosen \in SUBSET Names
  /\ doing.op = "grant" => doing.token \in Tokens /\ tokens[doing.token] # NoToken

\* The identity chosen for a token is still free when its row is written:
\* between the two steps nothing else of the window runs.
ChoiceIsFree ==
  doing.op = "issue" => \A k \in Tokens : tokens[k] # NoToken => tokens[k].who # doing.who

ApartInv == TokensOK /\ DoingOK /\ ChoiceIsFree /\ TokensKeepApart

\* A step that leaves the tokens alone, and ends its command or begins one
\* that is about something else, disturbs nothing.
LEMMA QuietStep ==
  ASSUME ApartInv, tokens' = tokens,
         doing' = doing \/ doing'.op \notin {"move", "issue", "grant"}
                        \/ /\ doing'.op = "grant" /\ doing.op = "grant"
                           /\ doing'.token = doing.token
                        \/ /\ doing'.op = "move"
                           /\ doing'.from \in Names /\ doing'.to \in Names
  PROVE  ApartInv'
BY DEF ApartInv, TokensOK, DoingOK, ChoiceIsFree, TokensKeepApart

\* The records of the commands, by their kind.
LEMMA Kinds ==
  /\ Idle.op = "idle"
  /\ \A a, b : /\ NewName(a, b).op = "move" /\ NewName(a, b).from = a /\ NewName(a, b).to = b
  /\ \A T : Forget(T).op = "forget"
  /\ \A t : AskFirst(t).op = "ask"
  /\ \A c, T : Write(c, T).op = "write"
  /\ \A i, T : /\ Issue(i, T).op = "issue" /\ Issue(i, T).who = i /\ Issue(i, T).chosen = T
  /\ \A k, T : Grant(k, T).op = "grant" /\ Grant(k, T).token = k
  /\ \A i : Drop(i).op = "drop"
BY DEF Idle, NewName, Forget, AskFirst, Write, Issue, Grant, Drop

LEMMA ApartInit == Init => ApartInv
BY Kinds DEF Init, ApartInv, TokensOK, DoingOK, ChoiceIsFree, TokensKeepApart

\* No command that edits the configuration touches a token.
LEMMA ConfigKeepsApart == ApartInv /\ ConfigCommand => ApartInv'
<1> SUFFICES ASSUME ApartInv, ConfigCommand PROVE ApartInv'
  OBVIOUS
<1>1. ASSUME NEW a \in Names, NEW b \in Names, SetToolFace(a, b) PROVE ApartInv'
  BY <1>1, QuietStep, Kinds DEF SetToolFace, Command
<1>2. ASSUME SetPublish PROVE ApartInv'
  BY <1>2, QuietStep DEF SetPublish
<1>3. ASSUME DeleteScript PROVE ApartInv'
  BY <1>3, QuietStep, Kinds DEF DeleteScript
<1>4. ASSUME NEW t \in Names, DeleteTool(t) PROVE ApartInv'
  BY <1>4, QuietStep, Kinds DEF DeleteTool
<1>5. ASSUME NEW v \in 1..MaxBody, SaveScript(v) PROVE ApartInv'
  BY <1>5, QuietStep, Kinds DEF SaveScript
<1>6. ASSUME NEW v \in 1..MaxBody, NEW t \in Names, NEW S \in SUBSET PackSeeds, ApplyScriptPack(v, t, S)
      PROVE  ApartInv'
  BY <1>6, QuietStep, Kinds DEF ApplyScriptPack
<1>7. ASSUME NEW t \in Names, NEW deny \in BOOLEAN, AddScriptTool(t, deny) PROVE ApartInv'
  BY <1>7, QuietStep DEF AddScriptTool
<1>8. ASSUME NEW t \in Names, NEW S \in SUBSET PackSeeds, ApplyPack(t, S) PROVE ApartInv'
  BY <1>8, QuietStep DEF ApplyPack
<1>9. ASSUME NEW t \in Names, NEW ask \in BOOLEAN, AddConnection(t, ask) PROVE ApartInv'
  BY <1>9, QuietStep, Kinds DEF AddConnection
<1> QED
  BY <1>1, <1>2, <1>3, <1>4, <1>5, <1>6, <1>7, <1>8, <1>9 DEF ConfigCommand

\* An issue chooses an identity no row has; a revocation only takes rows away.
LEMMA AccessKeepsApart == ApartInv /\ AccessCommand => ApartInv'
<1> SUFFICES ASSUME ApartInv, AccessCommand PROVE ApartInv'
  OBVIOUS
<1>1. ASSUME NEW i \in Identities, NEW t \in Subjects, NEW d \in Decisions, SetRule(i, t, d)
      PROVE  ApartInv'
  BY <1>1, QuietStep DEF SetRule
<1>2. ASSUME NEW i \in Identities, NEW t \in Subjects, ForgetRule(i, t) PROVE ApartInv'
  BY <1>2, QuietStep DEF ForgetRule
<1>3. ASSUME NEW T \in SUBSET Names, IssueToken(T) PROVE ApartInv'
  <2>1. PICK n \in DOMAIN Clients : Clients[n] \notin Taken /\ doing' = Issue(Clients[n], T)
    BY <1>3 DEF IssueToken
  <2>2. Clients[n] \in Identities
    BY DEF Identities
  <2>3. \A k \in Tokens : tokens[k] # NoToken => tokens[k].who # Clients[n]
    BY <2>1, <2>2 DEF Taken
  <2>4. tokens' = tokens
    BY <1>3 DEF IssueToken
  <2> QED
    BY <2>1, <2>2, <2>3, <2>4, Kinds DEF ApartInv, TokensOK, DoingOK, ChoiceIsFree, TokensKeepApart
<1>4. ASSUME NEW k \in Tokens, NEW forget \in BOOLEAN, RevokeToken(k, forget) PROVE ApartInv'
  <2>1. tokens' = [tokens EXCEPT ![k] = NoToken]
    BY <1>4 DEF RevokeToken
  <2>2. doing'.op \notin {"move", "issue", "grant"}
    BY <1>4, Kinds DEF RevokeToken
  <2> QED
    BY <2>1, <2>2 DEF ApartInv, TokensOK, DoingOK, ChoiceIsFree, TokensKeepApart
<1>5. ASSUME NEW i \in Identities, NEW t \in Subjects, NEW d \in {"allow", "deny"}, CliRule(i, t, d)
      PROVE  ApartInv'
  BY <1>5, QuietStep DEF CliRule
<1> QED
  BY <1>1, <1>2, <1>3, <1>4, <1>5 DEF AccessCommand

\* Of the steps that finish a command, three write rows of `tokens`.
LEMMA ContinueKeepsApart ==
  ASSUME ConsoleAssumption PROVE ApartInv /\ Continue => ApartInv'
<1> SUFFICES ASSUME ApartInv, Continue PROVE ApartInv'
  OBVIOUS
<1>1. ASSUME MoveRules PROVE ApartInv'
  <2> DEFINE a == doing.from
             b == doing.to
  <2>1. a \in Names /\ b \in Names
    BY <1>1 DEF MoveRules, ApartInv, DoingOK
  <2>2. tokens' = [k \in Tokens |->
          IF tokens[k] # NoToken /\ a \in tokens[k].chosen
          THEN [tokens[k] EXCEPT !.chosen = (@ \ {a}) \cup {b}] ELSE tokens[k]]
    BY <1>1 DEF MoveRules
  <2> HIDE DEF a, b
  <2>3. \A k \in Tokens : /\ tokens'[k] \in Rows \cup {NoToken}
                          /\ tokens'[k] = NoToken <=> tokens[k] = NoToken
                          /\ tokens[k] # NoToken => tokens'[k].who = tokens[k].who
    <3> TAKE k \in Tokens
    <3>1. CASE tokens[k] # NoToken /\ a \in tokens[k].chosen
      <4>1. tokens[k] \in Rows
        BY <3>1 DEF ApartInv, TokensOK
      <4>2. tokens'[k] = [tokens[k] EXCEPT !.chosen = (@ \ {a}) \cup {b}]
        BY <2>2, <3>1
      <4>3. tokens'[k] \in Rows /\ tokens'[k].who = tokens[k].who
        BY <2>1, <4>1, <4>2 DEF Rows
      <4> QED
        BY <3>1, <4>3 DEF ConsoleAssumption, Rows
    <3>2. CASE ~(tokens[k] # NoToken /\ a \in tokens[k].chosen)
      BY <2>2, <3>2 DEF ApartInv, TokensOK
    <3> QED
      BY <3>1, <3>2
  <2>4. doing'.op = "idle"
    BY <1>1, Kinds DEF MoveRules
  <2>5. tokens' \in [Tokens -> Rows \cup {NoToken}]
    BY <2>2, <2>3
  <2> QED
    BY <2>3, <2>4, <2>5 DEF ApartInv, TokensOK, DoingOK, ChoiceIsFree, TokensKeepApart
<1>2. ASSUME NEW k \in Tokens, StoreToken(k) PROVE ApartInv'
  <2> DEFINE row == [who |-> doing.who, chosen |-> doing.chosen, shown |-> FALSE]
  <2>1. /\ tokens' = [tokens EXCEPT ![k] = row] /\ doing.op = "issue"
        /\ doing' = Grant(k, doing.chosen)
    BY <1>2 DEF StoreToken
  <2>2. row \in Rows /\ row.who = doing.who
    BY <2>1 DEF ApartInv, DoingOK, Rows
  <2>3. row # NoToken
    BY <2>2 DEF Rows, ConsoleAssumption
  <2> HIDE DEF row
  <2>4. doing'.op = "grant" /\ doing'.token = k
    BY <2>1, Kinds
  <2> QED
    BY <2>1, <2>2, <2>3, <2>4 DEF ApartInv, TokensOK, DoingOK, ChoiceIsFree, TokensKeepApart
<1>3. ASSUME ShowSecret PROVE ApartInv'
  <2> DEFINE k == doing.token
             row == [tokens[k] EXCEPT !.shown = TRUE]
  <2>1. k \in Tokens /\ tokens[k] # NoToken /\ tokens[k] \in Rows
    BY <1>3 DEF ShowSecret, ApartInv, DoingOK, TokensOK
  <2>2. tokens' = [tokens EXCEPT ![k] = row] /\ doing' = Idle
    BY <1>3 DEF ShowSecret
  <2>3. row \in Rows /\ row # NoToken /\ row.who = tokens[k].who
    BY <2>1 DEF Rows, ConsoleAssumption
  <2> HIDE DEF k, row
  <2> QED
    BY <2>1, <2>2, <2>3, Kinds DEF ApartInv, TokensOK, DoingOK, ChoiceIsFree, TokensKeepApart
<1>4. ASSUME NEW t \in Names, GrantTool(t) PROVE ApartInv'
  BY <1>4, QuietStep, Kinds DEF GrantTool
<1>5. ASSUME NEW t \in Names, ForgetTool(t) PROVE ApartInv'
  BY <1>5, QuietStep, Kinds DEF ForgetTool
<1>6. ASSUME WriteFile \/ WriteRefused \/ AskAbout \/ DropRules PROVE ApartInv'
  BY <1>6, QuietStep, Kinds DEF WriteFile, WriteRefused, AskAbout, DropRules
<1> QED
  BY <1>1, <1>2, <1>3, <1>4, <1>5, <1>6 DEF Continue

\* One step of the system keeps tokens apart.
LEMMA ApartStep ==
  ASSUME ConsoleAssumption PROVE ApartInv /\ [Next]_vars => ApartInv'
<1> SUFFICES ASSUME ApartInv, [Next]_vars PROVE ApartInv'
  OBVIOUS
<1>1. ASSUME Calls \/ Stop \/ Start \/ UNCHANGED vars PROVE ApartInv'
  BY <1>1, QuietStep, Kinds DEF Calls, HoldCall, Remember, Stop, Start, vars
<1> QED
  BY <1>1, ConfigKeepsApart, AccessKeepsApart, ContinueKeepsApart DEF Next

\* identity_for (gatehound-app/src/main.rs): no two tokens issued from the
\* window ever share an identity, and with it one set of permissions.
THEOREM AlwaysApart == Spec => []TokensKeepApart
<1>1. Init => ApartInv
  BY ApartInit
<1>2. ApartInv /\ [Next]_vars => ApartInv'
  BY ApartStep, ConsoleAssumption
<1>3. ApartInv => TokensKeepApart
  BY DEF ApartInv
<1> QED
  BY <1>1, <1>2, <1>3, PTL DEF Spec
-----------------------------------------------------------------------------
\* A checked save leaves a file that loads with the body beside it.
LEMMA CheckedStep == CheckedEditsLoad /\ [Next]_vars => CheckedEditsLoad'
<1> SUFFICES ASSUME CheckedEditsLoad, [Next]_vars PROVE CheckedEditsLoad'
  OBVIOUS
<1> USE DEF CheckedEditsLoad
<1>1. ASSUME NEW c, SaveChecked(c) PROVE CheckedEditsLoad'
  BY <1>1 DEF SaveChecked, Valid
<1>2. ASSUME NEW c, SaveUnchecked(c) PROVE CheckedEditsLoad'
  BY <1>2 DEF SaveUnchecked
<1>3. ASSUME doing'.op = "write" PROVE CheckedEditsLoad'
  BY <1>3
<1>4. ASSUME UNCHANGED <<disk, body>>, unchecked => unchecked', doing.op = "write" => unchecked' \/ doing'.op = "write"
      PROVE  CheckedEditsLoad'
  BY <1>4 DEF Valid
<1>5. CASE ConfigCommand
  <2>1. ASSUME NEW a \in Names, NEW b \in Names, SetToolFace(a, b) PROVE CheckedEditsLoad'
    BY <1>2, <2>1 DEF SetToolFace
  <2>2. ASSUME SetPublish PROVE CheckedEditsLoad'
    BY <1>1, <2>2 DEF SetPublish
  <2>3. ASSUME NEW t \in Names, DeleteTool(t) PROVE CheckedEditsLoad'
    BY <1>1, <2>3 DEF DeleteTool
  <2>4. ASSUME DeleteScript \/ \E v \in 1..MaxBody : SaveScript(v) PROVE CheckedEditsLoad'
    BY <1>3, <2>4, Kinds DEF DeleteScript, SaveScript
  <2>5. ASSUME NEW v \in 1..MaxBody, NEW t \in Names, NEW S \in SUBSET PackSeeds, ApplyScriptPack(v, t, S)
        PROVE  CheckedEditsLoad'
    BY <1>3, <2>5, Kinds DEF ApplyScriptPack
  <2>6. ASSUME NEW t \in Names, NEW deny \in BOOLEAN, AddScriptTool(t, deny) PROVE CheckedEditsLoad'
    BY <1>1, <2>6 DEF AddScriptTool
  <2>7. ASSUME NEW t \in Names, NEW S \in SUBSET PackSeeds, ApplyPack(t, S) PROVE CheckedEditsLoad'
    BY <1>1, <2>7 DEF ApplyPack
  <2>8. ASSUME NEW t \in Names, NEW ask \in BOOLEAN, AddConnection(t, ask) PROVE CheckedEditsLoad'
    BY <1>1, <2>8 DEF AddConnection
  <2> QED
    BY <1>5, <2>1, <2>2, <2>3, <2>4, <2>5, <2>6, <2>7, <2>8 DEF ConfigCommand
<1>6. CASE AccessCommand
  BY <1>4, <1>6, Kinds DEF AccessCommand, SetRule, CliRule, ForgetRule, IssueToken, RevokeToken, Command, fileVars
<1>7. CASE Continue
  BY <1>1, <1>4, <1>7, Kinds
  DEF Continue, MoveRules, WriteFile, WriteRefused, AskAbout, ShowSecret, DropRules,
      ForgetTool, GrantTool, StoreToken, fileVars
<1>8. CASE Calls \/ Stop \/ Start \/ UNCHANGED vars
  BY <1>4, <1>8, Kinds DEF Calls, HoldCall, Remember, Stop, Start, vars, fileVars
<1> QED
  BY <1>5, <1>6, <1>7, <1>8 DEF Next

\* write_config (gatehound-app/src/main.rs): only a rename, or a script edit
\* refused or interrupted half way, leaves a file the app cannot start from.
THEOREM AlwaysLoads == Spec => []CheckedEditsLoad
<1>1. Init => CheckedEditsLoad
  BY DEF Init, CheckedEditsLoad, Valid
<1> QED
  BY <1>1, CheckedStep, PTL DEF Spec
-----------------------------------------------------------------------------
(* Types.                                                                  *)

Faces     == {"none", "proxy", "script"}
RuleTable == [Who \X Subjects -> Decisions \cup {"none"}]

FileTypes == /\ up \in BOOLEAN /\ unchecked \in BOOLEAN
             /\ cfg \in Configs /\ disk \in Configs
             /\ body \in 0..MaxBody /\ edits \in 0..MaxEdits
             /\ doing.op = "write" => doing.cfg \in Configs

RuleTypes == /\ rules \in RuleTable
             /\ held \subseteq Identities \X Names /\ said \subseteq Identities \X Subjects

LEMMA Fields ==
  /\ \A t : AskFirst(t).tool = t
  /\ \A c, T : Write(c, T).cfg = c
  /\ \A k, T : Grant(k, T).todo = T
  /\ \A i : Drop(i).who = i
BY DEF AskFirst, Write, Grant, Drop

\* What the commands write is a configuration.
LEMMA ConfigsOf ==
  ASSUME ConsoleAssumption, NEW c \in Configs
  PROVE  /\ \A t \in Names, f \in Faces : Tooled(c, t, f) \in Configs
         /\ \A v \in 0..MaxBody : Scripted(c, v) \in Configs
         /\ \A S \in SUBSET SeedSet : Seeded(c, S) \in Configs
         /\ \A T \in SUBSET Names : Without(c, T) \in Configs
         /\ \A a, b \in Names : Renamed(c, a, b) \in Configs
         /\ \A t \in Names : [c EXCEPT !.seeds = @ \cup {<<AnyOne, t, "deny">>}] \in Configs
<1>1. \A t \in Names, f \in Faces : Tooled(c, t, f) \in Configs
  BY DEF Tooled, Configs, Faces
<1>2. \A v \in 0..MaxBody : Scripted(c, v) \in Configs
  BY DEF Scripted, Configs
<1>3. \A S \in SUBSET SeedSet : Seeded(c, S) \in Configs
  BY DEF Seeded, Configs
<1>4. ASSUME NEW T \in SUBSET Names PROVE Without(c, T) \in Configs
  <2>1. [t \in Names |-> IF t \in T THEN "none" ELSE c.tool[t]] \in [Names -> Faces]
    BY DEF Configs, Faces
  <2>2. {s \in c.seeds : s[2] \notin T} \in SUBSET SeedSet
    BY DEF Configs
  <2> QED
    BY <2>1, <2>2 DEF Without, Configs, Faces
<1>5. ASSUME NEW a \in Names, NEW b \in Names PROVE Renamed(c, a, b) \in Configs
  BY DEF Renamed, Configs
<1>6. ASSUME NEW t \in Names PROVE [c EXCEPT !.seeds = @ \cup {<<AnyOne, t, "deny">>}] \in Configs
  <2>1. <<AnyOne, t, "deny">> \in SeedSet
    BY DEF SeedSet, Who, Subjects, Decisions
  <2> HIDE DEF SeedSet
  <2> QED
    BY <2>1 DEF Configs
<1> QED
  BY <1>1, <1>2, <1>3, <1>4, <1>5, <1>6

\* Seeding fills rows that are not there, from seeds of the configuration.
LEMMA SeedingTypes ==
  ASSUME NEW c \in Configs, NEW r \in RuleTable PROVE Seeding(c, r) \in RuleTable
<1> SUFFICES ASSUME NEW p \in Who \X Subjects, r[p] = "none", \E s \in c.seeds : <<s[1], s[2]>> = p
             PROVE  (CHOOSE s \in c.seeds : <<s[1], s[2]>> = p)[3] \in Decisions
  BY DEF Seeding, RuleTable
<1>1. (CHOOSE s \in c.seeds : <<s[1], s[2]>> = p) \in SeedSet
  BY DEF Configs
<1> QED
  BY <1>1 DEF SeedSet

LEMMA SaveTypes ==
  ASSUME FileTypes, NEW c \in Configs, SaveChecked(c) \/ SaveUnchecked(c)
  PROVE  disk' \in Configs /\ body' \in 0..MaxBody /\ unchecked' \in BOOLEAN
BY DEF FileTypes, SaveChecked, SaveUnchecked

LEMMA FileStep == ASSUME ConsoleAssumption, FileTypes, Next PROVE FileTypes'
<1>1. ASSUME Command PROVE edits' \in 0..MaxEdits
  BY <1>1 DEF FileTypes, Command, ConsoleAssumption
<1>2. cfg \in Configs /\ 0 \in 0..MaxBody
  BY DEF FileTypes, ConsoleAssumption
<1>3. ASSUME NEW a \in Names, NEW b \in Names, SetToolFace(a, b) PROVE FileTypes'
  <2>1. \E c \in Configs : SaveUnchecked(c)
    BY <1>2, <1>3, ConfigsOf DEF SetToolFace
  <2> QED
    BY <1>1, <1>3, <2>1, SaveTypes, Kinds DEF SetToolFace, FileTypes
<1>4. ASSUME SetPublish PROVE FileTypes'
  BY <1>1, <1>2, <1>4, SaveTypes, Kinds DEF SetPublish, FileTypes, Command
<1>5. ASSUME NEW t \in Names, DeleteTool(t) PROVE FileTypes'
  <2>1. Without(cfg, {t}) \in Configs
    BY <1>2, ConfigsOf
  <2> QED
    BY <1>1, <1>5, <2>1, SaveTypes, Kinds DEF DeleteTool, FileTypes
<1>6. ASSUME DeleteScript PROVE FileTypes'
  <2>1. Scripted(Without(cfg, Users), 0) \in Configs
    BY <1>2, ConfigsOf DEF Users
  <2> QED
    BY <1>1, <1>2, <1>6, <2>1, Kinds, Fields DEF DeleteScript, FileTypes
<1>7. ASSUME NEW v \in 1..MaxBody, SaveScript(v) PROVE FileTypes'
  <2>1. v \in 0..MaxBody
    BY DEF ConsoleAssumption
  <2>2. Scripted(cfg, v) \in Configs
    BY <1>2, <2>1, ConfigsOf
  <2> QED
    BY <1>1, <1>7, <2>1, <2>2, Kinds, Fields DEF SaveScript, FileTypes
<1>8. ASSUME NEW v \in 1..MaxBody, NEW t \in Names, NEW S \in SUBSET PackSeeds, ApplyScriptPack(v, t, S)
      PROVE  FileTypes'
  <2>1. v \in 0..MaxBody
    BY DEF ConsoleAssumption
  <2>2. Scripted(Tooled(cfg, t, "script"), v) \in Configs
    BY <1>2, <2>1, ConfigsOf DEF Faces
  <2>3. Seeded(Scripted(Tooled(cfg, t, "script"), v), S) \in Configs
    BY <2>2, ConfigsOf DEF ConsoleAssumption
  <2> QED
    BY <1>1, <1>8, <2>1, <2>3, Kinds, Fields DEF ApplyScriptPack, FileTypes
<1>9. ASSUME NEW t \in Names, NEW deny \in BOOLEAN, AddScriptTool(t, deny) PROVE FileTypes'
  <2>1. Tooled(cfg, t, "script") \in Configs
    BY <1>2, ConfigsOf DEF Faces
  <2>2. [Tooled(cfg, t, "script") EXCEPT !.seeds = @ \cup {<<AnyOne, t, "deny">>}] \in Configs
    BY <2>1, ConfigsOf
  <2>3. \E c \in Configs : SaveChecked(c)
    BY <1>9, <2>1, <2>2 DEF AddScriptTool
  <2> QED
    BY <1>1, <1>9, <2>3, SaveTypes DEF AddScriptTool, FileTypes
<1>10. ASSUME NEW t \in Names, NEW S \in SUBSET PackSeeds, ApplyPack(t, S) PROVE FileTypes'
  <2>1. Tooled(cfg, t, "proxy") \in Configs
    BY <1>2, ConfigsOf DEF Faces
  <2>2. Seeded(Tooled(cfg, t, "proxy"), S) \in Configs
    BY <2>1, ConfigsOf DEF ConsoleAssumption
  <2> QED
    BY <1>1, <1>10, <2>2, SaveTypes DEF ApplyPack, FileTypes
<1>11. ASSUME NEW t \in Names, NEW ask \in BOOLEAN, AddConnection(t, ask) PROVE FileTypes'
  <2>1. Tooled(cfg, t, "proxy") \in Configs
    BY <1>2, ConfigsOf DEF Faces
  <2> QED
    BY <1>1, <1>11, <2>1, SaveTypes, Kinds DEF AddConnection, FileTypes
<1>12. ASSUME UNCHANGED <<up, cfg, disk, body>>, unchecked' \in BOOLEAN, edits' \in 0..MaxEdits,
              doing' = doing \/ doing'.op # "write"
       PROVE  FileTypes'
  BY <1>12 DEF FileTypes
<1>13. unchecked \in BOOLEAN /\ edits \in 0..MaxEdits /\ MaxEdits \in Nat
  BY DEF FileTypes, ConsoleAssumption
<1>14. CASE AccessCommand
  <2>1. UNCHANGED <<up, cfg, disk, body, unchecked>> /\ edits < MaxEdits /\ edits' = edits + 1
    BY <1>14 DEF AccessCommand, SetRule, CliRule, ForgetRule, IssueToken, RevokeToken, Command, fileVars
  <2>2. doing' = doing \/ doing'.op # "write"
    <3>1. ASSUME NEW T \in SUBSET Names, IssueToken(T) PROVE doing'.op # "write"
      BY <3>1, Kinds DEF IssueToken
    <3>2. ASSUME NEW k \in Tokens, NEW forget \in BOOLEAN, RevokeToken(k, forget)
          PROVE  doing'.op # "write"
      BY <3>2, Kinds DEF RevokeToken
    <3> QED
      BY <1>14, <3>1, <3>2 DEF AccessCommand, SetRule, CliRule, ForgetRule
  <2>3. edits' \in 0..MaxEdits
    BY <1>13, <2>1
  <2> QED
    BY <1>12, <1>13, <2>1, <2>2, <2>3
<1>15. CASE Continue
  <2>1. CASE WriteFile
    BY <2>1, SaveTypes, Kinds DEF WriteFile, FileTypes
  <2>2. CASE MoveRules \/ WriteRefused \/ AskAbout \/ ShowSecret \/ DropRules
    <3>1. UNCHANGED <<up, cfg, disk, body, edits>> /\ unchecked' \in BOOLEAN
      BY <1>13, <2>2 DEF MoveRules, WriteRefused, AskAbout, ShowSecret, DropRules, fileVars
    <3>2. doing'.op # "write"
      BY <2>2, Kinds DEF MoveRules, WriteRefused, AskAbout, ShowSecret, DropRules
    <3> QED
      BY <1>12, <1>13, <3>1, <3>2
  <2>3. ASSUME NEW t \in Names, ForgetTool(t) \/ GrantTool(t) PROVE FileTypes'
    BY <1>12, <1>13, <2>3, Kinds DEF ForgetTool, GrantTool, fileVars
  <2>4. ASSUME NEW k \in Tokens, StoreToken(k) PROVE FileTypes'
    BY <1>12, <1>13, <2>4, Kinds DEF StoreToken, fileVars
  <2> QED
    BY <1>15, <2>1, <2>2, <2>3, <2>4 DEF Continue
<1>16. CASE Calls
  BY <1>12, <1>13, <1>16 DEF Calls, HoldCall, Remember, fileVars
<1>17. CASE Stop
  <2>1. edits' \in 0..MaxEdits
    BY <1>13, <1>17 DEF Stop
  <2> QED
    BY <1>17, <2>1, Kinds DEF Stop, FileTypes
<1>18. CASE Start
  BY <1>18 DEF Start, FileTypes, fileVars
<1> QED
  BY <1>3, <1>4, <1>5, <1>6, <1>7, <1>8, <1>9, <1>10, <1>11, <1>14, <1>15, <1>16, <1>17, <1>18
  DEF Next, ConfigCommand
\* Every rule is about an identity and a tool, or the wildcard.
LEMMA RuleStep ==
  ASSUME ConsoleAssumption, ApartInv, FileTypes, RuleTypes,
         doing.op = "ask" => doing.tool \in Names, Next
  PROVE  RuleTypes'
<1> USE DEF RuleTypes
<1>1. ASSUME UNCHANGED <<rules, held, said>> PROVE RuleTypes'
  BY <1>1
<1>2. ASSUME NEW i \in Identities, NEW t \in Subjects, NEW d \in Decisions \cup {"none"},
             NEW r \in RuleTable, rules' = [r EXCEPT ![<<i, t>>] = d]
      PROVE  rules' \in RuleTable
  <2>1. <<i, t>> \in Who \X Subjects
    BY DEF Who
  <2> QED
    BY <1>2, <2>1 DEF RuleTable
<1>3. \A k \in Tokens : tokens[k] # NoToken =>
        tokens[k].who \in Identities /\ tokens[k].chosen \subseteq Names
  BY DEF ApartInv, TokensOK, Rows
<1>4. Seeding(disk, rules) \in RuleTable
  BY SeedingTypes DEF FileTypes
<1>5. CASE ConfigCommand
  BY <1>1, <1>5 DEF ConfigCommand, SetToolFace, SetPublish, DeleteScript, DeleteTool, SaveScript,
                    ApplyScriptPack, AddScriptTool, ApplyPack, AddConnection, ruleVars
<1>6. ASSUME NEW i \in Identities, NEW t \in Subjects, NEW d \in Decisions, SetRule(i, t, d) PROVE RuleTypes'
  <2>1. rules' \in RuleTable
    BY <1>2, <1>6 DEF SetRule
  <2> QED
    BY <1>6, <2>1 DEF SetRule
<1>7. ASSUME NEW i \in Identities, NEW t \in Subjects, NEW d \in {"allow", "deny"}, CliRule(i, t, d)
      PROVE  RuleTypes'
  <2>1. rules' \in RuleTable
    BY <1>2, <1>4, <1>7 DEF CliRule, Decisions
  <2> QED
    BY <1>7, <2>1 DEF CliRule
<1>8. ASSUME NEW i \in Identities, NEW t \in Subjects, ForgetRule(i, t) PROVE RuleTypes'
  <2>1. rules' \in RuleTable
    BY <1>2, <1>8 DEF ForgetRule
  <2> QED
    BY <1>8, <2>1 DEF ForgetRule
<1>9. ASSUME NEW T \in SUBSET Names, IssueToken(T) PROVE RuleTypes'
  BY <1>9 DEF IssueToken
<1>10. ASSUME NEW k \in Tokens, NEW forget \in BOOLEAN, RevokeToken(k, forget) PROVE RuleTypes'
  BY <1>1, <1>10 DEF RevokeToken, ruleVars
<1>11. ASSUME MoveRules PROVE RuleTypes'
  <2> DEFINE a == doing.from
             b == doing.to
  <2>1. a \in Names /\ b \in Names
    BY <1>11 DEF MoveRules, ApartInv, DoingOK
  <2>2. /\ rules' = [p \in DOMAIN rules |->
             IF p[2] = a THEN "none"
             ELSE IF p[2] = b /\ rules[p] = "none" THEN rules[<<p[1], a>>] ELSE rules[p]]
        /\ said' = {p \in said : p[2] # a} \cup
                   {p \in Identities \X {b} : p \in said \/ <<p[1], a>> \in said}
        /\ held' = held
    BY <1>11 DEF MoveRules
  <2> HIDE DEF a, b
  <2>3. a \in Subjects /\ b \in Subjects
    BY <2>1 DEF Subjects
  <2>4. rules' \in RuleTable
    <3>1. \A p \in Who \X Subjects : <<p[1], a>> \in Who \X Subjects
      BY <2>3
    <3> QED
      BY <2>2, <3>1 DEF RuleTable
  <2>5. said' \subseteq Identities \X Subjects
    BY <2>2, <2>3
  <2> QED
    BY <2>2, <2>4, <2>5
<1>12. ASSUME AskAbout PROVE RuleTypes'
  <2>1. rules' \in RuleTable
    BY <1>12 DEF AskAbout, RuleTable, Decisions
  <2>2. Names \subseteq Subjects
    BY DEF Subjects
  <2> QED
    BY <1>12, <2>1, <2>2 DEF AskAbout
<1>13. ASSUME DropRules \/ \E t \in Names : ForgetTool(t) PROVE RuleTypes'
  BY <1>13 DEF DropRules, ForgetTool, RuleTable
<1>14. ASSUME WriteFile \/ WriteRefused \/ ShowSecret PROVE RuleTypes'
  BY <1>1, <1>14 DEF WriteFile, WriteRefused, ShowSecret, ruleVars
<1>15. ASSUME NEW t \in Names, GrantTool(t) PROVE RuleTypes'
  <2>1. tokens[doing.token].who \in Identities /\ t \in Subjects
    BY <1>3, <1>15 DEF GrantTool, ApartInv, DoingOK, Subjects
  <2> QED
    BY <1>2, <1>15, <2>1 DEF GrantTool, Decisions
<1>16. ASSUME NEW k \in Tokens, StoreToken(k) PROVE RuleTypes'
  <2>1. doing.who \in Identities /\ Star \in Subjects
    BY <1>16 DEF StoreToken, ApartInv, DoingOK, Subjects
  <2> QED
    BY <1>2, <1>16, <2>1 DEF StoreToken, Decisions
<1>17. ASSUME NEW k \in Tokens, NEW t \in Names, HoldCall(k, t) PROVE RuleTypes'
  BY <1>3, <1>17 DEF HoldCall, ruleVars
<1>18. ASSUME NEW p \in held, Remember(p) PROVE RuleTypes'
  <2>1. p \in Identities \X Subjects /\ p \in Who \X Subjects
    BY DEF Subjects, Who
  <2> QED
    BY <1>18, <2>1 DEF Remember, RuleTable, Decisions
<1>19. CASE Stop
  BY <1>19 DEF Stop, ruleVars
<1>20. CASE Start
  BY <1>4, <1>20 DEF Start
<1> QED
  BY <1>5, <1>6, <1>7, <1>8, <1>9, <1>10, <1>11, <1>12, <1>13, <1>14, <1>15, <1>16, <1>17, <1>18,
     <1>19, <1>20 DEF Next, AccessCommand, Continue, Calls
-----------------------------------------------------------------------------
(* What a token may do.                                                    *)

\* Everything is ruled out for the identity but what was chosen or ruled on.
Narrow(i, chosen) ==
  \/ <<i, Star>> \in said
  \/ /\ rules[<<i, Star>>] = "deny"
     /\ \A t \in Names : rules[<<i, t>>] \in {"none", "deny"} \/ t \in chosen \/ <<i, t>> \in said

\* Nobody had ruled on the identity when it was chosen, and nothing is left of
\* one whose token is being revoked.
DoingMore ==
  /\ doing.op = "move" => doing.from # doing.to
  /\ doing.op = "ask" => doing.tool \in Names
  /\ doing.op = "issue" => \A t \in Subjects : rules[<<doing.who, t>>] # "none" =>
                                                  <<doing.who, t>> \in said
  /\ doing.op = "grant" => doing.todo \subseteq tokens[doing.token].chosen
  /\ doing.op = "drop" => \A k \in Tokens : tokens[k] # NoToken => tokens[k].who # doing.who

NarrowInv == \A k \in Tokens :
  tokens[k] # NoToken /\ (tokens[k].shown \/ (doing.op = "grant" /\ doing.token = k)) =>
    Narrow(tokens[k].who, tokens[k].chosen)

IInv == ApartInv /\ FileTypes /\ RuleTypes /\ DoingMore /\ NarrowInv

\* Rules that change only where they go, or where a person or a seed ruled.
Ruled == /\ tokens' = tokens /\ said \subseteq said'
         /\ \A i \in Identities :
              /\ rules'[<<i, Star>>] = rules[<<i, Star>>] \/ <<i, Star>> \in said'
              /\ \A t \in Names : \/ rules'[<<i, t>>] \in {rules[<<i, t>>], "none"}
                                  \/ <<i, t>> \in said'

LEMMA RuledNarrow ==
  ASSUME IInv, Ruled, doing' = doing \/ doing'.op \notin {"issue", "grant", "drop"},
         doing'.op = "move" => doing'.from # doing'.to, doing'.op = "ask" => doing'.tool \in Names
  PROVE  DoingMore' /\ NarrowInv'
<1>1. \A k \in Tokens : tokens[k] # NoToken =>
        tokens[k].who \in Identities /\ tokens[k].chosen \subseteq Names
  BY DEF IInv, ApartInv, TokensOK, Rows
<1>2. NarrowInv'
  BY <1>1 DEF IInv, NarrowInv, Narrow, Ruled
<1>3. doing'.op = "issue" => \A t \in Subjects : rules'[<<doing'.who, t>>] # "none" =>
                                                   <<doing'.who, t>> \in said'
  BY DEF IInv, DoingMore, ApartInv, DoingOK, Ruled, Subjects
<1> QED
  BY <1>2, <1>3 DEF IInv, DoingMore, Ruled

\* Nothing is ruled by the steps that touch neither rules nor tokens.
LEMMA SameRules == ASSUME UNCHANGED <<rules, said, tokens>> PROVE Ruled
BY DEF Ruled

LEMMA NarrowStep == ASSUME ConsoleAssumption, IInv, Next PROVE DoingMore' /\ NarrowInv'
<1>1. \A k \in Tokens : tokens[k] # NoToken =>
        /\ tokens[k] \in Rows /\ tokens[k].who \in Identities /\ tokens[k].chosen \subseteq Names
        /\ tokens[k].shown \in BOOLEAN
  BY DEF IInv, ApartInv, TokensOK, Rows
<1>2. rules \in RuleTable /\ said \subseteq Identities \X Subjects /\ Identities \subseteq Who
  BY DEF IInv, RuleTypes, Who
<1>3. Names \subseteq Subjects /\ Star \in Subjects /\ Star \notin Names
  BY DEF Subjects, ConsoleAssumption
<1>4. CASE ConfigCommand
  <2>1. Ruled
    BY <1>4, SameRules
    DEF ConfigCommand, SetToolFace, SetPublish, DeleteScript, DeleteTool, SaveScript,
        ApplyScriptPack, AddScriptTool, ApplyPack, AddConnection, ruleVars
  <2>2. ASSUME NEW a \in Names, NEW b \in Names, SetToolFace(a, b) PROVE DoingMore' /\ NarrowInv'
    BY <2>1, <2>2, RuledNarrow, Kinds DEF SetToolFace
  <2>3. ASSUME NEW t \in Names, NEW ask \in BOOLEAN, AddConnection(t, ask)
        PROVE  DoingMore' /\ NarrowInv'
    BY <2>1, <2>3, RuledNarrow, Kinds, Fields DEF AddConnection
  <2>4. ASSUME NEW t \in Names, DeleteTool(t) PROVE DoingMore' /\ NarrowInv'
    BY <2>1, <2>4, RuledNarrow, Kinds DEF DeleteTool
  <2>5. ASSUME doing'.op = "write" \/ doing' = doing PROVE DoingMore' /\ NarrowInv'
    BY <2>1, <2>5, RuledNarrow DEF IInv, DoingMore
  <2>6. ASSUME \/ DeleteScript
               \/ \E v \in 1..MaxBody : SaveScript(v)
               \/ \E v \in 1..MaxBody, t \in Names, S \in SUBSET PackSeeds : ApplyScriptPack(v, t, S)
        PROVE  doing'.op = "write"
    BY <2>6, Kinds DEF DeleteScript, SaveScript, ApplyScriptPack
  <2>7. ASSUME \/ SetPublish
               \/ \E t \in Names, deny \in BOOLEAN : AddScriptTool(t, deny)
               \/ \E t \in Names, S \in SUBSET PackSeeds : ApplyPack(t, S)
        PROVE  doing' = doing
    BY <2>7 DEF SetPublish, AddScriptTool, ApplyPack
  <2> QED
    BY <1>4, <2>2, <2>3, <2>4, <2>5, <2>6, <2>7 DEF ConfigCommand
<1>5. ASSUME NEW r \in RuleTable, NEW i \in Identities, NEW t \in Subjects, NEW d,
             rules' = [r EXCEPT ![<<i, t>>] = d], said' = said \cup {<<i, t>>}
                        \cup {p \in Identities \X Subjects : rules'[p] # rules[p]},
             tokens' = tokens
      PROVE  Ruled
  BY <1>2, <1>3, <1>5 DEF Ruled
<1>6. ASSUME NEW i \in Identities, NEW t \in Subjects, NEW d,
             rules' = [rules EXCEPT ![<<i, t>>] = d], said' = said \cup {<<i, t>>},
             tokens' = tokens
      PROVE  Ruled
  <2>1. \A p \in Who \X Subjects : p # <<i, t>> => rules'[p] = rules[p]
    BY <1>2, <1>6 DEF RuleTable
  <2>2. \A j \in Identities, u \in Subjects : <<j, u>> \in Who \X Subjects
    BY <1>2
  <2> QED
    BY <1>3, <1>6, <2>1, <2>2 DEF Ruled
<1>7. ASSUME Ruled, doing' = doing \/ doing' = Idle PROVE DoingMore' /\ NarrowInv'
  <2>1. doing'.op = "move" => doing'.from # doing'.to
    BY <1>7, Kinds DEF IInv, DoingMore
  <2>2. doing'.op = "ask" => doing'.tool \in Names
    BY <1>7, Kinds DEF IInv, DoingMore
  <2>3. doing' = doing \/ doing'.op \notin {"issue", "grant", "drop"}
    BY <1>7, Kinds
  <2> QED
    BY <1>7, <2>1, <2>2, <2>3, RuledNarrow
<1>8. ASSUME NEW i \in Identities, NEW t \in Subjects,
             \/ \E d \in Decisions : SetRule(i, t, d)
             \/ \E d \in {"allow", "deny"} : CliRule(i, t, d)
             \/ ForgetRule(i, t)
      PROVE  DoingMore' /\ NarrowInv'
  <2>1. Seeding(disk, rules) \in RuleTable
    BY <1>2, SeedingTypes DEF IInv, FileTypes
  <2>2. Ruled
    BY <1>5, <1>6, <1>8, <2>1 DEF SetRule, CliRule, ForgetRule
  <2> QED
    BY <1>7, <1>8, <2>2 DEF SetRule, CliRule, ForgetRule
\* The identity is free, so that no token has it and no rule is about it.
<1>9. ASSUME NEW T \in SUBSET Names, IssueToken(T) PROVE DoingMore' /\ NarrowInv'
  <2>1. PICK n \in DOMAIN Clients : /\ Clients[n] \notin Taken /\ doing' = Issue(Clients[n], T)
                                    /\ said' = {p \in said : p[1] # Clients[n]}
    BY <1>9 DEF IssueToken
  <2>2. Clients[n] \in Identities /\ rules' = rules /\ tokens' = tokens
    BY <1>9 DEF Identities, IssueToken
  <2>3. /\ \A t \in Subjects : rules[<<Clients[n], t>>] = "none"
        /\ \A k \in Tokens : tokens[k] # NoToken => tokens[k].who # Clients[n]
    BY <2>1, <2>2 DEF Taken
  <2>4. \A i \in Identities \ {Clients[n]}, t \in Subjects : <<i, t>> \in said => <<i, t>> \in said'
    BY <2>1
  <2>5. doing'.op = "issue" /\ doing'.who = Clients[n]
    BY <2>1, Kinds
  <2>6. DoingMore'
    BY <2>2, <2>3, <2>5 DEF DoingMore
  <2>7. NarrowInv'
    BY <1>1, <1>3, <2>2, <2>3, <2>4, <2>5 DEF IInv, NarrowInv, Narrow
  <2> QED
    BY <2>6, <2>7
<1>10. ASSUME NEW k \in Tokens, NEW forget \in BOOLEAN, RevokeToken(k, forget)
       PROVE  DoingMore' /\ NarrowInv'
  <2>1. /\ tokens' = [tokens EXCEPT ![k] = NoToken] /\ UNCHANGED <<rules, said>>
        /\ tokens[k] # NoToken
    BY <1>10 DEF RevokeToken, ruleVars
  <2>2. doing'.op = "drop" => doing'.who = tokens[k].who
    BY <1>10, Kinds, Fields DEF RevokeToken
  <2>3. doing'.op \in {"idle", "drop"}
    BY <1>10, Kinds DEF RevokeToken
  <2>4. tokens'[k] = NoToken /\ \A l \in Tokens : l # k => tokens'[l] = tokens[l]
    BY <2>1 DEF IInv, ApartInv, TokensOK
  <2>5. DoingMore'
    BY <2>1, <2>2, <2>3, <2>4 DEF DoingMore, IInv, ApartInv, TokensKeepApart
  <2>6. NarrowInv'
    BY <2>1, <2>3, <2>4 DEF IInv, NarrowInv, Narrow
  <2> QED
    BY <2>5, <2>6
<1>11. ASSUME MoveRules PROVE DoingMore' /\ NarrowInv'
  <2> DEFINE a == doing.from
             b == doing.to
  <2>1. a \in Names /\ b \in Names /\ a # b /\ doing.op = "move" /\ doing' = Idle
    BY <1>11 DEF MoveRules, IInv, ApartInv, DoingOK, DoingMore
  <2>2. /\ rules' = [p \in DOMAIN rules |->
             IF p[2] = a THEN "none"
             ELSE IF p[2] = b /\ rules[p] = "none" THEN rules[<<p[1], a>>] ELSE rules[p]]
        /\ said' = {p \in said : p[2] # a} \cup
                   {p \in Identities \X {b} : p \in said \/ <<p[1], a>> \in said}
        /\ tokens' = [k \in Tokens |->
             IF tokens[k] # NoToken /\ a \in tokens[k].chosen
             THEN [tokens[k] EXCEPT !.chosen = (@ \ {a}) \cup {b}] ELSE tokens[k]]
    BY <1>11 DEF MoveRules
  <2> HIDE DEF a, b
  <2>3. ASSUME NEW i \in Identities, NEW t \in Subjects
        PROVE  /\ t \notin {a, b} => rules'[<<i, t>>] = rules[<<i, t>>]
               /\ rules'[<<i, a>>] = "none"
               /\ rules'[<<i, b>>] \in {rules[<<i, a>>], rules[<<i, b>>]}
               /\ <<i, t>> \in said /\ t # a => <<i, t>> \in said'
               /\ <<i, a>> \in said => <<i, b>> \in said'
    <3>1. <<i, t>> \in DOMAIN rules /\ <<i, a>> \in DOMAIN rules /\ <<i, b>> \in DOMAIN rules
      BY <1>2, <1>3, <2>1 DEF RuleTable
    <3>2. /\ t \notin {a, b} => rules'[<<i, t>>] = rules[<<i, t>>]
          /\ rules'[<<i, a>>] = "none"
          /\ rules'[<<i, b>>] \in {rules[<<i, a>>], rules[<<i, b>>]}
      BY <2>1, <2>2, <3>1
    <3>3. <<i, t>> \in said /\ t # a => <<i, t>> \in said'
      BY <2>2
    <3>4. <<i, a>> \in said => <<i, b>> \in said'
      BY <2>2
    <3> QED
      BY <3>2, <3>3, <3>4
  <2>4. ASSUME NEW k \in Tokens, tokens'[k] # NoToken
        PROVE  /\ tokens[k] # NoToken /\ tokens'[k].who = tokens[k].who
               /\ tokens'[k].shown = tokens[k].shown
               /\ tokens[k].chosen \ {a} \subseteq tokens'[k].chosen
               /\ a \in tokens[k].chosen => b \in tokens'[k].chosen
    <3>1. CASE tokens[k] # NoToken /\ a \in tokens[k].chosen
      <4>1. tokens'[k] = [tokens[k] EXCEPT !.chosen = (@ \ {a}) \cup {b}] /\ tokens[k] \in Rows
        BY <1>1, <2>2, <3>1
      <4> QED
        BY <3>1, <4>1 DEF Rows
    <3>2. CASE ~(tokens[k] # NoToken /\ a \in tokens[k].chosen)
      BY <2>2, <2>4, <3>2
    <3> QED
      BY <3>1, <3>2
  <2>5. ASSUME NEW i \in Identities, NEW c, NEW d, c \ {a} \subseteq d, a \in c => b \in d, Narrow(i, c)
        PROVE  Narrow(i, d)'
    <3>1. CASE <<i, Star>> \in said
      BY <1>3, <2>1, <2>3, <3>1 DEF Narrow
    <3>2. CASE <<i, Star>> \notin said
      <4>1. rules'[<<i, Star>>] = "deny"
        BY <1>3, <2>1, <2>3, <2>5, <3>2 DEF Narrow
      <4>2. ASSUME NEW t \in Names
            PROVE  rules'[<<i, t>>] \in {"none", "deny"} \/ t \in d \/ <<i, t>> \in said'
        <5>1. CASE t = a
          BY <1>3, <2>3, <5>1
        <5>2. CASE t = b
          BY <1>3, <2>1, <2>3, <2>5, <3>2, <5>2 DEF Narrow
        <5>3. CASE t \notin {a, b}
          BY <1>3, <2>3, <2>5, <3>2, <5>3 DEF Narrow
        <5> QED
          BY <5>1, <5>2, <5>3
      <4> QED
        BY <4>1, <4>2 DEF Narrow
    <3> QED
      BY <3>1, <3>2
  <2>6. NarrowInv'
    <3> SUFFICES ASSUME NEW k \in Tokens, tokens'[k] # NoToken, tokens'[k].shown
                 PROVE  Narrow(tokens[k].who, tokens[k].chosen)'
      BY <2>1, Kinds DEF NarrowInv
    <3>1. tokens[k] # NoToken /\ tokens[k].shown /\ tokens'[k].who = tokens[k].who
      BY <2>4
    <3>2. Narrow(tokens[k].who, tokens[k].chosen) /\ tokens[k].who \in Identities
      BY <1>1, <3>1 DEF IInv, NarrowInv
    <3> QED
      BY <2>4, <2>5, <3>1, <3>2
  <2> QED
    BY <2>1, <2>6, Kinds DEF DoingMore
<1>12. ASSUME AskAbout PROVE DoingMore' /\ NarrowInv'
  <2>1. Ruled
    BY <1>2, <1>3, <1>12 DEF AskAbout, Ruled, RuleTable
  <2> QED
    BY <1>7, <1>12, <2>1 DEF AskAbout
<1>13. ASSUME NEW t \in Names, ForgetTool(t) PROVE DoingMore' /\ NarrowInv'
  <2>1. Ruled
    BY <1>2, <1>3, <1>13 DEF ForgetTool, Ruled, RuleTable
  <2> QED
    BY <1>13, <2>1, RuledNarrow, Kinds DEF ForgetTool
\* No token has the identity any more.
<1>14. ASSUME DropRules PROVE DoingMore' /\ NarrowInv'
  <2>1. \A i \in Identities, t \in Subjects : i # doing.who => rules'[<<i, t>>] = rules[<<i, t>>]
    BY <1>2, <1>14 DEF DropRules, RuleTable
  <2>2. doing.op = "drop" /\ doing' = Idle /\ UNCHANGED <<tokens, said>>
    BY <1>14 DEF DropRules
  <2>3. \A k \in Tokens : tokens[k] # NoToken => tokens[k].who # doing.who
    BY <2>2 DEF IInv, DoingMore
  <2>4. NarrowInv'
    BY <1>1, <1>3, <2>1, <2>2, <2>3, Kinds DEF IInv, NarrowInv, Narrow
  <2> QED
    BY <2>2, <2>4, Kinds DEF DoingMore
<1>15. ASSUME WriteFile \/ WriteRefused PROVE DoingMore' /\ NarrowInv'
  <2>1. Ruled
    BY <1>15, SameRules DEF WriteFile, WriteRefused, ruleVars
  <2>2. doing'.op \in {"idle", "forget"}
    BY <1>15, Kinds DEF WriteFile, WriteRefused
  <2> QED
    BY <2>1, <2>2, RuledNarrow
\* The rules that are left of the identity are those ruled since it was chosen.
<1>16. ASSUME NEW k \in Tokens, StoreToken(k) PROVE DoingMore' /\ NarrowInv'
  <2> DEFINE i == doing.who
             row == [who |-> i, chosen |-> doing.chosen, shown |-> FALSE]
  <2>1. /\ doing.op = "issue" /\ tokens[k] = NoToken /\ tokens' = [tokens EXCEPT ![k] = row]
        /\ rules' = [rules EXCEPT ![<<i, Star>>] = "deny"] /\ doing' = Grant(k, doing.chosen)
        /\ said' = said
    BY <1>16 DEF StoreToken
  <2>2. i \in Identities /\ \A l \in Tokens : tokens[l] # NoToken => tokens[l].who # i
    BY <2>1 DEF IInv, ApartInv, DoingOK, ChoiceIsFree
  <2>3. \A t \in Subjects : rules[<<i, t>>] # "none" => <<i, t>> \in said
    BY <2>1 DEF IInv, DoingMore
  <2>4. /\ tokens'[k] = row /\ row.who = i /\ row.chosen = doing.chosen
        /\ \A l \in Tokens : l # k => tokens'[l] = tokens[l]
    BY <2>1 DEF IInv, ApartInv, TokensOK
  <2>5. doing'.op = "grant" /\ doing'.token = k /\ doing'.todo = doing.chosen
    BY <2>1, Kinds, Fields
  <2>6. /\ rules'[<<i, Star>>] = "deny"
        /\ \A j \in Identities, t \in Subjects : <<j, t>> # <<i, Star>> => rules'[<<j, t>>] = rules[<<j, t>>]
    BY <1>2, <1>3, <2>1, <2>2 DEF RuleTable
  <2> HIDE DEF i, row
  <2>7. DoingMore'
    BY <2>4, <2>5 DEF DoingMore
  <2>8. ASSUME NEW j, NEW c, j = i, c = doing.chosen PROVE Narrow(j, c)'
    BY <1>3, <2>1, <2>2, <2>3, <2>6, <2>8 DEF Narrow
  <2>9. NarrowInv'
    <3> SUFFICES ASSUME NEW l \in Tokens, tokens'[l] # NoToken, tokens'[l].shown \/ l = k
                 PROVE  Narrow(tokens[l].who, tokens[l].chosen)'
      BY <2>5 DEF NarrowInv
    <3>1. CASE l = k
      BY <2>4, <2>8, <3>1
    <3>2. CASE l # k
      <4>1. Narrow(tokens[l].who, tokens[l].chosen) /\ tokens[l].who \in Identities \ {i}
        BY <1>1, <2>2, <2>4, <3>2 DEF IInv, NarrowInv
      <4> QED
        BY <1>3, <2>1, <2>4, <2>6, <3>2, <4>1 DEF Narrow
    <3> QED
      BY <3>1, <3>2
  <2> QED
    BY <2>7, <2>9
<1>17. ASSUME NEW t \in Names, GrantTool(t) PROVE DoingMore' /\ NarrowInv'
  <2> DEFINE k == doing.token
             i == tokens[k].who
  <2>1. /\ doing.op = "grant" /\ t \in doing.todo /\ rules' = [rules EXCEPT ![<<i, t>>] = "allow"]
        /\ doing' = Grant(k, doing.todo \ {t}) /\ UNCHANGED <<tokens, said>>
    BY <1>17 DEF GrantTool
  <2>2. /\ k \in Tokens /\ tokens[k] # NoToken /\ i \in Identities /\ t \in tokens[k].chosen
        /\ doing.todo \subseteq tokens[k].chosen
    BY <1>1, <2>1 DEF IInv, ApartInv, DoingOK, DoingMore
  <2>3. \A l \in Tokens : l # k /\ tokens[l] # NoToken => tokens[l].who # i
    BY <2>2 DEF IInv, ApartInv, TokensKeepApart
  <2>4. \A j \in Identities, u \in Subjects : <<j, u>> # <<i, t>> => rules'[<<j, u>>] = rules[<<j, u>>]
    BY <1>2, <2>1 DEF RuleTable
  <2>5. doing'.op = "grant" /\ doing'.token = k /\ doing'.todo = doing.todo \ {t}
    BY <2>1, Kinds, Fields
  <2> HIDE DEF k, i
  <2>6. DoingMore'
    BY <2>1, <2>2, <2>5 DEF DoingMore
  <2>7. NarrowInv'
    <3> SUFFICES ASSUME NEW l \in Tokens, tokens[l] # NoToken, tokens[l].shown \/ l = k
                 PROVE  Narrow(tokens[l].who, tokens[l].chosen)'
      BY <2>1, <2>5 DEF NarrowInv
    <3>1. Narrow(tokens[l].who, tokens[l].chosen) /\ tokens[l].who \in Identities
      BY <1>1, <2>1 DEF IInv, NarrowInv, k
    <3>2. CASE l = k
      BY <1>3, <2>1, <2>2, <2>4, <3>1, <3>2 DEF Narrow, i
    <3>3. CASE l # k
      BY <1>3, <2>1, <2>3, <2>4, <3>1, <3>3 DEF Narrow
    <3> QED
      BY <3>2, <3>3
  <2> QED
    BY <2>6, <2>7
<1>18. ASSUME ShowSecret PROVE DoingMore' /\ NarrowInv'
  <2> DEFINE k == doing.token
             row == [tokens[k] EXCEPT !.shown = TRUE]
  <2>1. doing.op = "grant" /\ tokens' = [tokens EXCEPT ![k] = row] /\ doing' = Idle /\ UNCHANGED <<rules, said>>
    BY <1>18 DEF ShowSecret, ruleVars
  <2>2. k \in Tokens /\ tokens[k] # NoToken /\ tokens[k] \in Rows
    BY <1>1, <2>1 DEF IInv, ApartInv, DoingOK
  <2>3. row.who = tokens[k].who /\ row.chosen = tokens[k].chosen
    BY <2>2 DEF Rows
  <2>4. tokens'[k] = row /\ \A l \in Tokens : l # k => tokens'[l] = tokens[l]
    BY <2>1, <2>2 DEF IInv, ApartInv, TokensOK
  <2>5. Narrow(tokens[k].who, tokens[k].chosen)
    BY <2>1, <2>2 DEF IInv, NarrowInv
  <2> HIDE DEF k, row
  <2>6. NarrowInv'
    <3> SUFFICES ASSUME NEW l \in Tokens, tokens'[l] # NoToken, tokens'[l].shown
                 PROVE  Narrow(tokens[l].who, tokens[l].chosen)'
      BY <2>1, Kinds DEF NarrowInv
    <3>1. CASE l = k
      BY <2>1, <2>3, <2>4, <2>5, <3>1 DEF Narrow
    <3>2. CASE l # k
      BY <2>1, <2>4, <3>2 DEF IInv, NarrowInv, Narrow
    <3> QED
      BY <3>1, <3>2
  <2> QED
    BY <2>1, <2>6, Kinds DEF DoingMore
<1>19. ASSUME NEW k \in Tokens, NEW t \in Names, HoldCall(k, t) PROVE DoingMore' /\ NarrowInv'
  BY <1>7, <1>19, SameRules DEF HoldCall, ruleVars
<1>20. ASSUME NEW p \in held, Remember(p) PROVE DoingMore' /\ NarrowInv'
  <2>1. PICK i \in Identities, t \in Names : p = <<i, t>>
    BY DEF IInv, RuleTypes
  <2>2. Ruled
    BY <1>3, <1>6, <1>20, <2>1 DEF Remember
  <2> QED
    BY <1>7, <1>20, <2>2 DEF Remember
<1>21. CASE Stop
  BY <1>7, <1>21, SameRules DEF Stop, ruleVars
<1>22. CASE Start
  <2>1. Ruled
    BY <1>2, <1>3, <1>22 DEF Start, Ruled
  <2> QED
    BY <1>7, <1>22, <2>1 DEF Start
<1> QED
  BY <1>4, <1>8, <1>9, <1>10, <1>11, <1>12, <1>13, <1>14, <1>15, <1>16, <1>17, <1>18, <1>19, <1>20,
     <1>21, <1>22 DEF Next, AccessCommand, Continue, Calls
-----------------------------------------------------------------------------
(* The invariant, and what follows from it.                                *)

LEMMA IInit == ASSUME ConsoleAssumption PROVE Init => IInv
<1> SUFFICES ASSUME Init PROVE IInv
  OBVIOUS
<1>1. PICK kind \in [Names -> Faces], S \in SUBSET PackSeeds :
        cfg = [tool |-> kind, script |-> 1, seeds |-> S]
  BY DEF Init, Faces
<1>2. cfg \in Configs
  BY <1>1 DEF ConsoleAssumption, Configs, Faces
<1>3. FileTypes
  <2>1. 1 \in 0..MaxBody /\ 0 \in 0..MaxEdits
    BY DEF ConsoleAssumption
  <2> QED
    BY <1>2, <2>1, Kinds DEF Init, FileTypes
<1>4. [p \in Who \X Subjects |-> "none"] \in RuleTable
  BY DEF RuleTable
<1>5. RuleTypes
  BY <1>2, <1>4, SeedingTypes DEF Init, RuleTypes
<1>6. DoingMore /\ NarrowInv
  BY Kinds DEF Init, DoingMore, NarrowInv
<1> QED
  BY <1>3, <1>5, <1>6, ApartInit DEF IInv

LEMMA IStep == ASSUME ConsoleAssumption PROVE IInv /\ [Next]_vars => IInv'
<1> SUFFICES ASSUME IInv, [Next]_vars PROVE IInv'
  OBVIOUS
<1>1. CASE Next
  BY <1>1, ApartStep, FileStep, RuleStep, NarrowStep DEF IInv, DoingMore
<1>2. CASE UNCHANGED vars
  <2>1. ApartInv'
    BY <1>2, ApartStep DEF IInv
  <2> QED
    BY <1>2, <2>1 DEF vars, IInv, FileTypes, RuleTypes, DoingMore, NarrowInv, Narrow
<1> QED
  BY <1>1, <1>2

\* IInv holds throughout, whatever comes between the steps of a command.
THEOREM Invariant == ASSUME ConsoleAssumption PROVE Spec => []IInv
<1>1. Init => IInv
  BY IInit
<1>2. IInv /\ [Next]_vars => IInv'
  BY IStep
<1> QED
  BY <1>1, <1>2, PTL DEF Spec

\* The types of the file, the rules and the tokens.
THEOREM TypesKept == ASSUME ConsoleAssumption PROVE Spec => []TypeOK
<1>1. IInv => TypeOK
  BY DEF IInv, ApartInv, TokensOK, FileTypes, RuleTypes, RuleTable, TypeOK
<1> QED
  BY <1>1, Invariant, PTL

\* issue_token: no rule of an earlier client, of a renamed tool or of a command
\* that was interrupted lets a token do what nobody chose or ruled for it.
THEOREM StaysNarrow == ASSUME ConsoleAssumption PROVE Spec => []TokenIsNarrow
<1>1. ASSUME IInv PROVE TokenIsNarrow
  <2> SUFFICES ASSUME NEW k \in Tokens, tokens[k] # NoToken, tokens[k].shown,
                      NEW t \in Names, Decide(tokens[k].who, t) # "deny",
                      t \notin tokens[k].chosen
               PROVE  said \cap ({tokens[k].who} \X {t, Star}) # {}
    BY DEF TokenIsNarrow
  <2>1. Narrow(tokens[k].who, tokens[k].chosen)
    BY <1>1 DEF IInv, NarrowInv
  <2>2. <<tokens[k].who, Star>> \in said \/ <<tokens[k].who, t>> \in said
    BY <2>1 DEF Narrow, Decide
  <2> QED
    BY <2>2
<1> QED
  BY <1>1, Invariant, PTL

\* rename_tool_rules: after a rename no client may do more, or less, than before,
\* but for a rule that the new name had already.
THEOREM Renaming == ASSUME ConsoleAssumption PROVE Spec => RenameCarriesDecisions
<1> DEFINE Carried == \A x, y \in Names : doing = NewName(x, y) /\ up' /\ doing' = Idle =>
             \A i \in Identities :
               Decide(i, y)' = IF rules[<<i, y>>] # "none" THEN Decide(i, y) ELSE Decide(i, x)
<1>1. ASSUME IInv, [Next]_vars PROVE Carried
  <2> SUFFICES ASSUME NEW x \in Names, NEW y \in Names, doing = NewName(x, y), up', doing' = Idle,
                      NEW i \in Identities
               PROVE  Decide(i, y)' = IF rules[<<i, y>>] # "none" THEN Decide(i, y) ELSE Decide(i, x)
    OBVIOUS
  <2>1. doing.op = "move" /\ doing.from = x /\ doing.to = y /\ doing # Idle /\ x # y
    BY <1>1, Kinds DEF IInv, DoingMore
  <2>2. MoveRules
    <3>1. ~ConfigCommand
      BY <2>1, Kinds DEF ConfigCommand, SetToolFace, SetPublish, DeleteScript, DeleteTool, SaveScript,
                         ApplyScriptPack, AddScriptTool, ApplyPack, AddConnection, Command
    <3>2. ~AccessCommand
      BY <2>1, Kinds DEF AccessCommand, SetRule, CliRule, ForgetRule, IssueToken, RevokeToken, Command
    <3>3. ~(Calls \/ Stop \/ Start \/ UNCHANGED vars)
      BY <2>1 DEF Calls, HoldCall, Remember, Stop, Start, vars
    <3>4. Continue
      BY <1>1, <3>1, <3>2, <3>3 DEF Next
    <3> QED
      BY <2>1, <3>4 DEF Continue, WriteFile, WriteRefused, AskAbout, ShowSecret, DropRules,
                        ForgetTool, GrantTool, StoreToken
  <2>3. rules' = [p \in DOMAIN rules |->
          IF p[2] = x THEN "none"
          ELSE IF p[2] = y /\ rules[p] = "none" THEN rules[<<p[1], x>>] ELSE rules[p]]
    BY <2>1, <2>2 DEF MoveRules
  <2>4. <<i, y>> \in DOMAIN rules /\ <<i, Star>> \in DOMAIN rules /\ Star \notin {x, y}
    BY <1>1 DEF IInv, RuleTypes, RuleTable, Who, Subjects, ConsoleAssumption
  <2>5. /\ rules'[<<i, y>>] = IF rules[<<i, y>>] = "none" THEN rules[<<i, x>>] ELSE rules[<<i, y>>]
        /\ rules'[<<i, Star>>] = rules[<<i, Star>>]
    BY <2>1, <2>3, <2>4
  <2> QED
    BY <2>5 DEF Decide
<1>2. IInv /\ [Next]_vars => [Carried]_vars
  BY <1>1
<1>3. Spec => [][Carried]_vars
  BY <1>2, Invariant, PTL DEF Spec
<1> QED
  BY <1>3 DEF RenameCarriesDecisions
=============================================================================
