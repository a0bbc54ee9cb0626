------------------------------ MODULE ConfigFile ------------------------------
(***************************************************************************)
(* The configuration file over launches and saves (config.rs and the app's *)
(* main.rs): it is found or made, the gateway is launched from it with     *)
(* what the environment says over it, commands save over it, and it is     *)
(* launched again.  `in` is, while there is a file and no gateway, [made,  *)
(* file]; while one runs, [made, file, launched, cfg, given]: the file as  *)
(* it is and as it was launched, the configuration that runs, and each     *)
(* credential that the last command was given.                             *)
(***************************************************************************)
EXTENDS Forms, Connect

CONSTANTS
  Files,        \* what a file may say
  Envs,         \* environments: a function from names to what they say
  Edits,        \* what the Publish panel sends
  Connections,  \* what the form that adds a service sends
  Folder        \* the scripts' folder

\* What is read from a file has these fields, whatever they say.
Sequence(seq) == seq \in Seq({seq[i] : i \in DOMAIN seq})
Configured(c) ==
  /\ DOMAIN c = DOMAIN Default
  /\ Sequence(c.upstreams)
  /\ \A i \in DOMAIN c.upstreams : DOMAIN c.upstreams[i] = {"name", "kind", "token", "env", "ops"}

\* What a file says: what the environment gave is not written down as such.
OnDisk(c) == [c EXCEPT !.fromEnv = {}, !.dir = FALSE]
Stored(f) == Configured(f) /\ f.fromEnv = {}

ASSUME FileAssumption == \A f \in Files : Stored(f)

Find == Unused /\ \E f \in Files : Picked("file", [made |-> FALSE, file |-> f])

Started(made, file, cfg) == [made |-> made, file |-> file, launched |-> file, cfg |-> cfg, given |-> <<>>]

Make == Unused /\ \E env \in Envs :
          LET c == FirstRun(env)
          IN Valid(c, Sound(c, Folder)) /\ Picked("running", Started(TRUE, OnDisk(c), c))

Launch == /\ kind = "file"
          /\ \E env \in Envs :
               LET c == Load(in.file, env)
               IN Valid(c, Sound(c, Folder)) /\ Picked("running", Started(in.made, in.file, c))

\* Every command of the window edits a copy of the running configuration.
Save(c, given) == /\ kind' = kind
                  /\ in' = [in EXCEPT !.file = OnDisk(ForDisk(c)), !.given = given]

Panel == kind = "running" /\ \E e \in Edits :
           LET c == PublishEdited(in.cfg, e)
           IN Valid(c, Sound(c, Folder)) /\ Save(c, IF e.touched THEN [s \in {<<"tunnel">>} |-> e.token] ELSE <<>>)

\* A service starts without a credential; a token that was pasted goes to the
\* upstream of the name that was typed, and without one nowhere.
Pasted(n) == [s \in (IF n.service = "exec" THEN {} ELSE {<<"upstream", DerivedName(n)>>})
                    \cup (IF InlineToken(n) = Blank THEN {} ELSE {<<"upstream", n.name>>}) |->
                IF s = <<"upstream", n.name>> THEN InlineToken(n) ELSE Blank]

AddConnection == kind = "running" /\ \E n \in Connections, again \in BOOLEAN :
                   LET m == Connected(in.cfg, n, again, Folder)
                   IN Packable(n) /\ m.says = "ok" /\ Save(m.cfg, Pasted(n))

Quit == kind = "running" /\ Picked("file", [made |-> in.made, file |-> in.file])

FileNext == Find \/ Make \/ Launch \/ Panel \/ AddConnection \/ Quit

FileSpec == FormsInit /\ [][FileNext]_<<kind, in>>

\* Whatever is saved, each credential in the file is the one this command was
\* given, or else the one the file had when the app was launched: never one
\* of the environment's, and never an older one in place of what was typed -
\* unless what was typed is what the environment says anyway (config.rs:967).
\* The file that a first run makes holds what the environment gave, and that
\* run's first save takes it out again.
FileKeepsItsSecrets ==
  kind = "running" /\ in.file # in.launched =>
    \A s \in Slots(in.file) :
      IF s \in DOMAIN in.given
      THEN \/ Secret(in.file, s) = in.given[s]
           \/ \E e \in in.cfg.fromEnv : e.slot = s /\ e.env = in.given[s]
      ELSE \/ Secret(in.file, s) = Secret(in.launched, s)
           \/ /\ in.made /\ Secret(in.file, s) = Blank
              /\ \E e \in in.cfg.fromEnv : e.slot = s
=============================================================================
