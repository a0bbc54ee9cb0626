-------------------------------- MODULE Trade --------------------------------
(***************************************************************************)
(* Packs between gateways (pack.rs and the app's main.rs), in the window   *)
(* of one that runs: a pack is read and shown with what importing it would *)
(* do, the operator points at the files it names that are not here, it is  *)
(* imported; tools are exported; and scripts are saved and deleted.  All   *)
(* of it starts from the configuration that was launched, which stays,     *)
(* while the bodies in the folder beside it do not.                        *)
(*                                                                         *)
(* `in` is, of the window, [cfg, folder], of an import also [replace,      *)
(* pack], and of an export also [chosen].                                  *)
(***************************************************************************)
EXTENDS ConfigFile

CONSTANTS
  Configs,   \* configurations that were read
  Parcels,   \* packs as they may come
  Edited,    \* scripts as the operator saves them
  Places     \* files that the operator may point at

ToolFields == {"name", "does", "at", "op", "limit", "slots", "quickAfter", "label", "files",
               "cwd", "arguments", "own", "idempotent", "args", "stdin", "quick"}

ToolList(ts) == Sequence(ts) /\ \A i \in DOMAIN ts : /\ DOMAIN ts[i] = ToolFields
                                                     /\ ts[i].does \in {"proxy", "exec", "script"}

\* What is read from a pack has these fields, whatever they say.
Parcel(p) ==
  /\ DOMAIN p = {"name", "upstreams", "tools", "seeds", "scripts", "needs"}
  /\ Sequence(p.upstreams) /\ ToolList(p.tools) /\ Sequence(p.scripts)
  /\ \A i \in DOMAIN p.scripts : p.scripts[i].lang \in Languages /\ p.scripts[i].source # NoBody

\* A configuration that a gateway runs with has no two upstreams of one name
\* (upstreams/mod.rs, build).
Running(c) ==
  /\ Configured(c) /\ Unique(c.upstreams) /\ ToolList(c.tools) /\ Sequence(c.scripts) /\ Sequence(c.seeds)
  /\ \A i \in DOMAIN c.scripts : c.scripts[i].lang \in Languages

\* The scripts' folder is beside the configuration, with room for any script.
Roomy(folder) == /\ DOMAIN folder = {"out", "files"} /\ Contained(folder, FALSE)
                 /\ ScriptNames \X Languages \subseteq DOMAIN folder.files

ASSUME TradeAssumption == /\ \A c \in Configs : Running(c)
                          /\ \A s \in Edited : s.lang \in Languages /\ s.source # NoBody
                          /\ \A p \in Parcels : Parcel(p)
                          /\ Roomy(Folder)

\* What a gateway was launched with was valid then.
Runnable == {c \in Configs : Valid(c, Sound(c, Folder))}

Open == Unused /\ \E c \in Runnable : Picked("window", [cfg |-> c, folder |-> Folder])
-----------------------------------------------------------------------------
(* Scripts.  What is saved is in force, and its digest known, after the    *)
(* next launch.                                                            *)

\* delete()
Deleted(folder, def) == [folder EXCEPT !.files[At(def)] = NoBody]

\* save_script(): of a script that changes its language the old body goes first.
SaveScript == kind = "window" /\ \E s \in Edited :
                LET old  == {d \in ToSet(in.cfg.scripts) : d.name = s.name /\ d.lang # s.lang}
                    left == IF old = {} THEN in.folder
                            ELSE Deleted(in.folder, First(in.cfg.scripts, s.name))
                IN Picked("window", [in EXCEPT !.folder = IF Savable(left, s) THEN Saved(left, s) ELSE left])

\* delete_script(), with the tools that run it.
DeleteScript == kind = "window" /\ \E i \in DOMAIN in.cfg.scripts :
                  Picked("window", [in EXCEPT !.folder = Deleted(@, in.cfg.scripts[i])])
-----------------------------------------------------------------------------
(* Importing.                                                              *)

\* inspect_pack()
Inspect == kind = "window" /\ \E p \in Parcels, again \in BOOLEAN :
             PackFits(p) /\ Picked("import", [cfg |-> in.cfg, folder |-> in.folder,
                                             replace |-> again, pack |-> p])

\* One of the files that are missing is pointed at: a command where it is
\* found, or anything where it is.
PointAt == kind = "import" /\ \E i \in DOMAIN in.pack.tools :
             LET t == in.pack.tools[i] IN
             \E m \in MissingFiles(t) :
               \E path \in Places \cup (IF m = <<"command">> THEN FindCommand(t.at) ELSE {}) :
                 /\ First(in.pack.tools, t.name).does = "exec"
                 /\ Picked("import", [in EXCEPT !.pack = ResolveFile(in.pack, t.name, m, path)])

All(r) == [replace |-> r, scripts |-> TRUE, dangerous |-> TRUE, write |-> TRUE]

\* apply_pack(): taken or not, bodies may have been written.
Apply == kind = "import" /\ \E s, d \in BOOLEAN :
           LET m == Merge(in.cfg, in.pack, [All(in.replace) EXCEPT !.scripts = s, !.dangerous = d], in.folder)
           IN Picked("window", [cfg |-> in.cfg, folder |-> m.folder])

\* Scripts that stay, that a tool runs, and whose bodies are no longer what the
\* running configuration holds the digest of.
Rewritten(c, p, folder) ==
  {n \in NamesIn(c.scripts) :
     /\ ~Named(p.scripts, n) /\ ~Verified(folder, First(c.scripts, n))
     /\ \E t \in ToSet(Merged(c, p).tools) : t.does = "script" /\ t.at = n}

\* What two lists under one name differ in.
Changed(old, new) == {n \in NamesIn(new) : Named(old, n) => First(old, n) # First(new, n)}

\* What the window shows of a pack before it is imported foretells what
\* importing it does (pack.rs, plan).  A refusal is the refusal there will be;
\* what is let through is taken, as the same configuration and with nothing
\* changed that was not told - but for a body that was saved, deleted or
\* imported over since the launch, for which the import is refused as invalid.
\* Without the second consent a dangerous script leaves nothing behind.
PlanForetellsImport ==
  kind = "import" =>
    LET p == Plan(in.cfg, in.pack, in.replace, in.folder)
        m == Merge(in.cfg, in.pack, All(in.replace), in.folder)
        told == p.applied.added \cup p.applied.replaced
    IN /\ m.says = IF p.says = "ok" /\ in.cfg.dir /\ Rewritten(in.cfg, in.pack, in.folder) # {}
                   THEN "invalid" ELSE p.says
       /\ m.says = "ok" =>
            /\ p.cfg = [m.cfg EXCEPT !.dir = FALSE]
            /\ {<<"upstream", n>> : n \in Changed(in.cfg.upstreams, m.cfg.upstreams)} \subseteq told
            /\ {<<"tool", n>> : n \in Changed(in.cfg.tools, m.cfg.tools)} \subseteq told
            /\ {<<"script", n>> : n \in Changed(in.cfg.scripts, m.cfg.scripts)} \subseteq told
       /\ Dangerous(in.pack) # {} =>
            \A s \in BOOLEAN :
              LET no == Merge(in.cfg, in.pack, [All(in.replace) EXCEPT !.scripts = s, !.dangerous = FALSE],
                              in.folder)
              IN no.says # "ok" /\ no.folder = in.folder

\* pack.rs:237, "the answer - including a refusal - is the one the real import
\* gives": the plan and the import say the same.
PlanIsImport ==
  kind = "import" =>
    Plan(in.cfg, in.pack, in.replace, in.folder).says
      = Merge(in.cfg, in.pack, All(in.replace), in.folder).says
-----------------------------------------------------------------------------
(* Exporting.                                                              *)

\* Some of the tools in some order, each once: of one that the command line
\* names twice, the second would stand against the first.
Selections(c) == {[i \in DOMAIN o |-> c.tools[o[i]]] :
                 o \in UNION {{q \in [1..n -> DOMAIN c.tools] : \A i, j \in 1..n : q[i] = q[j] => i = j} :
                               n \in 0..Len(c.tools)}}

Export == kind = "window" /\ \E t \in Selections(in.cfg) :
            /\ Exportable(in.cfg, t, in.folder)
            /\ Picked("export", [cfg |-> in.cfg, folder |-> in.folder, chosen |-> t])

\* A gateway with nothing in it but a credential.
Base0 == [Default EXCEPT !.bearer = "owner", !.dir = TRUE]

Shelf(files) == [out |-> FALSE, files |->
  [x \in ScriptNames \X Languages |-> IF x \in DOMAIN files THEN files[x] ELSE NoBody]]

\* An exported pack stands on its own in an empty gateway, whatever was chosen:
\* it is read, imported and valid, with the tools that were chosen; it carries
\* no credential, and the importer is told of each one that is then missing
\* (pack.rs, build; missing_env).
PackStandsAlone ==
  kind = "export" =>
    LET p == Build(in.cfg, "kit", in.chosen, in.folder)
        m == Merge(Base0, p, [All(FALSE) EXCEPT !.dangerous = Dangerous(p) # {}], Shelf(<<>>))
    IN /\ PackFits(p) /\ m.says = "ok"
       /\ NamesIn(m.cfg.tools) = NamesIn(in.chosen)
       /\ \A i \in DOMAIN p.upstreams :
            LET u == p.upstreams[i] IN
            /\ u.token = Blank
            /\ First(in.cfg.upstreams, u.name).token # Blank =>
                 \E v \in MissingEnv(p, <<>>) : First(m.cfg.upstreams, u.name).env = v
-----------------------------------------------------------------------------
TradeNext == Open \/ SaveScript \/ DeleteScript \/ Inspect \/ PointAt \/ Apply \/ Export

TradeSpec == FormsInit /\ [][TradeNext]_<<kind, in>>
=============================================================================
