------------------------------- MODULE Packs -------------------------------
(***************************************************************************)
(* Packs (pack.rs): upstreams, tools, seeds and scripts that travel        *)
(* between gateways.  A pack is [name, upstreams, tools, seeds, scripts,   *)
(* needs]; its scripts are [name, lang, source, sha].  An import gives     *)
(* [says, cfg, applied, folder]: the refusal or "ok", and what it left.    *)
(***************************************************************************)
EXTENDS Scripts

\* Pack::check, when a pack is read.
PackFits(p) ==
  /\ p.name # Blank
  /\ \A i \in DOMAIN p.upstreams :
       LET u == p.upstreams[i] IN u.kind = "http" /\ u.token # Blank => u.env # Blank
  /\ Unique(p.scripts) /\ NamesIn(p.scripts) \subseteq ScriptNames
  /\ \A i \in DOMAIN p.scripts : /\ p.scripts[i].sha \in {<<>>, p.scripts[i].source}
                                 /\ ~TooBig(p.scripts[i].source)
  /\ \A i \in DOMAIN p.tools :
       LET t == p.tools[i] IN /\ t.does = "proxy"  => Named(p.upstreams, t.at)
                              /\ t.does = "script" => Named(p.scripts, t.at)

\* dangerous()
Dangerous(p) == {p.scripts[i].name : i \in {k \in DOMAIN p.scripts : HasDanger(p.scripts[k])}}

\* missing_env()
MissingEnv(p, env) == {v \in p.needs : Over(env, v, Blank) = Blank}

\* collisions()
Collisions(c, p) == {<<"upstream", n>> : n \in NamesIn(c.upstreams) \cap NamesIn(p.upstreams)}
                \cup {<<"tool", n>> : n \in NamesIn(c.tools) \cap NamesIn(p.tools)}
                \cup {<<"script", n>> : n \in NamesIn(c.scripts) \cap NamesIn(p.scripts)}
-----------------------------------------------------------------------------
(* Files a pack names that are not here.                                   *)

Here(path) == path \in Paths \cup {"/etc/prompt"}
PathLike(cmd) == cmd \in Paths \cup {"/gone/qmd"}

\* missing_files(), of one exec tool: its command, any absolute argument
\* without a placeholder, and the directory it is to work in.
MissingFiles(t) ==
  IF t.does # "exec" THEN {}
  ELSE (IF IF PathLike(t.at) THEN Here(t.at) ELSE ResolveCommand(t.at) THEN {} ELSE {<<"command">>})
       \cup {<<"argument", i>> : i \in {k \in DOMAIN t.files : t.files[k] # "" /\ ~Here(t.files[k])}}
       \cup {<<"directory">> : i \in {k \in DOMAIN t.cwd : ~Here(t.cwd[k])}}

\* resolve_file(): the operator points at where it is, for the first tool of
\* that name.
PointedAt(t, missing, path) ==
  CASE missing = <<"command">>   -> [t EXCEPT !.at = path]
    [] missing = <<"directory">> -> [t EXCEPT !.cwd = <<path>>]
    [] OTHER                     -> [t EXCEPT !.files[missing[2]] = path]

ResolveFile(p, n, missing, path) ==
  [p EXCEPT !.tools = [i \in DOMAIN p.tools |->
     IF p.tools[i].name = n /\ IsFirst(p.tools, i) THEN PointedAt(p.tools[i], missing, path) ELSE p.tools[i]]]
-----------------------------------------------------------------------------
(* Importing.                                                              *)

Put(seq, x) == IF Named(seq, x.name)
               THEN [i \in DOMAIN seq |-> IF seq[i].name = x.name /\ IsFirst(seq, i) THEN x ELSE seq[i]]
               ELSE Append(seq, x)

PutAll(seq, new) == FoldLeft(Put, seq, new)

\* Without "replace" one name twice is refused, wherever the other one is.
Clash(seq, new) == ~Unique(new) \/ NamesIn(seq) \cap NamesIn(new) # {}

\* Those at some places, in their order.
Kept(seq, places) ==
  FoldLeftDomain(LAMBDA kept, i : IF i \in places THEN Append(kept, seq[i]) ELSE kept, <<>>, seq)

\* A seed is taken only where the pair has none.
SamePair(s, t) == s.identity = t.identity /\ s.tool = t.tool

Seeded(seeds, new) ==
  seeds \o Kept(new, {i \in DOMAIN new : /\ \A j \in DOMAIN seeds : ~SamePair(seeds[j], new[i])
                                         /\ \A j \in 1..(i - 1) : ~SamePair(new[j], new[i])})

Merged(c, p) ==
  [c EXCEPT !.scripts   = PutAll(@, [i \in DOMAIN p.scripts |-> Record(p.scripts[i], p.name)]),
            !.upstreams = PutAll(@, p.upstreams),
            !.tools     = PutAll(@, p.tools),
            !.seeds     = Seeded(@, p.seeds)]

\* Names that stand twice: the second replaces the first.
Again(seq) == {seq[i].name : i \in {k \in DOMAIN seq : ~IsFirst(seq, k)}}

\* What is told: what is added, and what is replaced.
Applied(c, p) ==
  LET old == Collisions(c, p)
      all == {<<"upstream", n>> : n \in NamesIn(p.upstreams)} \cup {<<"tool", n>> : n \in NamesIn(p.tools)}
             \cup {<<"script", n>> : n \in NamesIn(p.scripts)}
  IN [added    |-> (all \ old) \cup ({<<s.identity, s.tool>> : s \in ToSet(p.seeds)}
                                    \ {<<s.identity, s.tool>> : s \in ToSet(c.seeds)}),
      replaced |-> old \cup {<<"upstream", n>> : n \in Again(p.upstreams)}
                       \cup {<<"tool", n>> : n \in Again(p.tools)}]

\* The first script that is not taken, and the folder as it is left then.
NotTaken(c, p, o, folder) ==
  {i \in DOMAIN p.scripts :
     \/ ~o.replace /\ (Named(c.scripts, p.scripts[i].name) \/ ~IsFirst(p.scripts, i))
     \/ o.write /\ ~Savable(folder, p.scripts[i])}

WrittenBy(c, p, o, folder) ==
  LET bad  == NotTaken(c, p, o, folder)
      upto == IF bad = {} THEN Len(p.scripts) ELSE Min(bad) - 1
  IN IF o.write THEN FoldLeft(Saved, folder, SubSeq(p.scripts, 1, upto)) ELSE folder

\* merge(): consent first; then the scripts, each written as it is taken when
\* `o.write` gives a folder; then upstreams, tools and seeds; then validation.
Merge(c, p, o, folder) ==
  LET new     == Merged(c, p)
      written == WrittenBy(c, p, o, folder)
      Refuse(why, f) == [says |-> why, cfg |-> c, applied |-> Applied(c, p), folder |-> f]
  IN IF p.scripts # <<>> /\ ~o.scripts THEN Refuse("scripts", folder)
     ELSE IF Dangerous(p) # {} /\ ~o.dangerous THEN Refuse("danger", folder)
     ELSE IF NotTaken(c, p, o, folder) # {} THEN Refuse("script", written)
     ELSE IF Clash(c.upstreams, p.upstreams) /\ ~o.replace THEN Refuse("upstream", written)
     ELSE IF Clash(c.tools, p.tools) /\ ~o.replace THEN Refuse("tool", written)
     ELSE IF ~Valid(new, Sound(new, written)) THEN Refuse("invalid", written)
     ELSE [Refuse("ok", written) EXCEPT !.cfg = new]

\* Mutant: the copy keeps its folder, so bodies nobody wrote are looked for.
PlanCopyInPlace(c) == c

\* plan(): the same on a copy that no folder belongs to, with every consent.
PlanCopy(c) == [c EXCEPT !.dir = FALSE]

Plan(c, p, replace, folder) ==
  Merge(PlanCopy(c), p, [replace |-> replace, scripts |-> TRUE, dangerous |-> TRUE, write |-> FALSE],
        folder)
-----------------------------------------------------------------------------
(* Exporting.                                                              *)

\* Every credential stays; the variable that would carry it is named.
EnvVarName(n) == CASE n = "notes" -> "GATEHOUND_NOTES_TOKEN"
                   [] n \in {"my-mail", "my.mail"} -> "GATEHOUND_MY_MAIL_TOKEN"
                   [] OTHER -> "GATEHOUND_OTHER_TOKEN"

EnvNamed(u) == IF u.env = Blank /\ u.token # Blank THEN EnvVarName(u.name) ELSE u.env

\* Mutant: the credential goes along.
StrippedNot(u) == [u EXCEPT !.env = EnvNamed(u)]

Stripped(u) == [u EXCEPT !.token = Blank, !.env = EnvNamed(u)]

\* tools_were_chosen(): a choice that is not every tool in its order takes only
\* what those tools need, and only the seeds that name one of them.
Scoped(c, chosen) == \/ Len(chosen) # Len(c.tools)
                     \/ \E i \in DOMAIN chosen : chosen[i].name # c.tools[i].name

Wanted(c, chosen, does) ==
  IF Scoped(c, chosen) THEN {chosen[i].at : i \in {j \in DOMAIN chosen : chosen[j].does = does}}
  ELSE NamesIn(IF does = "proxy" THEN c.upstreams ELSE c.scripts)

KeptNames(seq, names) == Kept(seq, {i \in DOMAIN seq : seq[i].name \in names})

\* build(), of the tools chosen.
Packed(def, folder) == [name |-> def.name, lang |-> def.lang, source |-> folder.files[At(def)],
                        sha |-> folder.files[At(def)]]

Build(c, name, chosen, folder) ==
  LET ups  == KeptNames(c.upstreams, Wanted(c, chosen, "proxy"))
      defs == KeptNames(c.scripts, Wanted(c, chosen, "script"))
  IN [name      |-> name,
      upstreams |-> [i \in DOMAIN ups |-> Stripped(ups[i])],
      needs     |-> {EnvNamed(ups[i]) : i \in DOMAIN ups} \ {Blank},
      tools     |-> chosen,
      seeds     |-> Kept(c.seeds, {i \in DOMAIN c.seeds : ~Scoped(c, chosen) \/ Named(chosen, c.seeds[i].tool)}),
      scripts   |-> [i \in DOMAIN defs |-> Packed(defs[i], folder)]]

\* A body that cannot be read stops the export.
Exportable(c, chosen, folder) ==
  \A i \in DOMAIN c.scripts :
    c.scripts[i].name \in Wanted(c, chosen, "script") => Readable(folder, c.scripts[i])
=============================================================================
