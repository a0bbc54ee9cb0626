------------------------------ MODULE Scripts ------------------------------
(***************************************************************************)
(* Registered scripts (scripts.rs): what may run one, where its body lies, *)
(* what a reader is warned of before it comes in with a pack, and the      *)
(* command it becomes.  A body is a sequence of lines; a line is the set   *)
(* of the telling fragments it holds, "long" among them when it is over    *)
(* 4000 characters.  A digest is the body itself: two bodies with the same *)
(* SHA-256 are not considered.  The folder is [out, files]: whether        *)
(* scripts/ leads out of the folder of the configuration, and the bodies,  *)
(* by name and language.                                                   *)
(***************************************************************************)
EXTENDS Settings

Languages == {"python3", "node", "deno"}

\* candidates() and command(): the first that is here, else the name itself.
\* On Windows a stub that opens the shop is passed over.
Candidates(lang, windows) ==
  IF lang = "python3" /\ windows THEN <<"py", "python", "python3">> ELSE <<lang>>

CommandFor(lang, windows, here, stubs) ==
  LET found == SelectSeq(Candidates(lang, windows),
                         LAMBDA n : n \in here /\ ~(windows /\ n \in stubs))
  IN IF found = <<>> THEN lang ELSE found[1]

\* leading_args_for(): Python alone is isolated; Deno grants nothing.
LeadingArgs(lang, command) ==
  (IF lang = "python3" /\ command = "py" THEN <<"-3">> ELSE <<>>) \o
  (CASE lang = "python3" -> <<"-I">> [] lang = "node" -> <<>> [] lang = "deno" -> <<"run", "--no-prompt">>)

\* contained(): no step up, and the folder is really inside the base.
Contained(folder, stepsUp) == ~stepsUp /\ ~folder.out
-----------------------------------------------------------------------------
(* The review.                                                             *)

\* RULES, loudest first; of the needles, those that stand for their kind.
Rules ==
  <<[severity |-> 3, id |-> "spawns-a-shell",
     needles |-> {"os.system(", "subprocess", "child_process", "Deno.Command", "/bin/sh"}, unless |-> {}],
    [severity |-> 3, id |-> "data-becomes-code",
     needles |-> {"eval(", "compile(", "pickle.loads"}, unless |-> {"re.compile(", "regex.compile("}],
    [severity |-> 3, id |-> "fetches-code", needles |-> {"curl ", "pip install"}, unless |-> {}],
    [severity |-> 2, id |-> "network-egress",
     needles |-> {"import requests", "urllib", "fetch("}, unless |-> {"urllib.parse"}],
    [severity |-> 2, id |-> "reads-credentials", needles |-> {"os.environ", ".ssh/"}, unless |-> {}],
    [severity |-> 2, id |-> "deletes-files", needles |-> {"os.remove(", "rm -rf"}, unless |-> {}],
    [severity |-> 2, id |-> "obfuscated", needles |-> {"b64decode"}, unless |-> {}],
    [severity |-> 1, id |-> "writes-outside-cwd", needles |-> {"/etc/"}, unless |-> {}]>>

\* An idiom that has the needle in it.
Covers(idiom, needle) ==
  \/ idiom \in {"re.compile(", "regex.compile("} /\ needle = "compile("
  \/ idiom = "urllib.parse" /\ needle = "urllib"

Has(line, needle) == needle \in line \/ \E x \in line : Covers(x, needle)

\* explained(): an idiom on the line excuses the needle it contains.
Explained(line, needle, unless) == \E x \in unless : Covers(x, needle) /\ x \in line

Hit(r, line) == \E n \in Rules[r].needles : Has(line, n) /\ ~Explained(line, n, Rules[r].unless)

\* One finding for a line: the first rule that hits.
Found(line) ==
  IF "long" \in line THEN [severity |-> 2, rule |-> "minified"]
  ELSE IF \E r \in DOMAIN Rules : Hit(r, line)
  THEN LET r == CHOOSE r \in DOMAIN Rules : Hit(r, line) /\ \A q \in 1..(r - 1) : ~Hit(q, line)
       IN [severity |-> Rules[r].severity, rule |-> Rules[r].id]
  ELSE [severity |-> 0, rule |-> "none"]

\* scan()
Scan(body) == {[line |-> n, severity |-> Found(body[n]).severity, rule |-> Found(body[n]).rule] :
                 n \in {m \in DOMAIN body : Found(body[m]).severity > 0}}

Worst(findings) == IF findings = {} THEN 0
                   ELSE (CHOOSE f \in findings : \A g \in findings : g.severity <= f.severity).severity

\* Review::of, has_danger()
Review(script) == [name |-> script.name, lang |-> script.lang, sha |-> script.source,
                   sandboxed |-> script.lang = "deno", findings |-> Scan(script.source)]

HasDanger(script) == Worst(Review(script).findings) = 3
-----------------------------------------------------------------------------
(* The body beside the configuration.                                      *)

NoBody == <<{"no body"}>>
TooBig(body) == Len(body) > 2                    \* MAX_SCRIPT_BYTES

At(script) == <<script.name, script.lang>>       \* relative_path()

\* read_body()
Readable(folder, def) == /\ Contained(folder, FALSE)
                         /\ folder.files[At(def)] # NoBody
                         /\ ~TooBig(folder.files[At(def)])

\* verify(): a record without a digest is not compared.
Verified(folder, def) == /\ def.name \in ScriptNames /\ Readable(folder, def)
                         /\ def.sha \in {<<>>, folder.files[At(def)]}

\* What validation asks of the bodies of a configuration's scripts.
Sound(c, folder) == {d \in ToSet(c.scripts) : Verified(folder, d)}

\* save()
Savable(folder, s) == /\ s.name \in ScriptNames /\ ~TooBig(s.source)
                      /\ Contained(folder, FALSE)

Saved(folder, s) == [folder EXCEPT !.files[At(s)] = s.source]

Record(s, origin) == [name |-> s.name, lang |-> s.lang, sha |-> s.source, origin |-> origin]

\* ScriptSpec::lower(): the interpreter, its own arguments and the script come
\* first; then the tool's.  (The path of the script is rendered like the rest:
\* it is taken to have no brace in it.)
Lower(t, def, command) ==
  [t EXCEPT !.at = command,
            !.args = [i \in DOMAIN LeadingArgs(def.lang, command) |->
                        [dash |-> TRUE, text |-> FALSE, holes |-> <<>>]]
                     \o <<[dash |-> FALSE, text |-> TRUE, holes |-> <<>>]>> \o t.args]
=============================================================================
