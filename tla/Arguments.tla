----------------------------- MODULE Arguments -----------------------------
(***************************************************************************)
(* From the arguments a tool declares to the command line a call runs      *)
(* (config.rs, actions/mod.rs, actions/exec.rs).  The same declaration is  *)
(* used three times: in the schema a client reads, in the check a call     *)
(* passes, and in the argv the program gets.                               *)
(*                                                                         *)
(* A tool is [arguments, own, idempotent, args, stdin, quick]: its         *)
(* declared arguments, whether it has a schema of its own, its argv        *)
(* templates, at most one template for stdin, and at most one list of argv *)
(* templates for the fallback.  A template is [dash, text, holes]: it      *)
(* starts with '-', it starts with some other text, and the placeholders   *)
(* it has, in order.  A JSON value is [json, text].                        *)
(***************************************************************************)
EXTENDS Naturals, Sequences, SequencesExt

Key == "idempotency_key"

\* What a client may send as one argument.
Values == {[json |-> "string", text |-> x] :
              x \in {"word", "-word", "12", "-12", "1.5", "-inf", "true", "", "long", "nul"}}
          \cup {[json |-> "integer", text |-> "12"], [json |-> "integer", text |-> "-12"],
                [json |-> "number", text |-> "1.5"], [json |-> "boolean", text |-> "true"],
                [json |-> "null", text |-> ""], [json |-> "array", text |-> ""]}

Named(seq, n) == \E i \in DOMAIN seq : seq[i].name = n

\* The first of that name, as `find` takes it.
First(seq, n) == seq[CHOOSE i \in DOMAIN seq : /\ seq[i].name = n
                                               /\ \A j \in 1..(i - 1) : seq[j].name # n]

NamesIn(seq) == {seq[i].name : i \in DOMAIN seq}
-----------------------------------------------------------------------------
(* Declaring arguments.                                                    *)

\* ArgKind::accepts: null is "not set"; a number or a boolean may come as text.
Accepts(kind, v) ==
  \/ v.json \in {"null", kind}
  \/ kind = "number" /\ v.json = "integer"
  \/ v.json = "string" /\ CASE kind = "integer" -> v.text \in {"12", "-12"}
                            [] kind = "number"  -> v.text \in {"12", "-12", "1.5", "-inf"}
                            [] kind = "boolean" -> v.text = "true"
                            [] OTHER            -> FALSE

Holes(templates) == UNION {{templates[i].holes[j] : j \in DOMAIN templates[i].holes} :
                           i \in DOMAIN templates}

\* A name is compared without the spaces around it.
Trimmed(n) == IF n = " note" THEN "note" ELSE n

\* validate_arguments(): what is refused before the gateway starts.
ArgumentsFit(t) ==
  t.arguments = <<>> \/
    /\ ~t.own
    /\ \A i \in DOMAIN t.arguments : t.arguments[i].name \notin {"", "-x", "a b"}
    /\ \A i, j \in DOMAIN t.arguments :
         i # j => Trimmed(t.arguments[i].name) # Trimmed(t.arguments[j].name)
    /\ Holes(t.args) \cup Holes(t.stdin)
         \cup UNION {Holes(t.quick[k]) : k \in DOMAIN t.quick}
       \subseteq {Trimmed(n) : n \in NamesIn(t.arguments)}

\* The key is asked for unless the tool declares it itself.
AddsKey(t) == t.idempotent /\ ~Named(t.arguments, Key)

\* schema(): the properties with their types, the required ones, and whether
\* others may be sent.
Schema(t) ==
  IF t.own \/ t.arguments = <<>>
  THEN [types |-> <<>>, required |-> {}, open |-> TRUE]
  ELSE LET key   == IF AddsKey(t) THEN {Key} ELSE {}
           names == NamesIn(t.arguments) \cup key
       IN [types    |-> [n \in names |-> IF n \in key THEN "string" ELSE First(t.arguments, n).kind],
           required |-> {n \in NamesIn(t.arguments) : First(t.arguments, n).required} \cup key,
           open     |-> FALSE]

\* client_description(): the arguments it spells out, with "required" or not.
Described(t) ==
  IF t.arguments = <<>> THEN {}
  ELSE {<<t.arguments[i].name, t.arguments[i].kind, t.arguments[i].required>> :
          i \in DOMAIN t.arguments}
       \cup (IF AddsKey(t) THEN {<<Key, "string", TRUE>>} ELSE {})
-----------------------------------------------------------------------------
(* One call: `sent` maps the names the client sent to their values.        *)

CheckedRequired(t, sent) ==
  /\ \A i \in DOMAIN t.arguments :
       t.arguments[i].required => /\ t.arguments[i].name \in DOMAIN sent
                                  /\ sent[t.arguments[i].name].json # "null"
  /\ t.idempotent => Key \in DOMAIN sent

\* Mutant: a name the tool did not declare is dropped, not refused.
CheckedLoosely(t, sent) ==
  t.arguments = <<>> \/ t.own \/
    /\ \A n \in DOMAIN sent :
         Named(t.arguments, n) => Accepts(First(t.arguments, n).kind, sent[n])
    /\ CheckedRequired(t, sent)

\* check_arguments()
Checked(t, sent) ==
  t.arguments = <<>> \/ t.own \/
    /\ \A n \in DOMAIN sent :
         \/ t.idempotent /\ n = Key
         \/ Named(t.arguments, n) /\ Accepts(First(t.arguments, n).kind, sent[n])
    /\ CheckedRequired(t, sent)

\* scalar_vars(): nothing but scalars; null is left out.
Scalar(sent) == \A n \in DOMAIN sent : sent[n].json # "array"

Vars(sent) == [n \in {m \in DOMAIN sent : sent[m].json # "null"} |-> sent[n].text]

\* render(): a placeholder without a value is an error.
Fillable(tm, vars) == \A j \in DOMAIN tm.holes : tm.holes[j] \in DOMAIN vars

Filled(tm, vars) == [dash |-> tm.dash, text |-> tm.text,
                     from |-> tm.holes, vals |-> [j \in DOMAIN tm.holes |-> vars[tm.holes[j]]]]

Dashed(x) == x \in {"-word", "-12", "-inf"}

\* is_plain_number()
PlainNumber(x) == x \in {"12", "-12", "1.5"}

\* An element that is an option only because of what the caller sent.
TurnsOption(e) ==
  /\ ~e.dash /\ ~e.text /\ e.vals # <<>> /\ Dashed(e.vals[1])
  /\ ~(Len(e.vals) = 1 /\ PlainNumber(e.vals[1]))

\* push_checked()
Passable(e) == \A j \in DOMAIN e.vals : e.vals[j] \notin {"long", "nul"}

\* appended(): the declared arguments the templates do not place.
Appended(t, args) == NamesIn(t.arguments) \ (Holes(args) \cup Holes(t.stdin))

Option(n)    == [dash |-> TRUE, text |-> FALSE, from |-> <<n>>, vals |-> <<>>]
Operand(n, v) == [dash |-> FALSE, text |-> FALSE, from |-> <<n>>, vals |-> <<v>>]

\* The pairs appended for the arguments that were sent.
Pairs(names, vars) == UNION {{Option(n), Operand(n, vars[n])} : n \in names \cap DOMAIN vars}

\* build_argv(), as a refusal or an argv.
Buildable(t, args, vars) ==
  /\ \A i \in DOMAIN t.arguments : t.arguments[i].required => t.arguments[i].name \in DOMAIN vars
  /\ \A i \in DOMAIN args : /\ Fillable(args[i], vars)
                            /\ ~TurnsOption(Filled(args[i], vars))
                            /\ Passable(Filled(args[i], vars))
  /\ \A n \in Appended(t, args) \cap DOMAIN vars : vars[n] \notin {"long", "nul"}

\* The templates in their places, then the pairs in the order declared, which
\* is left out.
Argv(t, args, vars) == [placed |-> [i \in DOMAIN args |-> Filled(args[i], vars)],
                        added  |-> Pairs(Appended(t, args), vars)]

\* preview_argv(): the same command line before anybody calls.
Preview(t) == [placed |-> t.args, added |-> {Option(n) : n \in Appended(t, t.args)}]

\* run(): the command's argv, its stdin and the fallback's argv are all built
\* before anything starts.
Starts(t, sent) ==
  /\ Checked(t, sent) /\ Scalar(sent)
  /\ Buildable(t, t.args, Vars(sent))
  /\ \A i \in DOMAIN t.stdin : Fillable(t.stdin[i], Vars(sent))
  /\ \A k \in DOMAIN t.quick : Buildable(t, t.quick[k], Vars(sent))

\* What the program is given: the elements of its argv and of its stdin.
Given(t, args, sent) ==
  LET argv == Argv(t, args, Vars(sent))
  IN {argv.placed[i] : i \in DOMAIN args} \cup argv.added
       \cup {Filled(t.stdin[i], Vars(sent)) : i \in DOMAIN t.stdin}
=============================================================================
