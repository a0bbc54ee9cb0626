------------------------------ MODULE Connect ------------------------------
(***************************************************************************)
(* The form that adds a service (connect.rs): it becomes a pack, and is    *)
(* merged as one.  A connection is [name, service, target, env, token,     *)
(* tools]; its tools are [name, binding, op, request, cmd].                *)
(***************************************************************************)
EXTENDS Packs

\* name_from_url, slug: the host names the service, or its port where every
\* service has the same host; a command is named by its file.
NameFrom(target) == CASE target = "https://api.example.com/v1"  -> "api-example-com"
                      [] target = "http://127.0.0.1:23373/mcp" -> "localhost-23373"
                      [] target \in {"qmd", "/opt/homebrew/bin/qmd"} -> "qmd"
                      [] OTHER                                 -> Blank

\* derived_name()
DerivedName(n) ==
  IF n.name # Blank THEN n.name
  ELSE IF n.service # "exec" THEN NameFrom(n.target)
  ELSE LET with == SelectSeq(n.tools, LAMBDA t : t.binding = "exec")
       IN IF with = <<>> THEN Blank ELSE NameFrom(with[1].cmd)

ToolFits(n, t) ==
  /\ t.name # Blank
  /\ CASE t.binding = "exec" -> n.service = "exec" /\ t.cmd # Blank
       [] t.binding = "op"   -> /\ n.service # "exec"
                                /\ n.service = "http" => t.request = "full"

\* to_pack(), when it is not refused.
Packable(n) == /\ DerivedName(n) \notin {Blank, "a b"} /\ n.tools # <<>>
               /\ \A i \in DOMAIN n.tools : ToolFits(n, n.tools[i])
               /\ n.service # "exec" => n.target # Blank

OpOf(t) == IF t.op = Blank THEN t.name ELSE t.op

Bound(n, t) ==
  [name |-> t.name, arguments |-> <<>>, own |-> FALSE, idempotent |-> FALSE, args |-> <<>>,
   stdin |-> <<>>, quick |-> <<>>, quickAfter |-> 0, label |-> Blank, limit |-> 0, slots |-> 1,
   files |-> <<>>, cwd |-> <<>>,
   does |-> IF t.binding = "exec" THEN "exec" ELSE "proxy",
   at   |-> IF t.binding = "exec" THEN t.cmd ELSE DerivedName(n),
   op   |-> IF t.binding = "exec" THEN Blank ELSE OpOf(t)]

\* The pack carries the name of a variable, and never the token that was pasted.
ToPack(n) ==
  [name  |-> DerivedName(n), seeds |-> <<>>, scripts |-> <<>>, needs |-> {n.env} \ {Blank},
   tools |-> [i \in DOMAIN n.tools |-> Bound(n, n.tools[i])],
   upstreams |->
     IF n.service = "exec" THEN <<>>
     ELSE <<[name |-> DerivedName(n), kind |-> n.service, token |-> Blank, env |-> n.env,
             ops |-> IF n.service = "http" THEN {OpOf(n.tools[i]) : i \in DOMAIN n.tools} ELSE {}]>>]

\* apply_inline_token(), called with the name as it was typed.
WithInlineToken(c, name, token) ==
  IF token = Blank \/ ~Named(c.upstreams, name) THEN c
  ELSE [c EXCEPT !.upstreams = [i \in DOMAIN c.upstreams |->
          IF c.upstreams[i].name = name /\ IsFirst(c.upstreams, i)
          THEN [c.upstreams[i] EXCEPT !.token = token] ELSE c.upstreams[i]]]

\* inline_token(): the form of a command has none.
InlineToken(n) == IF n.service = "exec" THEN Blank ELSE n.token

\* add_connection(): what is written, when the merge is not refused.
Connected(c, n, replace, folder) ==
  LET m == Merge(c, ToPack(n), [replace |-> replace, scripts |-> FALSE, dangerous |-> FALSE,
                                write |-> FALSE], folder)
  IN [m EXCEPT !.cfg = IF m.says = "ok" THEN WithInlineToken(@, n.name, InlineToken(n)) ELSE @]
=============================================================================
