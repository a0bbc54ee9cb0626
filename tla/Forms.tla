-------------------------------- MODULE Forms --------------------------------
(***************************************************************************)
(* The pure parts of the gateway that a call meets, from any input: what   *)
(* it is served as, what its arguments become, what request they make, and *)
(* what a reader is told of a script's line.  Each action takes one input, *)
(* and the properties say what its answer must be.                         *)
(***************************************************************************)
EXTENDS Scripts, Requests, Protocol

CONSTANTS
  Tools,    \* the tools of configurations
  Sends,    \* what clients send with a call: a function from names to values
  Lines,    \* the lines of scripts
  Ops,      \* the operations of REST upstreams
  Fills     \* what callers send with one: a function from names to Sendable

Templates    == [dash : BOOLEAN, text : BOOLEAN, holes : Seq(STRING)]
Declarations == [name : STRING, required : BOOLEAN,
                 kind : {"string", "integer", "number", "boolean"}]
ToolForms    ==
  [name : STRING, does : {"exec", "script"}, at : STRING, op : STRING, limit : Nat, slots : Nat,
   quickAfter : Nat, label : STRING, files : Seq(STRING), cwd : Seq(STRING),
   arguments : Seq(Declarations), own : BOOLEAN, idempotent : BOOLEAN, args : Seq(Templates), stdin : Seq(Templates),
   quick : Seq(Seq(Templates))]

\* A segment has no slash in it.
Segments == [text : STRING \ {"a/b"}, hole : BOOLEAN, name : STRING]
Shapes   == {"plain", "sole", "text"}

ASSUME FormsAssumption == /\ Tools \subseteq ToolForms
                          /\ \A o \in Ops : o.path \in Seq(Segments)
                          /\ \A o \in Ops : /\ \A k \in DOMAIN o.query : o.query[k].shape \in Shapes
                                            /\ \A k \in DOMAIN o.body  : o.body[k].shape \in Shapes

VARIABLES kind, in

Unused == kind = "none"

Picked(k, x) == kind' = k /\ in' = x

FormsInit == kind = "none" /\ in = <<>>

-----------------------------------------------------------------------------
(* Calls.                                                                  *)

Def(lang) == [name |-> "tidy", lang |-> lang, sha |-> <<>>, origin |-> "local"]

\* A script tool is a command by the time it is called.
Runs(t, win) ==
  IF t.does = "exec" THEN t
  ELSE Lower(t, Def("python3"), CommandFor("python3", win, {"py", "python3"}, {"python3"}))

TakeCall == Unused /\ \E t \in {x \in Tools : ArgumentsFit(x)}, f \in Sends, win \in BOOLEAN :
              Picked("call", [raw |-> t, tool |-> Runs(t, win), sent |-> f])

\* A call that keeps to the schema it was shown.
Conforms(t, sent) ==
  LET s == Schema(t) IN
  /\ s.required \subseteq DOMAIN sent
  /\ \A n \in DOMAIN sent :
       IF n \in DOMAIN s.types
       THEN sent[n].json \in {s.types[n]} \cup (IF s.types[n] = "number" THEN {"integer"} ELSE {})
       ELSE s.open

\* The one key a schema does not ask for and the check does: the tool's own,
\* declared as optional.
KeyLeftOpen(t) == t.idempotent /\ Named(t.arguments, Key) /\ ~First(t.arguments, Key).required

\* Everything the client sent is in the command, the stdin it reads or, when
\* that runs instead, the fallback; and nothing else is.  (The key is the
\* gateway's own.)
ActsOn(t, args, sent) ==
  /\ \A n \in DOMAIN sent :
       sent[n].json # "null" /\ ~(n = Key /\ AddsKey(t)) =>
         \E e \in Given(t, args, sent) :
           \E j \in DOMAIN e.vals : e.from[j] = n /\ e.vals[j] = sent[n].text
  /\ \A e \in Given(t, args, sent) : \A j \in DOMAIN e.from : Named(t.arguments, e.from[j])

\* No value of it is in the interpreter's part, and its options are those that
\* the preview shows.
AsPreviewed(t, raw, sent) ==
  LET argv == Argv(t, t.args, Vars(sent)) IN
  /\ \A e \in argv.added : e.vals = <<>> => e \in Preview(t).added
  /\ \A i \in 1..(Len(t.args) - Len(raw.args)) : argv.placed[i].vals = <<>>

\* A call that keeps to the schema passes the check; a call that starts acts
\* on all that was sent (config.rs:355, "a dropped key does not make a call
\* smaller - it makes it wider").
SentIsActedOn ==
  kind = "call" =>
    LET t == in.tool IN
    /\ Conforms(t, in.sent) /\ ~KeyLeftOpen(t) => Checked(t, in.sent)
    /\ t.arguments # <<>> /\ ~t.own /\ Starts(t, in.sent) =>
         /\ ActsOn(t, t.args, in.sent)
         /\ \A k \in DOMAIN t.quick : ActsOn(t, t.quick[k], in.sent)
         /\ AsPreviewed(t, in.raw, in.sent)
    /\ ~t.own /\ t.arguments # <<>> =>
         {d[1] : d \in {x \in Described(t) : x[3]}} = Schema(t).required
-----------------------------------------------------------------------------
(* Reviews of a script's line.                                             *)

TakeLine == Unused /\ \E l \in Lines : Picked("line", l)

\* scripts.rs:433, "a line doing both things still reports the half that
\* matters": a line is told as loudly as anything that is on it.  A line too
\* long to read is told as that alone.
HalvesAreReported ==
  kind = "line" /\ "long" \notin in =>
    \A part \in SUBSET in : Found(part).severity <= Found(in).severity
-----------------------------------------------------------------------------
(* Requests to a REST upstream.                                            *)

TakeRequest == Unused /\ \E o \in Ops, a \in Fills : Picked("request", [op |-> o, args |-> a])

\* The operator wrote no dot segments, nor dots that a placeholder without a
\* value would leave alone in theirs.
Straight(path) == \A i \in DOMAIN path : path[i].text \notin {".", ".."}

\* A request that is made goes where the operator wrote, whatever was sent:
\* every literal in its place and each argument within its own segment; and
\* what is missing from it is what was not sent (http.rs:121).
RequestIsAsDeclared ==
  kind = "request" /\ Renders(in.op, in.args) =>
    LET r == Request(in.op, in.args) IN
    /\ in.op.declared
    /\ Straight(in.op.path) =>
         /\ Resolved(r.path) = r.path /\ Len(r.path) = Len(in.op.path)
         /\ \A i \in DOMAIN in.op.path : ~in.op.path[i].hole => r.path[i] = in.op.path[i].text
    /\ \A k \in DOMAIN in.op.query :
         k \in DOMAIN r.query <=> (in.op.query[k].shape = "sole" => in.op.query[k].name \in DOMAIN in.args)
    /\ \A k \in DOMAIN in.op.body :
         k \in DOMAIN r.body <=> (in.op.body[k].shape = "sole" => in.op.body[k].name \in DOMAIN in.args)
    /\ \A k \in DOMAIN r.query : r.query[k].value \in Scalars \cup {"plain"}
-----------------------------------------------------------------------------
(* One request's revision of the protocol.                                 *)

TakeWire == Unused /\ \E w \in Wires : Picked("wire", w)

\* What is served as a revision is what the request said everywhere it said
\* it: a modern answer mirrors the version, the method and the call's name in
\* the headers, an older one was asked for, and whatever lists, discovers or
\* calls leaves a row (protocol.rs, negotiate and validate_headers).
ServedAsDeclared ==
  kind = "wire" =>
    LET r == Reply(in) IN
    /\ Stamped(in, {}) # {} =>
         /\ in.meta \in ModernVersions /\ in.header = in.meta
         /\ in.hmethod = "same" /\ (r.reply = "call" => in.hname = "same")
    /\ r.reply \in {"result", "call"} =>
         /\ in.method # "initialize" => Declared(in) \in ModernVersions \cup LegacyVersions \cup {"none"}
         /\ in.method # "ping" => r.row = in.method
    /\ "private" \in Stamped(in, {}) => in.method # "tools/call"
-----------------------------------------------------------------------------
FormsNext == TakeCall \/ TakeLine \/ TakeRequest \/ TakeWire

FormsSpec == FormsInit /\ [][FormsNext]_<<kind, in>>
=============================================================================
