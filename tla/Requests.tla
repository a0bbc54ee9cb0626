------------------------------ MODULE Requests ------------------------------
(***************************************************************************)
(* A REST upstream described in the configuration (upstreams/http.rs): how *)
(* an operation's templates and a caller's arguments become one request.   *)
(* A path is a sequence of segments [text, hole, name]: a text, or one     *)
(* that a placeholder follows; a query or a body gives each of its keys a  *)
(* template: one placeholder alone, text around one, or no placeholder.    *)
(***************************************************************************)
EXTENDS Naturals, Sequences

\* What a caller may send: text that means something in a URL, a number, and
\* what is not a scalar.
Texts   == {"word", ".", "..", "a/b", "x?y", ""}
Scalars == Texts \cup {"12"}
Sendable == Scalars \cup {"null", "array"}

\* encode_segment(): the one segment a text is on the wire.
Encoded(x) == CASE x = "a/b" -> "a%2Fb" [] x = "x?y" -> "x%3Fy" [] OTHER -> x

\* Mutant: the encoding is trusted to keep it in place.
PathTakesDots(x) == x \in Scalars

\* path_value(): a dot segment is refused.
PathTakes(x) == x \in Scalars \ {".", ".."}

PathRenders(path, args) ==
  \A i \in DOMAIN path : path[i].hole => /\ path[i].name \in DOMAIN args
                                         /\ PathTakes(args[path[i].name])

\* A text and what follows it; of two that are there, "word" stands for both.
NoText == ""
Joined(before, x) == CASE before = NoText -> x [] x = NoText -> before [] OTHER -> "word"

\* render_str() on the path.
PathOf(path, args) ==
  [i \in DOMAIN path |-> IF path[i].hole THEN Joined(path[i].text, Encoded(args[path[i].name]))
                         ELSE path[i].text]

\* is_sole_placeholder()
Optional(e) == e.shape = "sole"

\* An entry is left out when its only placeholder has no value.
LeftOut(e, args) == Optional(e) /\ e.name \notin DOMAIN args

\* Text around a placeholder takes a scalar; a body's sole placeholder takes
\* the value as it is, a query's must be a scalar.
EntryRenders(e, args, query) ==
  CASE e.shape = "plain" -> TRUE
    [] e.shape = "sole"  -> e.name \in DOMAIN args /\ (query => args[e.name] \in Scalars)
    [] e.shape = "text"  -> e.name \in DOMAIN args /\ args[e.name] \in Scalars

EntryOf(e, args) == [value |-> IF e.shape = "plain" THEN "plain" ELSE args[e.name],
                     around |-> e.shape = "text"]

\* call(): an operation that is declared, or nothing.
Renders(op, args) ==
  /\ op.declared /\ PathRenders(op.path, args)
  /\ \A k \in DOMAIN op.query : LeftOut(op.query[k], args) \/ EntryRenders(op.query[k], args, TRUE)
  /\ \A k \in DOMAIN op.body  : LeftOut(op.body[k], args) \/ EntryRenders(op.body[k], args, FALSE)

Entries(es, args) == [k \in {k \in DOMAIN es : ~LeftOut(es[k], args)} |-> EntryOf(es[k], args)]

Request(op, args) == [path |-> PathOf(op.path, args), query |-> Entries(op.query, args),
                      body |-> Entries(op.body, args)]

\* The URL parser the request goes through, segment by segment: a dot segment
\* moves it, and what was not encoded is cut.
Walked(done, x) == CASE x = ".."  -> IF done = <<>> THEN done ELSE SubSeq(done, 1, Len(done) - 1)
                     [] x = "."   -> done
                     [] x = "a/b" -> done \o <<"a", "b">>
                     [] OTHER     -> Append(done, x)

Resolved(path) ==
  LET upTo[n \in 0..Len(path)] == IF n = 0 THEN <<>> ELSE Walked(upTo[n - 1], path[n])
  IN upTo[Len(path)]
=============================================================================
