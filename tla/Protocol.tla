------------------------------ MODULE Protocol ------------------------------
(***************************************************************************)
(* Which revision of MCP one request is served under (protocol.rs), and    *)
(* what its transport must mirror.  A request is classified on its own:    *)
(* nothing is remembered from one to the next.                             *)
(***************************************************************************)
EXTENDS Naturals

ModernVersions == {"2026-07-28"}
LegacyVersions == {"2025-06-18", "2025-03-26", "2024-11-05"}

Methods == {"initialize", "server/discover", "ping", "tools/list", "tools/call", "", "other"}

\* The body's `_meta` is not there, or does not name a version, or names one;
\* a header may be missing, and Mcp-Name may not decode.
Wires == [method : Methods,
          meta   : {"absent", "silent", "2026-07-28", "2025-06-18", "unknown"},
          caps   : BOOLEAN,
          header : {"none", "2026-07-28", "2025-06-18", "unknown"},
          hmethod : {"none", "same", "different"},
          hname   : {"none", "undecodable", "same", "different"}]

\* classify()
Classify(v) == CASE v \in ModernVersions -> "modern"
                 [] v \in LegacyVersions -> "legacy"
                 [] OTHER                -> "unsupported"

Versioned(w) == w.meta \notin {"absent", "silent"}

\* The body's word goes before the header's.
Declared(w) == IF Versioned(w) THEN w.meta ELSE w.header

\* Mutant: the name is not compared.
MirroredNameless(w) == w.header = Declared(w) /\ w.hmethod = "same"

\* validate_headers()
Mirrored(w) == /\ w.header = Declared(w)
               /\ w.hmethod = "same"
               /\ w.method = "tools/call" => w.hname = "same"

\* negotiate(): the era, or why the request is refused.
Negotiate(w) ==
  IF w.method = "initialize" \/ Declared(w) = "none" THEN "legacy"
  ELSE LET era == Classify(Declared(w)) IN
       IF era # "modern" THEN era
       ELSE IF ~Versioned(w) \/ ~w.caps THEN "invalid"
       ELSE IF Mirrored(w) THEN "modern" ELSE "mismatch"

\* handle_mcp: what is answered, and the row that is written for it.
Reply(w) ==
  LET era == Negotiate(w) IN
  IF era \notin {"legacy", "modern"} THEN [reply |-> era, row |-> "protocol"]
  ELSE
  CASE w.method \in {"initialize", "server/discover", "tools/list"}
                                       -> [reply |-> "result", row |-> w.method]
    [] w.method = "tools/call"         -> [reply |-> "call", row |-> "tools/call"]
    [] w.method = "ping"               -> [reply |-> "result", row |-> "none"]
    [] w.method = ""                   -> [reply |-> "no method", row |-> "none"]
    [] OTHER -> [reply |-> IF era = "modern" THEN "not implemented" ELSE "not found", row |-> "none"]

\* finish(), cacheable(): what a result is stamped with.
Stamped(w, result) ==
  IF Negotiate(w) # "modern" THEN result
  ELSE result \cup {"resultType", "serverInfo"}
              \cup (IF w.method \in {"server/discover", "tools/list"} THEN {"ttlMs", "private"} ELSE {})
=============================================================================
