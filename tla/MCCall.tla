------------------------------- MODULE MCCall -------------------------------
EXTENDS Call, TLC

CONSTANTS c1, c2

MCCalls == {c1, c2}

Fire(b, t, s) == [by |-> b, tool |-> t, says |-> s, once |-> FALSE]
Once(f)       == [f EXCEPT !.once = TRUE]

\* One of each way through the policy and the queue, beside a write.
MCFires ==
  (c1 :> {Fire("client", "read", "allow"), Once(Fire("client", "write", "ask")),
          Once(Fire("client", "command", "ask")), Fire("hand", "command", "allow"),
          Fire("hand", "read", "ask"), Fire("hand", "write", "deny"),
          Fire("client", "unknown", "ask")})
  @@ (c2 :> {Fire("client", "write", "allow")})
=============================================================================
