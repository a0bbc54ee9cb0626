--------------------------- MODULE MCIdempotency ---------------------------
(* Instances of Idempotency for TLC.                                       *)
EXTENDS Idempotency

CONSTANTS c1, c2, c3, c4, k1, w1, w2

\* Three calls for one thing, and a different call that reuses their key.
OneKey == [c \in {c1, c2, c3, c4} |-> k1]
Reused == [c \in {c1, c2, c3, c4} |-> IF c = c4 THEN w2 ELSE w1]
=============================================================================
