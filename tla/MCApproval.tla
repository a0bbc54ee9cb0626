----------------------------- MODULE MCApproval -----------------------------
(* Instances of Approval for TLC.                                          *)
EXTENDS Approval

CONSTANTS c1, c2, k1

\* Two clients' calls for the same pair, so that two cards are about one rule.
SamePair == [c \in {c1, c2} |-> k1]
=============================================================================
