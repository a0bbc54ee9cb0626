---------------------------- MODULE MCRateLimit ----------------------------
(* Instances of RateLimit for TLC.                                         *)
EXTENDS RateLimit

CONSTANTS a, b, d, e
=============================================================================
