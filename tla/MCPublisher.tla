---------------------------- MODULE MCPublisher ----------------------------
EXTENDS Publisher
=============================================================================
