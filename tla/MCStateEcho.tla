---------------------------- MODULE MCStateEcho -----------------------------
(* StateEcho for TLC: states a signed char holds, and some it does not.    *)
EXTENDS StateEcho

NewRange == 0..300
=============================================================================
