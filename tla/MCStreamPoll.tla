---------------------------- MODULE MCStreamPoll ----------------------------
(* StreamPoll for TLC: clients and updates are model values.               *)
EXTENDS StreamPoll, TLC

ClientSymmetry == Permutations(Clients)
=============================================================================
