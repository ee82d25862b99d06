---------------------------- MODULE MCUnaryPoll -----------------------------
(* UnaryPoll for TLC: calls are interchangeable model values.              *)
EXTENDS UnaryPoll, TLC

CallSymmetry == Permutations(Calls)
=============================================================================
