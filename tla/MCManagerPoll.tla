---------------------------- MODULE MCManagerPoll ----------------------------
(* ManagerPoll for TLC: confirmations are interchangeable model values.    *)
EXTENDS ManagerPoll, TLC

ConfirmationSymmetry == Permutations(Confirmations)
=============================================================================
