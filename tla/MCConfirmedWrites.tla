-------------------------- MODULE MCConfirmedWrites --------------------------
(* Small instances of ConfirmedWrites for TLC. *)
EXTENDS ConfirmedWrites, TLC

\* Calls and texts are interchangeable in the safety runs.
Symmetry == Permutations(Calls) \cup Permutations(Texts)
=============================================================================
