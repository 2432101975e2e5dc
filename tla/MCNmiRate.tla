----------------------------- MODULE MCNmiRate -----------------------------
(* Small instances of NmiRate for TLC.                                     *)
EXTENDS NmiRate, TLC

(* The poll points are interchangeable (safety runs only).                 *)
PollPointSymmetry == Permutations(SafePoints)
=============================================================================
