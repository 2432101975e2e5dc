--------------------------- MODULE MCFramePacing ---------------------------
(* Small instances of FramePacing for TLC.                                 *)
EXTENDS FramePacing, TLC

(* The poll points are interchangeable (safety runs only).                 *)
PollPointSymmetry == Permutations(SafePoints)
=============================================================================
