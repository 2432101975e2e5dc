--------------------------- MODULE RemovedStores ---------------------------
(* What the passes have in common that remove stores to 6502 state kept in *)
(* shadow cells (DeadFlags, DeadHram): liveness is computed over a         *)
(* program, stores that nothing reads are taken out, and what is left      *)
(* runs. A removed store leaves its cell stale.                            *)

VARIABLES
  prog,        \* the program; never changes
  pass,        \* which pass rewrites it
  phase,       \* "sweep", "optimize", "run"
  liveIn,      \* cells live before each part of the program, so far
  liveOut,     \* and behind it
  removed,     \* the stores taken out
  at,          \* <<part, place in it>> about to run
  stale        \* cells that do not hold what the 6502 would
=============================================================================
