------------------------- MODULE MCNametableStaging -------------------------
(* Small instances of NametableStaging for TLC.                            *)
EXTENDS NametableStaging, TLC

CONSTANT b1   \* a bitmap byte

(* All addresses have their bits in one bitmap byte.                       *)
SharedByte == [a \in Addrs |-> b1]

(* The addresses are interchangeable, and so are the tiles.                *)
AddressSymmetry == Permutations(Addrs) \cup Permutations(Tiles)
=============================================================================
