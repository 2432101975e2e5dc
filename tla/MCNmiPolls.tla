----------------------------- MODULE MCNmiPolls -----------------------------
(* Programs in one bank, so that the emitter builds superblocks, with an   *)
(* RTS over a known table among the last instructions.                     *)
EXTENDS NmiPolls

ChainedPrograms ==
  LET after1 == {Block("jsr", {3}, 2), Block("fall", {}, 2), Block("branch", {3}, 2)}
      after2 == {Block("jmp", {1}, 0), Block("branch", {2}, 3), Block("table", {1, 3}, 0)}
      after3 == {Block("rts", {}, 0), Block("branch", {3}, 4), Block("jmp", {2}, 0)}
      after4 == {Block("rts", {}, 0), Block("branch", {4}, 6), Block("jmp", {3}, 0)}
      after5 == {Block("jsr", {3}, 4), Block("jsr", {3}, 6), Block("jmp", {4}, 0)}
  IN {p \in {[block |-> <<b1, b2, b3, b4, b5, Block("rti", {}, 0)>>, bank |-> [b \in 1..6 |-> 1],
              reset |-> 1, nmi |-> 5, irq |-> 6] :
                b1 \in after1, b2 \in after2, b3 \in after3, b4 \in after4, b5 \in after5} :
        IsProgram(p)}
=============================================================================
