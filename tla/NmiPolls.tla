------------------------------ MODULE NmiPolls ------------------------------
(* Which blocks poll for the host VBlank. The emitter decides which blocks *)
(* begin with a poll, which of them only the NMI handler reaches, and what *)
(* is chained into superblocks (state_superblock.rs); then                 *)
(* tools/elide_nmi_internal_polls.py works out the same from the text and  *)
(* removes more polls, and tools/direct_nmi_dispatch.py links the vector.  *)
(* The program is then run, with an NMI at any poll.                       *)
EXTENDS Naturals, Sequences, FiniteSets, SequencesExt, FiniteSetsExt

CONSTANTS
  Programs,    \* see IsProgram
  MaxDepth     \* bound of the 6502 stack

VARIABLES
  code,        \* the program; never changes
  todo,        \* passes still to come
  chain,       \* the block each block runs on into, 0 for none
  polled,      \* blocks that begin with a poll
  vector,      \* how the NMI entry reaches its block: "dispatch" or "linked"
  pc, stack, active

vars == <<code, todo, chain, polled, vector, pc, stack, active>>

(* op: the last instruction of a block. to: the targets the emitter knows; *)
(* none for an indirect jump it could not resolve. next: the block after   *)
(* it. "table" is an RTS that takes an address from a known table, "switch" *)
(* a JSR to a dispatcher with the targets behind it.                       *)
Block(op, to, next) == [op |-> op, to |-> to, next |-> next]

Labels == DOMAIN code.block
Op(b) == code.block[b].op
To(b) == code.block[b].to
NextOf(b) == code.block[b].next

Falls(b) == Op(b) \in {"branch", "fall"}

IsProgram(p) ==
  /\ {p.reset, p.nmi, p.irq} \subseteq DOMAIN p.block
  /\ \A b \in DOMAIN p.block :
       /\ p.block[b].to \cup {p.block[b].next} \subseteq DOMAIN p.block \cup {0}
       /\ p.block[b].op \in {"branch", "fall", "jsr"} => p.block[b].next # 0
       /\ p.block[b].op = "table" => p.block[b].to # {}

-----------------------------------------------------------------------------
(* The emitter, on the control-flow graph.                                 *)

Edges(b) == To(b) \cup (IF Falls(b) \/ Op(b) = "jsr" THEN {NextOf(b)} ELSE {})
Incoming(t) ==
  Cardinality({b \in Labels : t \in To(b)})
  + Cardinality({b \in Labels : t = NextOf(b) /\ (Falls(b) \/ Op(b) = "jsr")})

Entries == {code.reset, code.nmi, code.irq}
PollPoints == Entries \cup {t \in Labels : \E b \in Labels : t \in Edges(b) /\ t <= b}

(* What can be reached from roots when succ[b] are the blocks after b.     *)
Reach(roots, succ) ==
  FoldSet(LAMBDA b, seen : seen \cup UNION {succ[c] : c \in seen}, roots, Labels)

Graph == [b \in Labels |-> Edges(b)]

Unresolved(b) == Op(b) = "ind" /\ To(b) = {}

ReachOfReset == Reach({code.reset} \cup ({code.irq} \ {code.nmi}), Graph)

NmiExclusive ==
  LET other == ReachOfReset
  IN IF \E b \in other : Unresolved(b) THEN {}
     ELSE Reach({code.nmi}, Graph) \ other

PreferredSuccessor(b) ==
  CASE Op(b) = "jmp" -> CHOOSE t \in To(b) : TRUE
    [] Falls(b) -> NextOf(b)
    [] OTHER -> 0

(* A target is taken into the superblock of b if nothing else reaches it   *)
(* and it does not poll, or if only the NMI handler reaches both.          *)
CanChain(b, t, exclusive) ==
  /\ code.bank[b] = code.bank[t]
  /\ {b, t} \subseteq exclusive \/ (Incoming(t) = 1 /\ t \notin PollPoints)
  /\ t \notin Entries

(* Superblocks grow from seeds in order of address.                        *)
Plan ==
  LET exclusive == NmiExclusive
      follower == [b \in Labels |->
                     LET t == PreferredSuccessor(b)
                     IN IF t # 0 /\ CanChain(b, t, exclusive) THEN t ELSE 0]
      extend(s, i) ==
        LET t == IF s.current = 0 THEN 0 ELSE follower[s.current]
        IN IF t = 0 \/ t \in s.claimed THEN [s EXCEPT !.current = 0]
           ELSE [current |-> t, claimed |-> s.claimed \cup {t},
                 next |-> [s.next EXCEPT ![s.current] = t]]
      grow(s, seed) ==
        IF seed \in s.claimed THEN s
        ELSE FoldLeft(extend, [s EXCEPT !.current = seed, !.claimed = @ \cup {seed}],
                      [i \in 1..Cardinality(Labels) |-> i])
  IN IF \E b \in Labels : Unresolved(b) THEN [b \in Labels |-> 0]
     ELSE FoldLeft(grow, [current |-> 0, claimed |-> {}, next |-> [b \in Labels |-> 0]],
                   SetToSortSeq(Labels, LAMBDA b, c : b < c)).next

Emit ==
  /\ todo # <<>> /\ Head(todo) = "emit"
  /\ chain' = Plan
  /\ polled' = PollPoints \ NmiExclusive
  /\ todo' = Tail(todo)
  /\ UNCHANGED <<code, vector, pc, stack, active>>

-----------------------------------------------------------------------------
(* The pass, on the text: what is written under a label nes_XXXX is one    *)
(* block, and only what follows its last instruction tells where it goes.  *)

Ends ==
  FoldSet(LAMBDA b, e : [c \in Labels |-> IF chain[e[c]] = 0 THEN e[c] ELSE chain[e[c]]],
          [b \in Labels |-> b], Labels)

(* Labels named after the last instruction; none after an indirect jump or *)
(* a return, whose targets the emitter leaves to the dispatcher.           *)
Refs(b) ==
  (IF Op(b) \in {"ind", "table", "rts", "rti"} THEN {} ELSE To(b))
  \cup (IF Falls(b) THEN {NextOf(b)} ELSE {})

(* Mutant of SuccOfEnd: a call does not come back.                         *)
CalleeOnly(b) == Refs(b)

SuccOfEnd(b) == Refs(b) \cup (IF Op(b) = "jsr" THEN {NextOf(b)} ELSE {})

(* The canonical entry of a block inside a superblock only jumps there.    *)
Elide ==
  /\ todo # <<>> /\ Head(todo) = "elide"
  /\ LET end == Ends
         inner == {chain[b] : b \in Labels}
         succ == [b \in Labels |-> IF b \in inner THEN {} ELSE SuccOfEnd(end[b])]
         reach(roots) == Reach(roots, succ)
         other == reach({code.reset, code.irq} \ {code.nmi})
     IN polled' = IF \E b \in other \ inner : Op(end[b]) = "ind" THEN polled
                  ELSE polled \ (reach({code.nmi}) \ other)
  /\ todo' = Tail(todo)
  /\ UNCHANGED <<code, chain, vector, pc, stack, active>>

LinkVector ==
  /\ todo # <<>> /\ Head(todo) = "link"
  /\ vector' = IF code.nmi \in Labels THEN "linked" ELSE vector
  /\ todo' = Tail(todo)
  /\ UNCHANGED <<code, chain, polled, pc, stack, active>>

-----------------------------------------------------------------------------
(* Execution.                                                              *)

Running == todo = <<>> /\ pc # 0
Pushed(b, by) == [addr |-> b, by |-> by]

Goto ==
  /\ Running /\ Op(pc) \in {"branch", "fall", "jmp", "table", "switch", "ind"}
  /\ \E b \in IF Unresolved(pc) THEN Labels ELSE Edges(pc) : pc' = b
  /\ UNCHANGED <<code, todo, chain, polled, vector, stack, active>>

Jsr ==
  /\ Running /\ Op(pc) = "jsr" /\ Len(stack) < MaxDepth
  /\ stack' = Append(stack, Pushed(NextOf(pc), "jsr"))
  /\ pc' \in To(pc)
  /\ UNCHANGED <<code, todo, chain, polled, vector, active>>

Return(op, by) ==
  /\ Running /\ Op(pc) = op
  /\ stack # <<>> /\ Last(stack).by = by
  /\ pc' = Last(stack).addr
  /\ stack' = Front(stack)

Rts ==
  /\ Return("rts", "jsr")
  /\ UNCHANGED <<code, todo, chain, polled, vector, active>>

Rti ==
  /\ Return("rti", "nmi")
  /\ active' = FALSE
  /\ UNCHANGED <<code, todo, chain, polled, vector>>

Interrupt ==
  /\ Running /\ pc \in polled /\ ~active /\ Len(stack) < MaxDepth
  /\ stack' = Append(stack, Pushed(pc, "nmi"))
  /\ active' = TRUE
  /\ pc' = code.nmi
  /\ UNCHANGED <<code, todo, chain, polled, vector>>

(* A return without its call, or a stack at its bound: the run ends.       *)
Stop ==
  /\ todo = <<>>
  /\ \/ pc = 0
     \/ pc # 0 /\ Op(pc) = "jsr" /\ Len(stack) = MaxDepth
     \/ pc # 0 /\ Op(pc) = "rts" /\ (stack = <<>> \/ (stack # <<>> /\ Last(stack).by # "jsr"))
     \/ pc # 0 /\ Op(pc) = "rti" /\ (stack = <<>> \/ (stack # <<>> /\ Last(stack).by # "nmi"))
  /\ pc' = 0
  /\ UNCHANGED <<code, todo, chain, polled, vector, stack, active>>

Init ==
  /\ code \in Programs
  /\ todo = <<"emit", "elide", "link">>
  /\ chain = <<>>
  /\ polled = {}
  /\ vector = "dispatch"
  /\ pc = code.reset
  /\ stack = <<>>
  /\ active = FALSE

Next == Emit \/ Elide \/ LinkVector \/ Goto \/ Jsr \/ Rts \/ Rti \/ Interrupt \/ Stop

Spec == Init /\ [][Next]_vars

-----------------------------------------------------------------------------
(* elide_nmi_internal_polls.py:20: "Blocks reachable from reset or IRQ     *)
(* retain their original poll points, even when they are also called from  *)
(* NMI code." Wherever the program outside its NMI handler comes to a poll *)
(* point, the poll is there.                                               *)
MainlinePolls ==
  todo = <<>> /\ pc # 0 /\ ~active /\ pc \in PollPoints => pc \in polled

=============================================================================
