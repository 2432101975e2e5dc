----------------------------- MODULE DeadFlags -----------------------------
(* The passes that remove dead flag publications from the translated       *)
(* blocks: for Z and N tools/dead_terminal_zn.py with its companions for   *)
(* BMI/BPL, BCC/BCS and BVC/BVS, and the instruction-level                 *)
(* tools/dead_global_zn.py; for V tools/lazy_overflow_updates.py.          *)
(*                                                                         *)
(* A program is a sequence of blocks of 6502 instructions in file order.   *)
(* The pass sweeps the blocks until the liveness of its flags settles,     *)
(* removes stores, and the program is then run: a removed store leaves the *)
(* shadow of its flag stale, and nothing may read a stale shadow.          *)
(* liveIn and liveOut are about blocks, removed holds <<block, instruction, *)
(* flag>>, and at is <<block, instruction>>; instruction 0 is the prologue.*)
EXTENDS Naturals, Sequences, RemovedStores

CONSTANTS
  NumBlocks,   \* translated blocks, numbered in file order
  Programs     \* the programs considered, see IsProgram

(* "terminal": the four terminal passes; "global": dead_global_zn;         *)
(* "overflow": lazy_overflow_updates.                                      *)
FlagPasses == {"terminal", "global", "overflow"}

vars == <<prog, pass, phase, liveIn, liveOut, removed, at, stale>>

Blocks == 1..NumBlocks

(* A branch target that was not translated: nes_dispatch_hl stops there.   *)
Outside == 0

Flags == IF pass = "overflow" THEN {"v"} ELSE {"z", "n"}

(* One mnemonic stands for its class: "Lda" for everything that publishes  *)
(* Z and N only, "Adc" for what publishes V too, "Sta" for what touches no *)
(* flag.                                                                   *)
Writers == IF pass = "overflow" THEN {"Adc"} ELSE {"Lda", "Adc"}
Branches == {"Beq", "Bmi", "Bcc", "Bvc"}
DynamicExits == {"Jsr", "Rts", "JmpInd"}
Mnemonics == Branches \cup DynamicExits \cup {"Lda", "Adc", "Sta", "Php", "Jmp"}

(* body: all instructions up to the next canonical label; cut: how many    *)
(* come before a private trace label, if there is one (otherwise all);     *)
(* fused: the last branch tests the producer's result still in host A.     *)
(* Control leaves the block only at its end: the emitter ends one at every *)
(* branch, jump or exit, and a trace label stands behind it (cfg.rs,       *)
(* state_superblock.rs).                                                   *)
IsProgram(p) ==
  /\ p.body \in [Blocks -> Seq(Mnemonics)]
  /\ \A b \in Blocks : /\ p.cut[b] \in 0..Len(p.body[b])
                        /\ \A i \in 1..p.cut[b] - 1 :
                             p.body[b][i] \notin Branches \cup DynamicExits \cup {"Jmp"}
  /\ p.target \in [Blocks -> Blocks \cup {Outside}]
  /\ p.poll \subseteq Blocks
  /\ p.fused \subseteq {b \in Blocks : /\ p.cut[b] >= 2
                                       /\ p.body[b][p.cut[b]] \in {"Beq", "Bmi"}
                                       /\ p.body[b][p.cut[b] - 1] = "Lda"}

ASSUME ProgramsAssumption == NumBlocks \in Nat /\ \A p \in Programs : IsProgram(p)

(* The block behind b in the program; code after the last one is not       *)
(* translated.                                                             *)
Fall(b) == IF b < NumBlocks THEN b + 1 ELSE Outside

-----------------------------------------------------------------------------
(* Analysis. The terminal passes end a block at its trace label; the       *)
(* global pass reads on to the next canonical one.                         *)

Own(b) == SubSeq(prog.body[b], 1, prog.cut[b])
Whole(b) == prog.body[b]
Insns(b) == IF pass = "global" THEN Whole(b) ELSE Own(b)

ReadersOf(f) ==
  CASE f = "z" -> {"Beq", "Php"} \cup (IF pass = "global" THEN {"Jsr"} ELSE {})
    [] f = "n" -> {"Bmi", "Php"} \cup (IF pass = "global" THEN {"Jsr"} ELSE {})
    [] f = "v" -> {"Bvc", "Php", "Jsr", "Rts"}

(* Mutant: the poll at the head of a block is no reader.                   *)
PollIgnored(b) == FALSE
Polled(b) == b \in prog.poll

(* Flags read before the block defines them, and flags it defines.         *)
Uses(b) ==
  {f \in Flags :
     \/ Polled(b)
     \/ \E i \in DOMAIN Insns(b) :
          /\ Insns(b)[i] \in ReadersOf(f)
          /\ \A j \in 1..(i - 1) : Insns(b)[j] \notin Writers}

Defs(b) == IF \E i \in DOMAIN Insns(b) : Insns(b)[i] \in Writers THEN Flags ELSE {}

LastOf(b) == Insns(b)[Len(Insns(b))]

(* A trace label takes the next label away, and the adapter of that name   *)
(* has no instruction of its own.                                          *)
NextKnown(b) == Fall(b) # Outside /\ (pass = "global" \/ prog.cut[b] = Len(prog.body[b]))

UnknownExit(b) ==
  \/ Insns(b) = <<>>
  \/ \E i \in DOMAIN Insns(b) : Insns(b)[i] \in DynamicExits
  \/ LastOf(b) = "Jmp" /\ prog.target[b] = Outside
  \/ LastOf(b) \notin DynamicExits \cup {"Jmp"} /\ prog.cut[b] < Len(prog.body[b])
       /\ pass # "global"
  \/ LastOf(b) \notin Branches \cup DynamicExits \cup {"Jmp"} /\ ~NextKnown(b)

Succ(b) ==
  (IF Insns(b) = <<>> THEN {}
   ELSE IF LastOf(b) \in Branches THEN {Fall(b), prog.target[b]}
   ELSE IF LastOf(b) = "Jmp" THEN {prog.target[b]}
   ELSE IF LastOf(b) \in DynamicExits THEN {}
   ELSE {Fall(b)}) \cap Blocks

(* One turn of the while loop: the blocks last to first, each one seeing   *)
(* what this turn already found for the blocks behind it.                  *)
OutGiven(b, in) == IF UnknownExit(b) THEN Flags ELSE UNION {in[s] : s \in Succ(b)}

Swept ==
  LET in[b \in Blocks] ==
        Uses(b) \cup (OutGiven(b, [s \in Blocks |-> IF s > b THEN in[s] ELSE liveIn[s]])
                        \ Defs(b))
  IN in

(* Mutant: one turn is taken for enough.                                   *)
OneTurn == TRUE
Settled == Swept = liveIn

Sweep ==
  /\ phase = "sweep"
  /\ liveIn' = Swept
  /\ liveOut' = [b \in Blocks |->
                   OutGiven(b, [s \in Blocks |-> IF s > b THEN Swept[s] ELSE liveIn[s]])]
  /\ phase' = IF Settled THEN "optimize" ELSE "sweep"
  /\ UNCHANGED <<prog, pass, removed, at, stale>>

-----------------------------------------------------------------------------
(* Removal.                                                                *)

FusedZ(b) == LastOf(b) = "Beq" /\ b \in prog.fused
FusedN(b) == LastOf(b) = "Bmi" /\ b \in prog.fused
PlainCarry(b) == LastOf(b) = "Bcc"
PlainOverflow(b) == LastOf(b) = "Bvc"

Eligible(b) ==
  /\ Len(Insns(b)) >= 2
  /\ Insns(b)[Len(Insns(b)) - 1] \in Writers
  /\ FusedZ(b) \/ FusedN(b) \/ PlainCarry(b) \/ PlainOverflow(b)

TerminalRemovals ==
  UNION {{<<b, Len(Insns(b)) - 1, f>> : f \in Flags \ liveOut[b]} : b \in {c \in Blocks : Eligible(c)}}

(* Mutant: a reader behind a writer-free stretch of the block is missed.    *)
LiveAtEnd(b, i, f) ==
  f \in liveOut[b] /\ \A k \in (i + 1)..Len(Insns(b)) : Insns(b)[k] \notin Writers

(* Live behind instruction i of block b: read later in the block, or live  *)
(* at its end with no writer on the way.                                   *)
LiveBehind(b, i, f) ==
  LET clear(j) == \A k \in (i + 1)..(j - 1) : Insns(b)[k] \notin Writers
  IN \/ \E j \in (i + 1)..Len(Insns(b)) : Insns(b)[j] \in ReadersOf(f) /\ clear(j)
     \/ f \in liveOut[b] /\ clear(Len(Insns(b)) + 1)

EveryRemoval ==
  UNION {{<<b, i, f>> : i \in {j \in DOMAIN Insns(b) : Insns(b)[j] \in Writers /\ ~LiveBehind(b, j, f)}}
           : b \in Blocks, f \in Flags}

Optimize ==
  /\ phase = "optimize"
  /\ removed' = IF pass = "terminal" THEN TerminalRemovals ELSE EveryRemoval
  /\ phase' = "run"
  /\ \E b \in Blocks : at' = <<b, 0>>
  /\ UNCHANGED <<prog, pass, liveIn, liveOut, stale>>

-----------------------------------------------------------------------------
(* Execution of the rewritten program.                                     *)

Running == phase = "run" /\ at[1] # Outside
Block == at[1]
Body == prog.body[Block]
Mnemonic == IF at[2] = 0 THEN "prologue" ELSE Body[at[2]]
IsFused == Block \in prog.fused /\ at[2] = prog.cut[Block]

Onward == IF at[2] < Len(Body) THEN <<Block, at[2] + 1>> ELSE <<Fall(Block), 0>>

(* What the code about to run reads from the shadows: a pending NMI pushes *)
(* P at a poll, PHP pushes it, and a branch that is not fused tests it.    *)
ReadsNow ==
  CASE Mnemonic = "prologue" -> IF Block \in prog.poll THEN Flags ELSE {}
    [] Mnemonic = "Php" -> Flags
    [] Mnemonic = "Beq" -> IF IsFused THEN {} ELSE Flags \cap {"z"}
    [] Mnemonic = "Bmi" -> IF IsFused THEN {} ELSE Flags \cap {"n"}
    [] Mnemonic = "Bvc" -> Flags \cap {"v"}
    [] OTHER -> {}

Plain ==
  /\ Running
  /\ Mnemonic \in {"prologue", "Sta", "Php"} \cup ({"Lda", "Adc"} \ Writers)
  /\ at' = Onward
  /\ UNCHANGED <<prog, pass, phase, liveIn, liveOut, removed, stale>>

Publish ==
  /\ Running
  /\ Mnemonic \in Writers
  /\ stale' = {f \in Flags : <<Block, at[2], f>> \in removed}
  /\ at' = Onward
  /\ UNCHANGED <<prog, pass, phase, liveIn, liveOut, removed>>

Branch ==
  /\ Running
  /\ Mnemonic \in Branches
  /\ at' \in {Onward, <<prog.target[Block], 0>>}
  /\ UNCHANGED <<prog, pass, phase, liveIn, liveOut, removed, stale>>

Jump ==
  /\ Running
  /\ Mnemonic = "Jmp"
  /\ at' = <<prog.target[Block], 0>>
  /\ UNCHANGED <<prog, pass, phase, liveIn, liveOut, removed, stale>>

(* A subroutine, a return or a computed jump may arrive at any block.      *)
Leave ==
  /\ Running
  /\ Mnemonic \in DynamicExits
  /\ \E b \in Blocks : at' = <<b, 0>>
  /\ UNCHANGED <<prog, pass, phase, liveIn, liveOut, removed, stale>>

Stopped ==
  /\ phase = "run" /\ at[1] = Outside
  /\ UNCHANGED vars

Init ==
  /\ prog \in Programs
  /\ pass \in FlagPasses
  /\ phase = "sweep"
  /\ liveIn = [b \in Blocks |-> {}]
  /\ liveOut = [b \in Blocks |-> {}]
  /\ removed = {}
  /\ at = <<1, 0>>
  /\ stale = {}

Next == Sweep \/ Optimize \/ Plain \/ Publish \/ Branch \/ Jump \/ Leave \/ Stopped

Spec == Init /\ [][Next]_vars

-----------------------------------------------------------------------------
(* Properties.                                                             *)

(* The terminal passes and the one for V never take away a publication     *)
(* that a PHP, an NMI at a poll, a branch or code behind a dynamic exit    *)
(* still reads, private trace continuations included.                      *)
NoStaleFlag ==
  pass \in FlagPasses \ {"global"} /\ Running => ReadsNow \cap stale = {}

(* The same for the global pass, in programs without private traces. With  *)
(* one, a branch at its end is a side exit in the middle of the block, and *)
(* the pass does not look at the code behind it.                           *)
NoStaleFlagGlobally ==
  /\ pass = "global" /\ Running
  /\ \A b \in Blocks : prog.cut[b] = Len(prog.body[b])
  => ReadsNow \cap stale = {}

(* Reference: a flag is live at the exit of b if some path of blocks that  *)
(* do not define it leads to one that uses it or leaves for good.          *)
MayBeRead(b, f) ==
  \/ UnknownExit(b)
  \/ \E n \in 1..NumBlocks : \E path \in [1..n -> Blocks] :
       /\ path[1] \in Succ(b)
       /\ \A k \in 1..(n - 1) : path[k] \notin {c \in Blocks : f \in Defs(c)}
                               /\ path[k + 1] \in Succ(path[k])
       /\ \/ f \in Uses(path[n])
          \/ UnknownExit(path[n]) /\ f \notin Defs(path[n])

(* The sweeps stop at the least solution: nothing that is read is missed,  *)
(* and nothing is kept alive by a loop that never reads it.                *)
LivenessIsPaths ==
  pass \in FlagPasses /\ phase = "optimize" =>
    \A b \in Blocks : liveOut[b] = {f \in Flags : MayBeRead(b, f)}

=============================================================================
