------------------------- MODULE RemovedStoresProofs -------------------------
(***************************************************************************)
(* What the passes take out is not missed, whatever the program and        *)
(* however long: nothing reads a flag, or a byte of the 6502 state in      *)
(* HRAM, whose last store is gone. Below, jumps to anonymous labels are    *)
(* followed to where they go, and the work list of the second pass ends at *)
(* a solution of the equations of liveness.                                *)
(***************************************************************************)
EXTENDS DeadFlags, DeadHram, Arithmetic, SequenceTheorems

-----------------------------------------------------------------------------
(* Flag publications (DeadFlags).                                          *)

(* The blocks the pass reads are those that run: the global pass reads on  *)
(* behind a trace label.                                                   *)
Covered == pass # "global" \/ \A b \in Blocks : prog.cut[b] = Len(prog.body[b])

(* What instruction i of block b reads from the shadows.                   *)
ReadsAt(b, i) ==
  CASE prog.body[b][i] = "Php" -> Flags
    [] prog.body[b][i] = "Beq" -> IF b \in prog.fused /\ i = prog.cut[b] THEN {} ELSE Flags \cap {"z"}
    [] prog.body[b][i] = "Bmi" -> IF b \in prog.fused /\ i = prog.cut[b] THEN {} ELSE Flags \cap {"n"}
    [] prog.body[b][i] = "Bvc" -> Flags \cap {"v"}
    [] OTHER -> {}

Silent(b, i, j) == \A k \in i .. j : prog.body[b][k] \notin Writers

(* Something may still read the flag before it is written again.           *)
Needed(b, i, f) ==
  \/ \E j \in i .. prog.cut[b] : f \in ReadsAt(b, j) /\ Silent(b, i, j - 1)
  \/ f \in liveOut[b] /\ Silent(b, i, prog.cut[b])

NeededAt(b, i, f) == IF i = 0 THEN f \in liveIn[b] ELSE i > prog.cut[b] \/ Needed(b, i, f)

Solved ==
  \A b \in Blocks : /\ liveOut[b] = OutGiven(b, liveIn)
                    /\ liveIn[b] = Uses(b) \cup (liveOut[b] \ Defs(b))

RemovedInv ==
  \A x \in removed : /\ x[1] \in Blocks /\ x[2] \in 1 .. prog.cut[x[1]] /\ x[3] \in Flags
                     /\ ~Needed(x[1], x[2] + 1, x[3])

PlaceOK ==
  /\ at = <<at[1], at[2]>> /\ at[1] \in Blocks \cup {Outside}
  /\ at[1] \in Blocks => at[2] \in 0 .. Len(prog.body[at[1]])

StaleInv == at[1] \in Blocks => \A f \in stale : f \in Flags /\ ~NeededAt(at[1], at[2], f)

FlagsInv ==
  /\ prog \in Programs /\ pass \in FlagPasses
  /\ phase \in {"sweep", "optimize", "run"}
  /\ phase # "run" => stale = {} /\ removed = {}
  /\ phase # "sweep" => Solved
  /\ phase = "run" => PlaceOK
  /\ phase = "run" /\ Covered => RemovedInv /\ StaleInv

-----------------------------------------------------------------------------
(* One turn of the sweep, and what it takes for block b from the others.   *)
Flow(b, in) ==
  Uses(b) \cup (OutGiven(b, [s \in Blocks |-> IF s > b THEN in[s] ELSE liveIn[s]]) \ Defs(b))

LEMMA FlowLocal ==
  ASSUME NEW b, NEW in, NEW out, \A s \in Blocks : s > b => in[s] = out[s]
  PROVE  Flow(b, in) = Flow(b, out)
<1>1. [s \in Blocks |-> IF s > b THEN in[s] ELSE liveIn[s]]
        = [s \in Blocks |-> IF s > b THEN out[s] ELSE liveIn[s]]
  OBVIOUS
<1> QED
  BY <1>1 DEF Flow

(* The recursion of Swept is defined for every block, from the last one    *)
(* down to the first.                                                      *)
LEMMA SweepExists ==
  ASSUME NumBlocks \in Nat
  PROVE  \E in : in = [b \in Blocks |-> Flow(b, in)]
<1> DEFINE Solves(in, n) == /\ in = [b \in Blocks |-> in[b]]
                            /\ \A b \in Blocks : b > n => in[b] = Flow(b, in)
           T == {n \in 0 .. NumBlocks : \E in : Solves(in, n)}
<1>1. NumBlocks \in T
  <2>1. Solves([b \in Blocks |-> {}], NumBlocks)
    BY DEF Blocks
  <2> QED
    BY <2>1, NumBlocks \in 0 .. NumBlocks
<1>2. PICK m \in T : \A n \in T : m <= n
  <2>1. T \in SUBSET Nat
    OBVIOUS
  <2> HIDE DEF T
  <2> QED
    BY <1>1, <2>1, LeastNatural
<1>3. PICK in : Solves(in, m)
  BY <1>2
<1>4. m = 0
  <2> SUFFICES ASSUME m # 0 PROVE FALSE
    OBVIOUS
  <2>1. m \in Blocks /\ m - 1 \in 0 .. NumBlocks /\ m \in Nat
    BY <1>2 DEF Blocks
  <2> DEFINE next == [b \in Blocks |-> IF b = m THEN Flow(m, in) ELSE in[b]]
  <2>2. ASSUME NEW b \in Blocks, b > m - 1 PROVE next[b] = Flow(b, next)
    <3>1. b \in Nat /\ \A s \in Blocks : s \in Nat /\ (s > b => s # m /\ next[s] = in[s])
      BY <2>1, <2>2 DEF Blocks
    <3>2. Flow(b, in) = Flow(b, next)
      BY <3>1, FlowLocal
    <3>3. CASE b = m
      BY <3>2, <3>3
    <3>4. CASE b # m
      <4>1. b > m
        BY <2>1, <2>2, <3>1, <3>4
      <4> QED
        BY <1>3, <3>2, <3>4, <4>1
    <3> QED
      BY <3>3, <3>4
  <2>3. Solves(next, m - 1)
    BY <2>2
  <2> HIDE DEF next, Solves
  <2>4. m - 1 \in T
    BY <2>1, <2>3
  <2> QED
    BY <1>2, <2>1, <2>4
<1>5. \A b \in Blocks : in[b] = Flow(b, in)
  <2>1. \A b \in Blocks : b > 0
    BY DEF Blocks
  <2> QED
    BY <1>3, <1>4, <2>1
<1>6. in = [b \in Blocks |-> in[b]]
  BY <1>3
<1>7. [b \in Blocks |-> in[b]] = [b \in Blocks |-> Flow(b, in)]
  BY <1>5
<1> QED
  BY <1>6, <1>7

LEMMA SweptEquation ==
  ASSUME NumBlocks \in Nat
  PROVE  Swept = [b \in Blocks |-> Flow(b, Swept)]
<1>1. Swept = CHOOSE in : in = [b \in Blocks |-> Flow(b, in)]
  BY DEF Swept, Flow
<1> QED
  BY <1>1, SweepExists

-----------------------------------------------------------------------------
(* The blocks of a real program, as the pass reads them.                   *)
RealBlock(b) ==
  /\ prog.body[b] \in Seq(Mnemonics) /\ prog.cut[b] \in 0 .. Len(prog.body[b])
  /\ \A i \in 1 .. prog.cut[b] - 1 :
       prog.body[b][i] \notin Branches \cup DynamicExits \cup {"Jmp"}
  /\ prog.target[b] \in Blocks \cup {Outside}
  /\ b \in prog.fused => /\ prog.cut[b] >= 2
                          /\ prog.body[b][prog.cut[b]] \in {"Beq", "Bmi"}

LEMMA RealBlocks ==
  ASSUME prog \in Programs, NEW b \in Blocks
  PROVE  RealBlock(b)
<1>1. IsProgram(prog)
  BY ProgramsAssumption
<1> QED
  BY <1>1 DEF IsProgram, RealBlock

(* What the pass reads of a block is what runs before its trace label.     *)
LEMMA OwnInsns ==
  ASSUME NEW b \in Blocks, RealBlock(b), Covered
  PROVE  /\ Insns(b) \in Seq(Mnemonics) /\ Len(Insns(b)) = prog.cut[b]
         /\ DOMAIN Insns(b) = 1 .. prog.cut[b]
         /\ \A i \in 1 .. prog.cut[b] : Insns(b)[i] = prog.body[b][i]
<1> USE DEF RealBlock
<1>1. CASE pass = "global"
  BY <1>1 DEF Covered, Insns, Whole
<1>2. CASE pass # "global"
  <2>1. 1 \in 1 .. prog.cut[b] + 1 /\ prog.cut[b] \in 1 - 1 .. Len(prog.body[b])
    OBVIOUS
  <2>2. /\ Own(b) \in Seq(Mnemonics) /\ Len(Own(b)) = prog.cut[b]
        /\ \A i \in 1 .. prog.cut[b] : Own(b)[i] = prog.body[b][i]
    BY <2>1, SubSeqProperties, Z3 DEF Own
  <2> QED
    BY <1>2, <2>2 DEF Insns
<1> QED
  BY <1>1, <1>2

LEMMA ReadsRead ==
  ASSUME NEW b \in Blocks, RealBlock(b), Covered, pass \in FlagPasses,
         NEW j \in 1 .. prog.cut[b], NEW f \in ReadsAt(b, j)
  PROVE  f \in Flags /\ Insns(b)[j] \in ReadersOf(f)
<1>1. Insns(b)[j] = prog.body[b][j]
  BY OwnInsns
<1>2. f \in {"z", "n", "v"} /\ f \in Flags
  BY DEF ReadsAt, Flags
<1> QED
  BY <1>1, <1>2 DEF ReadsAt, ReadersOf

-----------------------------------------------------------------------------
(* What the equations of the sweep say at the ends of a block.             *)
Analysed(b) == /\ b \in Blocks /\ RealBlock(b) /\ Covered /\ Solved
               /\ pass \in FlagPasses

(* A flag that is not live at the entry: something runs in the block, and  *)
(* from its first instruction on the flag is not needed.                   *)
LEMMA DeadAtEntry ==
  ASSUME NEW b, Analysed(b), NEW f \in Flags, f \notin liveIn[b]
  PROVE  b \notin prog.poll /\ prog.cut[b] >= 1 /\ ~Needed(b, 1, f)
<1> USE DEF Analysed
<1>1. /\ liveOut[b] = OutGiven(b, liveIn) /\ liveIn[b] = Uses(b) \cup (liveOut[b] \ Defs(b))
  BY DEF Solved
<1>2. /\ Insns(b) \in Seq(Mnemonics) /\ Len(Insns(b)) = prog.cut[b]
      /\ DOMAIN Insns(b) = 1 .. prog.cut[b]
      /\ \A i \in 1 .. prog.cut[b] : Insns(b)[i] = prog.body[b][i]
  BY OwnInsns
<1>3. prog.cut[b] \in Nat
  BY DEF RealBlock
<1>4. f \notin Uses(b) /\ (f \in liveOut[b] => f \in Defs(b))
  BY <1>1
<1>5. b \notin prog.poll
  BY <1>4 DEF Uses, Polled
<1>6. prog.cut[b] # 0
  <2> SUFFICES ASSUME prog.cut[b] = 0 PROVE FALSE
    OBVIOUS
  <2>1. Insns(b) = <<>> /\ DOMAIN Insns(b) = {}
    BY <1>2
  <2>2. f \in liveOut[b]
    BY <1>1, <2>1 DEF OutGiven, UnknownExit
  <2> QED
    BY <1>4, <2>1, <2>2 DEF Defs
<1>7. ASSUME NEW j \in 1 .. prog.cut[b], f \in ReadsAt(b, j), Silent(b, 1, j - 1) PROVE FALSE
  <2>1. Insns(b)[j] \in ReadersOf(f)
    BY <1>7, ReadsRead
  <2>2. \A k \in 1 .. j - 1 : Insns(b)[k] \notin Writers
    BY <1>2, <1>3, <1>7 DEF Silent
  <2> QED
    BY <1>2, <1>4, <2>1, <2>2 DEF Uses
<1>8. ~(f \in Defs(b) /\ Silent(b, 1, prog.cut[b]))
  BY <1>2 DEF Defs, Silent
<1> QED
  BY <1>3, <1>4, <1>5, <1>6, <1>7, <1>8 DEF Needed

(* A flag that is not live at the exit: control does not leave for the     *)
(* unknown, and where it goes the flag is not live either.                 *)
LEMMA DeadAtExit ==
  ASSUME NEW b, Analysed(b), prog.cut[b] >= 1, NEW f \in Flags, f \notin liveOut[b],
         NEW m, m = prog.body[b][prog.cut[b]]
  PROVE  /\ m \notin DynamicExits
         /\ m # "Jmp" => prog.cut[b] = Len(prog.body[b])
         /\ m # "Jmp" /\ Fall(b) \in Blocks => f \notin liveIn[Fall(b)]
         /\ m \in Branches \cup {"Jmp"} /\ prog.target[b] \in Blocks => f \notin liveIn[prog.target[b]]
<1> USE DEF Analysed
<1>1. liveOut[b] = OutGiven(b, liveIn)
  BY DEF Solved
<1>2. /\ Insns(b) \in Seq(Mnemonics) /\ Len(Insns(b)) = prog.cut[b]
      /\ DOMAIN Insns(b) = 1 .. prog.cut[b]
      /\ \A i \in 1 .. prog.cut[b] : Insns(b)[i] = prog.body[b][i]
  BY OwnInsns
<1>3. prog.cut[b] \in 1 .. prog.cut[b] /\ prog.cut[b] \in 0 .. Len(prog.body[b])
  BY DEF RealBlock
<1>4. Insns(b) # <<>> /\ LastOf(b) = m
  BY <1>2, <1>3 DEF LastOf
<1>5. ~UnknownExit(b) /\ \A s \in Succ(b) : f \notin liveIn[s]
  BY <1>1 DEF OutGiven
<1>6. m \notin DynamicExits
  BY <1>2, <1>3, <1>5 DEF UnknownExit
<1>7. ASSUME m # "Jmp" PROVE prog.cut[b] = Len(prog.body[b])
  <2>1. ~(prog.cut[b] < Len(prog.body[b]) /\ pass # "global")
    BY <1>4, <1>5, <1>6, <1>7 DEF UnknownExit
  <2> QED
    BY <1>3, <2>1 DEF Covered, RealBlock
<1>8. m # "Jmp" /\ Fall(b) \in Blocks => Fall(b) \in Succ(b)
  BY <1>4, <1>6 DEF Succ, Branches
<1>9. m \in Branches \cup {"Jmp"} /\ prog.target[b] \in Blocks => prog.target[b] \in Succ(b)
  BY <1>4, <1>6 DEF Succ, Branches
<1> QED
  BY <1>5, <1>6, <1>7, <1>8, <1>9

(* Behind an instruction that writes no flag nothing new is needed, and    *)
(* behind the last one only what is live at the exit.                      *)
LEMMA NotNeededNext ==
  ASSUME NEW b, RealBlock(b), NEW i \in 1 .. prog.cut[b], NEW f,
         prog.body[b][i] \notin Writers, ~Needed(b, i, f)
  PROVE  ~Needed(b, i + 1, f)
<1>1. prog.cut[b] \in Nat /\ i \in Nat
  BY DEF RealBlock
<1>2. ASSUME NEW j \in Nat, Silent(b, i + 1, j) PROVE Silent(b, i, j)
  BY <1>1, <1>2 DEF Silent
<1>3. ASSUME NEW j \in i + 1 .. prog.cut[b], f \in ReadsAt(b, j), Silent(b, i + 1, j - 1)
      PROVE  FALSE
  <2>1. j \in i .. prog.cut[b] /\ j - 1 \in Nat
    BY <1>1
  <2>2. Silent(b, i, j - 1)
    BY <1>2, <1>3, <2>1
  <2> QED
    BY <1>3, <2>1, <2>2 DEF Needed
<1>4. ~(f \in liveOut[b] /\ Silent(b, i + 1, prog.cut[b]))
  BY <1>1, <1>2 DEF Needed
<1> QED
  BY <1>3, <1>4 DEF Needed

LEMMA NotNeededBehind ==
  ASSUME NEW b, RealBlock(b), NEW f, ~Needed(b, prog.cut[b] + 1, f)
  PROVE  f \notin liveOut[b]
<1>1. prog.cut[b] \in Nat
  BY DEF RealBlock
<1>2. Silent(b, prog.cut[b] + 1, prog.cut[b])
  BY <1>1 DEF Silent
<1> QED
  BY <1>2 DEF Needed

-----------------------------------------------------------------------------
(* Removal.                                                                *)
LEMMA TerminalRemovalsDead ==
  ASSUME pass = "terminal", NEW b, Analysed(b), Eligible(b), NEW f \in Flags \ liveOut[b]
  PROVE  /\ Len(Insns(b)) - 1 \in 1 .. prog.cut[b]
         /\ ~Needed(b, Len(Insns(b)) - 1 + 1, f)
<1> USE DEF Analysed
<1>1. /\ Insns(b) \in Seq(Mnemonics) /\ Len(Insns(b)) = prog.cut[b]
      /\ \A i \in 1 .. prog.cut[b] : Insns(b)[i] = prog.body[b][i]
  BY OwnInsns
<1>2. prog.cut[b] \in Nat /\ prog.cut[b] >= 2 /\ prog.cut[b] \in 1 .. prog.cut[b]
  BY <1>1 DEF RealBlock, Eligible
<1>3. LastOf(b) = prog.body[b][prog.cut[b]]
  BY <1>1, <1>2 DEF LastOf
<1>4. f \notin ReadsAt(b, prog.cut[b])
  BY <1>3 DEF Eligible, FusedZ, FusedN, PlainCarry, PlainOverflow, ReadsAt, Flags
<1>5. \A j \in prog.cut[b] .. prog.cut[b] : j = prog.cut[b]
  BY <1>2
<1>6. ~Needed(b, prog.cut[b], f)
  BY <1>4, <1>5 DEF Needed
<1> QED
  BY <1>1, <1>2, <1>6

LEMMA EveryRemovalDead ==
  ASSUME NEW b, Analysed(b), NEW i \in DOMAIN Insns(b), NEW f \in Flags, ~LiveBehind(b, i, f)
  PROVE  i \in 1 .. prog.cut[b] /\ ~Needed(b, i + 1, f)
<1> USE DEF Analysed
<1>1. /\ Insns(b) \in Seq(Mnemonics) /\ Len(Insns(b)) = prog.cut[b]
      /\ DOMAIN Insns(b) = 1 .. prog.cut[b]
      /\ \A k \in 1 .. prog.cut[b] : Insns(b)[k] = prog.body[b][k]
  BY OwnInsns
<1>2. prog.cut[b] \in Nat /\ i \in 1 .. prog.cut[b]
  BY <1>1 DEF RealBlock
<1>3. ASSUME NEW j \in i + 1 .. prog.cut[b], f \in ReadsAt(b, j), Silent(b, i + 1, j - 1)
      PROVE  FALSE
  <2>1. j \in 1 .. prog.cut[b] /\ \A k \in (i + 1) .. (j - 1) : k \in 1 .. prog.cut[b]
    BY <1>2
  <2>2. Insns(b)[j] \in ReadersOf(f)
    BY <1>3, <2>1, ReadsRead
  <2>3. \A k \in (i + 1) .. (j - 1) : Insns(b)[k] \notin Writers
    BY <1>1, <1>3, <2>1 DEF Silent
  <2> QED
    BY <1>1, <2>2, <2>3 DEF LiveBehind
<1>4. ASSUME f \in liveOut[b], Silent(b, i + 1, prog.cut[b]) PROVE FALSE
  <2>1. \A k \in (i + 1) .. (prog.cut[b] + 1 - 1) : k \in 1 .. prog.cut[b] /\ k \in i + 1 .. prog.cut[b]
    BY <1>2
  <2>2. \A k \in (i + 1) .. (Len(Insns(b)) + 1 - 1) : Insns(b)[k] \notin Writers
    BY <1>1, <1>4, <2>1 DEF Silent
  <2> QED
    BY <1>4, <2>2 DEF LiveBehind
<1> QED
  BY <1>2, <1>3, <1>4 DEF Needed

-----------------------------------------------------------------------------
(* Control. f is a flag that is stale behind instruction i of block b.     *)
DeadBehind(b, i, f) ==
  /\ i \in 0 .. prog.cut[b] /\ f \in Flags
  /\ IF i = 0 THEN f \notin liveIn[b] ELSE ~Needed(b, i + 1, f)

(* The places control may go to from instruction i of block b.             *)
NextPlace(b, i) == IF i < Len(prog.body[b]) THEN <<b, i + 1>> ELSE <<Fall(b), 0>>

LEMMA FallsDead ==
  ASSUME NEW b, Analysed(b), NEW i, NEW f, DeadBehind(b, i, f),
         i # 0 => prog.body[b][i] \notin DynamicExits \cup {"Jmp"},
         NextPlace(b, i)[1] \in Blocks
  PROVE  ~NeededAt(NextPlace(b, i)[1], NextPlace(b, i)[2], f)
<1>1. prog.cut[b] \in Nat /\ Len(prog.body[b]) \in Nat /\ prog.cut[b] <= Len(prog.body[b])
  BY DEF Analysed, RealBlock
<1>2. i \in Nat /\ i <= prog.cut[b] /\ f \in Flags
  BY <1>1 DEF DeadBehind
<1>3. CASE i = 0
  <2>1. prog.cut[b] >= 1 /\ ~Needed(b, 1, f)
    BY <1>3, DeadAtEntry DEF DeadBehind
  <2>2. NextPlace(b, i) = <<b, 1>>
    BY <1>1, <1>3, <2>1 DEF NextPlace
  <2> QED
    BY <1>1, <2>1, <2>2 DEF NeededAt
<1>4. CASE i # 0 /\ i < prog.cut[b]
  <2>1. NextPlace(b, i) = <<b, i + 1>>
    BY <1>1, <1>2, <1>4 DEF NextPlace
  <2> QED
    BY <1>1, <1>2, <1>4, <2>1 DEF NeededAt, DeadBehind
<1>5. CASE i # 0 /\ i = prog.cut[b]
  <2>1. f \notin liveOut[b]
    BY <1>5, NotNeededBehind DEF Analysed, DeadBehind
  <2>2. i = Len(prog.body[b]) /\ (Fall(b) \in Blocks => f \notin liveIn[Fall(b)])
    BY <1>1, <1>2, <1>5, <2>1, DeadAtExit
  <2>3. NextPlace(b, i) = <<Fall(b), 0>>
    BY <1>1, <2>2 DEF NextPlace
  <2> QED
    BY <2>2, <2>3 DEF NeededAt
<1> QED
  BY <1>1, <1>2, <1>3, <1>4, <1>5

LEMMA TakenDead ==
  ASSUME NEW b, Analysed(b), NEW i, NEW f, DeadBehind(b, i, f), i # 0,
         prog.body[b][i] \in Branches \cup DynamicExits \cup {"Jmp"}
  PROVE  /\ prog.body[b][i] \notin DynamicExits
         /\ prog.target[b] \in Blocks => f \notin liveIn[prog.target[b]]
<1>1. prog.cut[b] \in Nat /\ i \in 1 .. prog.cut[b] /\ i \notin 1 .. prog.cut[b] - 1
  BY DEF Analysed, RealBlock, DeadBehind
<1>2. i = prog.cut[b] /\ prog.cut[b] >= 1
  BY <1>1
<1>3. f \notin liveOut[b]
  BY <1>2, NotNeededBehind DEF Analysed, DeadBehind
<1> QED
  BY <1>2, <1>3, DeadAtExit DEF DeadBehind

(* A stale flag is not read, and behind what does not write it, it is      *)
(* still dead.                                                             *)
LEMMA StaleIsDead ==
  ASSUME NEW b, Analysed(b), NEW i \in 0 .. Len(prog.body[b]), NEW f \in Flags, ~NeededAt(b, i, f),
         i # 0 => prog.body[b][i] \notin Writers
  PROVE  DeadBehind(b, i, f)
<1>1. prog.cut[b] \in Nat
  BY DEF Analysed, RealBlock
<1>2. CASE i = 0
  BY <1>1, <1>2 DEF NeededAt, DeadBehind
<1>3. CASE i # 0
  <2>1. i \in 1 .. prog.cut[b] /\ ~Needed(b, i, f)
    BY <1>1, <1>3 DEF NeededAt
  <2>2. ~Needed(b, i + 1, f)
    BY <1>3, <2>1, NotNeededNext DEF Analysed
  <2> QED
    BY <1>1, <1>3, <2>1, <2>2 DEF DeadBehind
<1> QED
  BY <1>2, <1>3

-----------------------------------------------------------------------------
LEMMA FlagsInit ==
  ASSUME Init
  PROVE  FlagsInv
BY DEF Init, FlagsInv

LEMMA BlocksAnalysed ==
  ASSUME FlagsInv, phase # "sweep", Covered, NEW b \in Blocks
  PROVE  Analysed(b)
BY RealBlocks DEF FlagsInv, Analysed

(* The analysis depends on the program and the pass alone.                 *)
LEMMA AnalysisStays ==
  ASSUME prog' = prog, pass' = pass
  PROVE  /\ Flags' = Flags /\ Writers' = Writers /\ Covered' = Covered
         /\ \A b : /\ Uses(b)' = Uses(b) /\ Defs(b)' = Defs(b)
                   /\ UnknownExit(b)' = UnknownExit(b) /\ Succ(b)' = Succ(b)
                   /\ \A in : OutGiven(b, in)' = OutGiven(b, in)
<1>1. Flags' = Flags /\ Writers' = Writers /\ \A f : ReadersOf(f)' = ReadersOf(f)
  BY DEF Flags, Writers, ReadersOf
<1>2. \A b : Insns(b)' = Insns(b) /\ Polled(b)' = Polled(b) /\ NextKnown(b)' = NextKnown(b)
  BY DEF Insns, Own, Whole, Polled, NextKnown
<1>3. \A b : LastOf(b)' = LastOf(b)
  BY <1>2 DEF LastOf
<1>4. \A b : Uses(b)' = Uses(b) /\ Defs(b)' = Defs(b)
  BY <1>1, <1>2 DEF Uses, Defs
<1>5. \A b : UnknownExit(b)' = UnknownExit(b) /\ Succ(b)' = Succ(b)
  BY <1>2, <1>3 DEF UnknownExit, Succ
<1>6. \A b : \A in : OutGiven(b, in)' = OutGiven(b, in)
  BY <1>1, <1>5 DEF OutGiven
<1> QED
  BY <1>1, <1>4, <1>5, <1>6 DEF Covered

LEMMA FlagsSweep ==
  ASSUME FlagsInv, Sweep
  PROVE  FlagsInv'
<1>1. phase' # "sweep" => Settled /\ liveIn' = Swept
  BY DEF Sweep
<1>2. ASSUME Settled PROVE Solved'
  <2>1. Swept = liveIn /\ liveIn = [b \in Blocks |-> Flow(b, liveIn)]
    BY <1>2, ProgramsAssumption, SweptEquation DEF Settled
  <2>2. \A b \in Blocks : [s \in Blocks |-> IF s > b THEN Swept[s] ELSE liveIn[s]] = liveIn
    BY <2>1
  <2>3. liveIn' = liveIn /\ liveOut' = [b \in Blocks |-> OutGiven(b, liveIn)]
    BY <2>1, <2>2 DEF Sweep
  <2>4. \A b \in Blocks : liveIn[b] = Uses(b) \cup (OutGiven(b, liveIn) \ Defs(b))
    <3>1. \A b \in Blocks : [s \in Blocks |-> IF s > b THEN liveIn[s] ELSE liveIn[s]] = liveIn
      BY <2>1
    <3>2. \A b \in Blocks : Flow(b, liveIn) = Uses(b) \cup (OutGiven(b, liveIn) \ Defs(b))
      BY <3>1 DEF Flow
    <3> QED
      BY <2>1, <3>2
  <2>5. prog' = prog /\ pass' = pass
    BY DEF Sweep
  <2>6. \A b : /\ Uses(b)' = Uses(b) /\ Defs(b)' = Defs(b)
               /\ OutGiven(b, liveIn)' = OutGiven(b, liveIn)
    BY <2>3, <2>5, AnalysisStays
  <2> QED
    BY <2>3, <2>4, <2>6 DEF Solved
<1> QED
  BY <1>1, <1>2 DEF Sweep, FlagsInv

LEMMA FlagsOptimize ==
  ASSUME FlagsInv, Optimize
  PROVE  FlagsInv'
<1> USE DEF Optimize
<1>1. ASSUME Covered PROVE RemovedInv'
  <2>1. \A b \in Blocks : Analysed(b)
    BY <1>1, BlocksAnalysed
  <2>2. ASSUME NEW x \in removed'
        PROVE  /\ x[1] \in Blocks /\ x[2] \in 1 .. prog.cut[x[1]] /\ x[3] \in Flags
               /\ ~Needed(x[1], x[2] + 1, x[3])
    <3>1. CASE pass = "terminal"
      <4>1. PICK b \in Blocks :
              /\ Eligible(b)
              /\ \E f \in Flags \ liveOut[b] : x = <<b, Len(Insns(b)) - 1, f>>
        BY <2>2, <3>1 DEF TerminalRemovals
      <4> QED
        BY <2>1, <3>1, <4>1, TerminalRemovalsDead
    <3>2. CASE pass # "terminal"
      <4>1. x \in EveryRemoval
        BY <2>2, <3>2
      <4>2. PICK b \in Blocks, f \in Flags :
              \E i \in DOMAIN Insns(b) : ~LiveBehind(b, i, f) /\ x = <<b, i, f>>
        BY <4>1 DEF EveryRemoval
      <4> QED
        BY <2>1, <4>2, EveryRemovalDead
    <3> QED
      BY <3>1, <3>2
  <2>3. \A b, i, f : Needed(b, i, f)' = Needed(b, i, f)
    BY DEF Needed, Silent, ReadsAt, Flags, Writers
  <2> QED
    BY <2>2, <2>3 DEF RemovedInv, Flags
<1>2. Solved'
  BY AnalysisStays DEF FlagsInv, Solved
<1>3. PlaceOK'
  <2>1. PICK b \in Blocks : at' = <<b, 0>>
    OBVIOUS
  <2>2. Len(prog.body[b]) \in Nat
    BY RealBlocks DEF FlagsInv, RealBlock
  <2> QED
    BY <2>1, <2>2 DEF PlaceOK
<1>4. StaleInv'
  BY DEF StaleInv, FlagsInv
<1>5. Covered' = Covered
  BY DEF Covered
<1> QED
  BY <1>1, <1>2, <1>3, <1>4, <1>5 DEF FlagsInv

-----------------------------------------------------------------------------
(* Execution. Each step has to show where control arrives and that what is *)
(* stale there is dead.                                                    *)
RunStep == /\ Running
           /\ UNCHANGED <<prog, pass, phase, liveIn, liveOut, removed>>

LEMMA RunPreserves ==
  ASSUME FlagsInv, RunStep, PlaceOK', Covered => StaleInv'
  PROVE  FlagsInv'
<1> USE DEF RunStep, Running
<1>1. Covered' = Covered /\ Solved'
  BY AnalysisStays DEF FlagsInv, Solved
<1>2. Covered => RemovedInv'
  <2>1. \A b, i, f : Needed(b, i, f)' = Needed(b, i, f)
    BY DEF Needed, Silent, ReadsAt, Flags, Writers
  <2> QED
    BY <2>1, AnalysisStays DEF FlagsInv, RemovedInv
<1> QED
  BY <1>1, <1>2 DEF FlagsInv

LEMMA RunningPlace ==
  ASSUME FlagsInv, Running
  PROVE  /\ Block \in Blocks /\ at[2] \in 0 .. Len(Body) /\ RealBlock(Block)
         /\ Len(Body) \in Nat /\ Body \in Seq(Mnemonics)
         /\ Onward = NextPlace(Block, at[2])
         /\ at[2] = 0 <=> Mnemonic = "prologue"
         /\ at[2] # 0 => Mnemonic = prog.body[Block][at[2]]
<1>1. Block \in Blocks /\ at[2] \in 0 .. Len(Body)
  BY DEF FlagsInv, PlaceOK, Running, Block, Body
<1>2. RealBlock(Block)
  BY <1>1, RealBlocks DEF FlagsInv
<1>3. Body \in Seq(Mnemonics)
  BY <1>2 DEF RealBlock, Body
<1>4. at[2] # 0 => Mnemonic = Body[at[2]] /\ Mnemonic \in Mnemonics
  BY <1>1, <1>3 DEF Mnemonic
<1>5. "prologue" \notin Mnemonics
  BY DEF Mnemonics, Branches, DynamicExits
<1> QED
  BY <1>1, <1>2, <1>3, <1>4, <1>5 DEF Onward, NextPlace, Body, Mnemonic

LEMMA OnwardPlace ==
  ASSUME FlagsInv, Running, at' = Onward, prog' = prog
  PROVE  PlaceOK'
<1>1. /\ Block \in Blocks /\ at[2] \in 0 .. Len(Body) /\ Len(Body) \in Nat
      /\ Onward = NextPlace(Block, at[2])
  BY RunningPlace
<1>2. Fall(Block) \in Blocks \cup {Outside}
  BY <1>1, ProgramsAssumption DEF Fall, Blocks
<1>3. CASE at[2] < Len(Body)
  BY <1>1, <1>3 DEF NextPlace, PlaceOK, Body
<1>4. CASE ~(at[2] < Len(Body))
  <2>1. Fall(Block) \in Blocks => Len(prog.body[Fall(Block)]) \in Nat
    BY RealBlocks DEF FlagsInv, RealBlock
  <2> QED
    BY <1>1, <1>2, <1>4, <2>1 DEF NextPlace, PlaceOK, Body
<1> QED
  BY <1>3, <1>4

(* A flag that is stale where the program runs.                            *)
LEMMA StaleHere ==
  ASSUME FlagsInv, Running, Covered
  PROVE  /\ Analysed(Block)
         /\ \A f \in stale : f \in Flags /\ ~NeededAt(Block, at[2], f)
         /\ Mnemonic \notin Writers => \A f \in stale : DeadBehind(Block, at[2], f)
<1>1. Analysed(Block)
  BY RunningPlace, BlocksAnalysed DEF Running
<1>2. \A f \in stale : f \in Flags /\ ~NeededAt(Block, at[2], f)
  BY RunningPlace DEF FlagsInv, StaleInv, Running, Block
<1>3. ASSUME Mnemonic \notin Writers, NEW f \in stale PROVE DeadBehind(Block, at[2], f)
  BY <1>1, <1>2, <1>3, RunningPlace, StaleIsDead DEF Body
<1> QED
  BY <1>1, <1>2, <1>3

LEMMA StaleStays ==
  ASSUME prog' = prog, pass' = pass, liveIn' = liveIn, liveOut' = liveOut,
         \A f \in stale' : f \in Flags /\ (at'[1] \in Blocks => ~NeededAt(at'[1], at'[2], f))
  PROVE  StaleInv'
<1>1. \A b, i, f : NeededAt(b, i, f)' = NeededAt(b, i, f)
  BY DEF NeededAt, Needed, Silent, ReadsAt, Flags, Writers
<1>2. ASSUME at'[1] \in Blocks, NEW f \in stale'
      PROVE  f \in Flags' /\ ~NeededAt(at[1], at[2], f)'
  BY <1>1, <1>2, AnalysisStays
<1> QED
  BY <1>2 DEF StaleInv, Blocks

LEMMA FlagsPlain ==
  ASSUME FlagsInv, Plain
  PROVE  FlagsInv'
<1> USE DEF Plain
<1>1. Mnemonic \notin Writers \cup DynamicExits \cup {"Jmp"}
  BY DEF Writers, DynamicExits
<1>2. ASSUME Covered, NEW f \in stale, at'[1] \in Blocks
      PROVE  ~NeededAt(at'[1], at'[2], f)
  <2>1. Analysed(Block) /\ DeadBehind(Block, at[2], f) /\ at' = NextPlace(Block, at[2])
    BY <1>1, <1>2, StaleHere, RunningPlace
  <2>2. at[2] # 0 => prog.body[Block][at[2]] \notin DynamicExits \cup {"Jmp"}
    BY <1>1, RunningPlace
  <2> QED
    BY <1>2, <2>1, <2>2, FallsDead
<1>3. ASSUME Covered PROVE StaleInv'
  BY <1>2, <1>3, StaleHere, StaleStays
<1> QED
  BY <1>3, OnwardPlace, RunPreserves DEF RunStep

LEMMA FlagsPublish ==
  ASSUME FlagsInv, Publish
  PROVE  FlagsInv'
<1> USE DEF Publish
<1>1. Mnemonic \notin DynamicExits \cup {"Jmp"} /\ Mnemonic # "prologue"
  BY DEF Writers, DynamicExits
<1>2. ASSUME Covered, NEW f \in stale'
      PROVE  f \in Flags /\ (at'[1] \in Blocks => ~NeededAt(at'[1], at'[2], f))
  <2>1. f \in Flags /\ <<Block, at[2], f>> \in removed
    OBVIOUS
  <2>2. at[2] \in 1 .. prog.cut[Block] /\ ~Needed(Block, at[2] + 1, f)
    BY <1>2, <2>1 DEF FlagsInv, RemovedInv, Running
  <2>3. DeadBehind(Block, at[2], f)
    BY <2>1, <2>2 DEF DeadBehind
  <2>4. Analysed(Block) /\ at' = NextPlace(Block, at[2])
    BY <1>2, StaleHere, RunningPlace
  <2>5. at[2] # 0 => prog.body[Block][at[2]] \notin DynamicExits \cup {"Jmp"}
    BY <1>1, RunningPlace
  <2> QED
    BY <2>1, <2>3, <2>4, <2>5, FallsDead
<1>3. ASSUME Covered PROVE StaleInv'
  <2> HIDE DEF Publish
  <2>1. prog' = prog /\ pass' = pass /\ liveIn' = liveIn /\ liveOut' = liveOut
    BY DEF Publish
  <2> QED
    BY <1>2, <1>3, <2>1, StaleStays
<1> QED
  BY <1>3, OnwardPlace, RunPreserves DEF RunStep

(* Branches, jumps and exits: what they take and what they fall into.      *)
LEMMA FlagsTaken ==
  ASSUME FlagsInv, Running, Covered,
         Mnemonic \in Branches \cup DynamicExits \cup {"Jmp"}, NEW f \in stale
  PROVE  /\ Mnemonic \notin DynamicExits
         /\ prog.target[Block] \in Blocks => ~NeededAt(prog.target[Block], 0, f)
         /\ Mnemonic # "Jmp" /\ Onward[1] \in Blocks => ~NeededAt(Onward[1], Onward[2], f)
<1>1. Mnemonic \notin Writers /\ Mnemonic # "prologue"
  BY DEF Writers, Branches, DynamicExits
<1>2. Analysed(Block) /\ DeadBehind(Block, at[2], f)
  BY <1>1, StaleHere
<1>3. at[2] # 0 /\ Mnemonic = prog.body[Block][at[2]] /\ Onward = NextPlace(Block, at[2])
  BY <1>1, RunningPlace
<1>4. /\ Mnemonic \notin DynamicExits
      /\ prog.target[Block] \in Blocks => f \notin liveIn[prog.target[Block]]
  BY <1>2, <1>3, TakenDead
<1>5. Mnemonic # "Jmp" /\ Onward[1] \in Blocks => ~NeededAt(Onward[1], Onward[2], f)
  BY <1>2, <1>3, <1>4, FallsDead
<1> QED
  BY <1>4, <1>5 DEF NeededAt

LEMMA HeadPlace ==
  ASSUME FlagsInv, NEW b \in Blocks \cup {Outside}, at' = <<b, 0>>, prog' = prog
  PROVE  PlaceOK'
<1>1. b \in Blocks => Len(prog.body[b]) \in Nat
  BY RealBlocks DEF FlagsInv, RealBlock
<1> QED
  BY <1>1 DEF PlaceOK

LEMMA FlagsBranch ==
  ASSUME FlagsInv, Branch
  PROVE  FlagsInv'
<1> USE DEF Branch
<1>1. Mnemonic # "Jmp" /\ prog.target[Block] \in Blocks \cup {Outside}
  BY RunningPlace DEF Branches, RealBlock
<1>2. PlaceOK'
  BY <1>1, OnwardPlace, HeadPlace
<1>3. ASSUME Covered PROVE StaleInv'
  <2>1. \A f \in stale : f \in Flags
    BY <1>3, StaleHere
  <2>2. \A f \in stale : at'[1] \in Blocks => ~NeededAt(at'[1], at'[2], f)
    BY <1>1, <1>3, FlagsTaken
  <2> QED
    BY <2>1, <2>2, StaleStays
<1> QED
  BY <1>2, <1>3, RunPreserves DEF RunStep

LEMMA FlagsJump ==
  ASSUME FlagsInv, Jump
  PROVE  FlagsInv'
<1> USE DEF Jump
<1>1. prog.target[Block] \in Blocks \cup {Outside}
  BY RunningPlace DEF RealBlock
<1>2. PlaceOK'
  BY <1>1, HeadPlace
<1>3. ASSUME Covered PROVE StaleInv'
  <2>1. \A f \in stale : f \in Flags
    BY <1>3, StaleHere
  <2>2. \A f \in stale : at'[1] \in Blocks => ~NeededAt(at'[1], at'[2], f)
    BY <1>3, FlagsTaken
  <2> QED
    BY <2>1, <2>2, StaleStays
<1> QED
  BY <1>2, <1>3, RunPreserves DEF RunStep

LEMMA FlagsLeave ==
  ASSUME FlagsInv, Leave
  PROVE  FlagsInv'
<1> USE DEF Leave
<1>1. PlaceOK'
  BY HeadPlace
<1>2. ASSUME Covered PROVE StaleInv'
  <2>1. stale = {}
    BY <1>2, FlagsTaken
  <2> QED
    BY <2>1, StaleStays
<1> QED
  BY <1>1, <1>2, RunPreserves DEF RunStep

LEMMA FlagsStopped ==
  ASSUME FlagsInv, UNCHANGED vars
  PROVE  FlagsInv'
<1> USE DEF vars
<1>1. Covered' = Covered /\ (phase # "sweep" => Solved')
  BY AnalysisStays DEF FlagsInv, Solved
<1>2. \A b, i, f : Needed(b, i, f)' = Needed(b, i, f) /\ NeededAt(b, i, f)' = NeededAt(b, i, f)
  BY DEF Needed, NeededAt, Silent, ReadsAt, Flags, Writers
<1>3. phase = "run" /\ Covered => RemovedInv' /\ StaleInv'
  BY <1>2, AnalysisStays DEF FlagsInv, RemovedInv, StaleInv, Blocks
<1> QED
  BY <1>1, <1>3 DEF FlagsInv, PlaceOK, Blocks

LEMMA FlagsNext ==
  ASSUME FlagsInv, [Next]_vars
  PROVE  FlagsInv'
<1>1. CASE Sweep
  BY <1>1, FlagsSweep
<1>2. CASE Optimize
  BY <1>2, FlagsOptimize
<1>3. CASE Plain
  BY <1>3, FlagsPlain
<1>4. CASE Publish
  BY <1>4, FlagsPublish
<1>5. CASE Branch
  BY <1>5, FlagsBranch
<1>6. CASE Jump
  BY <1>6, FlagsJump
<1>7. CASE Leave
  BY <1>7, FlagsLeave
<1>8. CASE Stopped \/ UNCHANGED vars
  BY <1>8, FlagsStopped DEF Stopped
<1> QED
  BY <1>1, <1>2, <1>3, <1>4, <1>5, <1>6, <1>7, <1>8 DEF Next

-----------------------------------------------------------------------------
LEMMA StaleNotRead ==
  ASSUME FlagsInv, Running, Covered
  PROVE  ReadsNow \cap stale = {}
<1> SUFFICES ASSUME NEW f \in stale, f \in ReadsNow PROVE FALSE
  OBVIOUS
<1>1. Analysed(Block) /\ f \in Flags /\ ~NeededAt(Block, at[2], f)
  BY StaleHere
<1>2. CASE at[2] = 0
  <2>1. Block \in prog.poll
    BY <1>2, RunningPlace DEF ReadsNow
  <2> QED
    BY <1>1, <1>2, <2>1, DeadAtEntry DEF NeededAt
<1>3. CASE at[2] # 0
  <2>1. at[2] \in 1 .. prog.cut[Block] /\ ~Needed(Block, at[2], f)
    BY <1>1, <1>3, RunningPlace DEF NeededAt, RealBlock
  <2>2. f \in ReadsAt(Block, at[2])
    BY <1>3, RunningPlace DEF ReadsNow, ReadsAt, IsFused
  <2>3. at[2] \in at[2] .. prog.cut[Block] /\ Silent(Block, at[2], at[2] - 1)
    BY <2>1 DEF Silent
  <2> QED
    BY <2>1, <2>2, <2>3 DEF Needed
<1> QED
  BY <1>2, <1>3

LEMMA FlagsAlways == Spec => []FlagsInv
<1>1. FlagsInv /\ [Next]_vars => FlagsInv'
  BY FlagsNext
<1> QED
  BY <1>1, FlagsInit, PTL DEF Spec

(* Whatever the program: what the terminal passes and the one for V leave  *)
(* behind never reads a flag whose store they took out, through a branch,  *)
(* a PHP, the NMI at a poll or code behind a dynamic exit.                 *)
THEOREM NothingReadsStaleFlags == Spec => []NoStaleFlag
<1>1. FlagsInv => NoStaleFlag
  BY StaleNotRead DEF NoStaleFlag, Covered
<1> QED
  BY <1>1, FlagsAlways, PTL

(* The same for dead_global_zn, in every program without private traces.   *)
THEOREM NothingReadsStaleFlagsGlobally == Spec => []NoStaleFlagGlobally
<1>1. FlagsInv => NoStaleFlagGlobally
  BY StaleNotRead DEF NoStaleFlagGlobally, Covered
<1> QED
  BY <1>1, FlagsAlways, PTL

-----------------------------------------------------------------------------
(* Where the sweeps stop. A flag is live at the entry of a block only if a *)
(* path that repeats no block leads to a reader; every turn keeps this.    *)
Ends(b, f) == f \in Uses(b) \/ (UnknownExit(b) /\ f \notin Defs(b))

Leads(path, n, f) ==
  /\ \A k \in 1 .. n - 1 : f \notin Defs(path[k]) /\ path[k + 1] \in Succ(path[k])
  /\ Ends(path[n], f)

Simple(path, n) == \A i, j \in 1 .. n : path[i] = path[j] => i = j

ReadFrom(b, f) ==
  \E n \in Nat \ {0} : \E path \in [1 .. n -> Blocks] :
    path[1] = b /\ Leads(path, n, f) /\ Simple(path, n)

PathsInv ==
  phase # "run" => \A b \in Blocks : \A f \in liveIn[b] : f \in Flags /\ ReadFrom(b, f)

LEMMA ReadAtOnce ==
  ASSUME NEW b \in Blocks, NEW f, Ends(b, f)
  PROVE  ReadFrom(b, f)
<1> DEFINE path == [k \in 1 .. 1 |-> b]
<1>1. path \in [1 .. 1 -> Blocks] /\ path[1] = b
  OBVIOUS
<1>2. 1 \in Nat \ {0} /\ 1 .. 1 - 1 = {} /\ \A i \in 1 .. 1 : i = 1
  OBVIOUS
<1> HIDE DEF path
<1>3. Leads(path, 1, f) /\ Simple(path, 1)
  BY <1>1, <1>2 DEF Leads, Simple
<1> QED
  BY <1>1, <1>2, <1>3 DEF ReadFrom

(* A block in front of a path: where the block is on it already, the path  *)
(* from there on will do.                                                  *)
LEMMA ReadBehind ==
  ASSUME NEW b \in Blocks, NEW f, f \notin Defs(b), NEW s \in Succ(b), ReadFrom(s, f)
  PROVE  ReadFrom(b, f)
<1>0. PICK n \in Nat \ {0} : \E path \in [1 .. n -> Blocks] :
        path[1] = s /\ Leads(path, n, f) /\ Simple(path, n)
  BY DEF ReadFrom
<1>1. PICK path \in [1 .. n -> Blocks] : path[1] = s /\ Leads(path, n, f) /\ Simple(path, n)
  BY <1>0
<1>2. CASE \E m \in 1 .. n : path[m] = b
  <2>1. PICK m \in 1 .. n : path[m] = b
    BY <1>2
  <2> DEFINE l == n - m + 1
             rest == [k \in 1 .. l |-> path[k + m - 1]]
  <2>2. l \in Nat \ {0} /\ l + m - 1 = n /\ \A k \in 1 .. l : k + m - 1 \in 1 .. n
    BY <2>1
  <2>3. /\ rest \in [1 .. l -> Blocks] /\ \A k \in 1 .. l : rest[k] = path[k + m - 1]
    BY <1>1, <2>2
  <2> HIDE DEF l, rest
  <2>4. rest[1] = b
    <3>1. 1 \in 1 .. l /\ 1 + m - 1 = m
      BY <2>1, <2>2
    <3> QED
      BY <2>1, <2>3, <3>1
  <2>5. Leads(rest, l, f)
    <3>1. ASSUME NEW k \in 1 .. l - 1 PROVE f \notin Defs(rest[k]) /\ rest[k + 1] \in Succ(rest[k])
      <4>1. k + m - 1 \in 1 .. n - 1 /\ k \in 1 .. l /\ k + 1 \in 1 .. l /\ k + 1 + m - 1 = (k + m - 1) + 1
        BY <2>1, <2>2
      <4>2. rest[k] = path[k + m - 1] /\ rest[k + 1] = path[(k + m - 1) + 1]
        BY <2>3, <4>1
      <4> QED
        BY <1>1, <4>1, <4>2 DEF Leads
    <3>2. l \in 1 .. l /\ rest[l] = path[n]
      BY <2>2, <2>3
    <3> QED
      BY <1>1, <3>1, <3>2 DEF Leads
  <2>6. Simple(rest, l)
    <3> SUFFICES ASSUME NEW i \in 1 .. l, NEW j \in 1 .. l, rest[i] = rest[j] PROVE i = j
      BY DEF Simple
    <3>1. path[i + m - 1] = path[j + m - 1] /\ i + m - 1 \in 1 .. n /\ j + m - 1 \in 1 .. n
      BY <2>2, <2>3
    <3>2. i + m - 1 = j + m - 1
      BY <1>1, <3>1 DEF Simple
    <3> QED
      BY <2>1, <2>2, <3>2
  <2> QED
    BY <2>2, <2>3, <2>4, <2>5, <2>6 DEF ReadFrom
<1>3. CASE \A m \in 1 .. n : path[m] # b
  <2> DEFINE more == [k \in 1 .. n + 1 |-> IF k = 1 THEN b ELSE path[k - 1]]
  <2>1. /\ n + 1 \in Nat \ {0} /\ more \in [1 .. n + 1 -> Blocks] /\ more[1] = b
        /\ \A k \in 2 .. n + 1 : more[k] = path[k - 1] /\ k - 1 \in 1 .. n
    BY <1>1
  <2> HIDE DEF more
  <2>2. Leads(more, n + 1, f)
    <3>1. ASSUME NEW k \in 1 .. n + 1 - 1 PROVE f \notin Defs(more[k]) /\ more[k + 1] \in Succ(more[k])
      <4>1. CASE k = 1
        <5>1. 2 \in 2 .. n + 1
          BY <1>1
        <5>2. more[2] = s /\ more[1] = b
          BY <1>1, <2>1, <5>1
        <5> QED
          BY <4>1, <5>2
      <4>2. CASE k # 1
        <5>1. k \in 2 .. n + 1 /\ k + 1 \in 2 .. n + 1 /\ k - 1 \in 1 .. n - 1 /\ k + 1 - 1 = (k - 1) + 1
          BY <1>1, <4>2
        <5>2. more[k] = path[k - 1] /\ more[k + 1] = path[(k - 1) + 1]
          BY <2>1, <5>1
        <5> QED
          BY <1>1, <5>1, <5>2 DEF Leads
      <4> QED
        BY <4>1, <4>2
    <3>2. n + 1 \in 2 .. n + 1 /\ n + 1 - 1 = n
      BY <1>1
    <3>3. more[n + 1] = path[n]
      BY <2>1, <3>2
    <3> QED
      BY <1>1, <3>1, <3>3 DEF Leads
  <2>3. Simple(more, n + 1)
    <3> SUFFICES ASSUME NEW i \in 1 .. n + 1, NEW j \in 1 .. n + 1, more[i] = more[j] PROVE i = j
      BY DEF Simple
    <3>1. i = 1 \/ i \in 2 .. n + 1
      BY <1>1
    <3>2. j = 1 \/ j \in 2 .. n + 1
      BY <1>1
    <3>3. CASE i = 1 /\ j # 1
      BY <1>3, <2>1, <3>2, <3>3
    <3>4. CASE i # 1 /\ j = 1
      BY <1>3, <2>1, <3>1, <3>4
    <3>5. CASE i # 1 /\ j # 1
      <4>1. path[i - 1] = path[j - 1] /\ i - 1 \in 1 .. n /\ j - 1 \in 1 .. n
        BY <2>1, <3>1, <3>2, <3>5
      <4>2. i - 1 = j - 1
        BY <1>1, <4>1 DEF Simple
      <4> QED
        BY <1>1, <4>2
    <3> QED
      BY <3>3, <3>4, <3>5
  <2> QED
    BY <2>1, <2>2, <2>3 DEF ReadFrom
<1> QED
  BY <1>2, <1>3

LEMMA SimpleIsShort ==
  ASSUME NEW n \in Nat, NEW path \in [1 .. n -> Blocks], Simple(path, n)
  PROVE  n <= NumBlocks
<1>1. NumBlocks \in Nat /\ 1 \in Int /\ n \in Int /\ NumBlocks \in Int
  BY ProgramsAssumption
<1>2. IsFiniteSet(Blocks) /\ Cardinality(Blocks) = NumBlocks /\ Cardinality(1 .. n) = n
  BY <1>1, FS_Interval DEF Blocks
<1>3. path \in Injection(1 .. n, Blocks)
  BY DEF Injection, IsInjective, Simple
<1> QED
  BY <1>2, <1>3, FS_Injection

(* A path to a reader makes every block on it live, its first one too.     *)
LEMMA PathIsLive ==
  ASSUME Solved, NEW f \in Flags, NEW n \in Nat \ {0}, NEW path \in [1 .. n -> Blocks], Leads(path, n, f)
  PROVE  f \in liveIn[path[1]]
<1> DEFINE T == {k \in 1 .. n : f \in liveIn[path[k]]}
<1>1. n \in T
  <2>1. path[n] \in Blocks /\ n \in 1 .. n
    OBVIOUS
  <2> DEFINE b == path[n]
  <2>2. liveIn[b] = Uses(b) \cup (liveOut[b] \ Defs(b)) /\ (UnknownExit(b) => liveOut[b] = Flags)
    BY <2>1 DEF Solved, OutGiven
  <2>3. f \in Uses(b) \/ (UnknownExit(b) /\ f \notin Defs(b))
    BY DEF Leads, Ends
  <2>4. f \in liveIn[b]
    BY <2>2, <2>3
  <2> QED
    BY <2>1, <2>4
<1>2. PICK m \in T : \A k \in T : m <= k
  <2>1. T \in SUBSET Nat
    OBVIOUS
  <2> HIDE DEF T
  <2> QED
    BY <1>1, <2>1, LeastNatural
<1>3. m = 1
  <2> SUFFICES ASSUME m # 1 PROVE FALSE
    OBVIOUS
  <2>1. m - 1 \in 1 .. n - 1 /\ m - 1 \in 1 .. n /\ (m - 1) + 1 = m /\ m \in 1 .. n
    BY <1>2
  <2>2. f \notin Defs(path[m - 1]) /\ path[m] \in Succ(path[m - 1]) /\ path[m - 1] \in Blocks
    BY <2>1 DEF Leads
  <2>3. f \in OutGiven(path[m - 1], liveIn)
    BY <1>2, <2>2 DEF OutGiven
  <2>4. f \in liveIn[path[m - 1]]
    BY <2>2, <2>3 DEF Solved
  <2>5. m - 1 \in T
    BY <2>1, <2>4
  <2> HIDE DEF T
  <2> QED
    BY <1>2, <2>1, <2>5
<1> QED
  BY <1>2, <1>3

(* One turn of the sweep, from the last block down.                        *)
LEMMA SweptIsRead ==
  ASSUME PathsInv, phase # "run", NEW b \in Blocks, NEW f \in Swept[b]
  PROVE  f \in Flags /\ ReadFrom(b, f)
<1> DEFINE OK(c) == \A g \in Swept[c] : g \in Flags /\ ReadFrom(c, g)
           Bad == {n \in Nat : n \in 0 .. NumBlocks /\ NumBlocks - n \in Blocks /\ ~OK(NumBlocks - n)}
<1>0. NumBlocks \in Nat
  BY ProgramsAssumption
<1>1. SUFFICES ASSUME Bad # {} PROVE FALSE
  <2>1. NumBlocks - b \in Nat /\ NumBlocks - b \in 0 .. NumBlocks /\ NumBlocks - (NumBlocks - b) = b
    BY <1>0 DEF Blocks
  <2>2. OK(b)
    BY <1>1, <2>1
  <2> QED
    BY <2>2
<1>2. PICK n \in Bad : \A m \in Bad : n <= m
  <2>1. Bad \in SUBSET Nat
    OBVIOUS
  <2> HIDE DEF Bad
  <2> QED
    BY <1>1, <2>1, LeastNatural
<1> DEFINE c == NumBlocks - n
           mix == [s \in Blocks |-> IF s > c THEN Swept[s] ELSE liveIn[s]]
<1>3. c \in Blocks /\ ~OK(c) /\ n \in Nat
  BY <1>2
<1>4. ASSUME NEW s \in Blocks, s > c PROVE OK(s)
  <2>1. s \in Nat /\ NumBlocks - s \in Nat /\ NumBlocks - s \in 0 .. NumBlocks /\ NumBlocks - (NumBlocks - s) = s
    BY <1>0 DEF Blocks
  <2>2. NumBlocks - s < n
    BY <1>0, <1>3, <1>4, <2>1
  <2>3. NumBlocks - s \notin Bad
    BY <1>2, <1>3, <2>1, <2>2
  <2> QED
    BY <2>1, <2>3
<1>5. ASSUME NEW s \in Blocks, NEW g \in mix[s] PROVE g \in Flags /\ ReadFrom(s, g)
  BY <1>4, <1>5 DEF PathsInv
<1>6. Swept[c] = Uses(c) \cup (OutGiven(c, mix) \ Defs(c))
  BY <1>0, <1>3, SweptEquation DEF Flow
<1>7. ASSUME NEW g \in Swept[c] PROVE g \in Flags /\ ReadFrom(c, g)
  <2> HIDE DEF c, mix, OK, Bad
  <2>1. CASE g \in Uses(c)
    <3>1. g \in Flags
      BY <2>1 DEF Uses
    <3> QED
      BY <1>3, <2>1, <3>1, ReadAtOnce DEF Ends
  <2>2. CASE g \in OutGiven(c, mix) /\ g \notin Defs(c)
    <3>1. CASE UnknownExit(c)
      <4>1. g \in Flags
        BY <2>2, <3>1 DEF OutGiven
      <4> QED
        BY <1>3, <2>2, <3>1, <4>1, ReadAtOnce DEF Ends
    <3>2. CASE ~UnknownExit(c)
      <4>1. PICK s \in Succ(c) : g \in mix[s]
        BY <2>2, <3>2 DEF OutGiven
      <4>2. s \in Blocks
        BY DEF Succ
      <4>3. g \in Flags /\ ReadFrom(s, g)
        BY <1>5, <4>1, <4>2
      <4> QED
        BY <1>3, <2>2, <4>3, ReadBehind
    <3> QED
      BY <3>1, <3>2
  <2> QED
    BY <1>6, <1>7, <2>1, <2>2
<1> QED
  BY <1>3, <1>7

LEMMA PathsNext ==
  ASSUME FlagsInv, PathsInv, [Next]_vars
  PROVE  PathsInv'
<1>1. ASSUME prog' = prog, pass' = pass PROVE \A b, f : ReadFrom(b, f)' <=> ReadFrom(b, f)
  <2>1. \A b, f : Ends(b, f)' <=> Ends(b, f)
    BY <1>1, AnalysisStays DEF Ends
  <2>2. \A p, n, f : Leads(p, n, f)' <=> Leads(p, n, f)
    BY <1>1, <2>1, AnalysisStays DEF Leads
  <2> QED
    BY <2>2 DEF ReadFrom, Simple
<1>2. CASE Sweep
  <2>1. prog' = prog /\ pass' = pass /\ liveIn' = Swept /\ phase # "run"
    BY <1>2 DEF Sweep
  <2>2. Flags' = Flags
    BY <2>1, AnalysisStays
  <2> QED
    BY <1>1, <2>1, <2>2, SweptIsRead DEF PathsInv, Blocks
<1>3. CASE UNCHANGED vars
  <2>1. prog' = prog /\ pass' = pass /\ liveIn' = liveIn /\ phase' = phase
    BY <1>3 DEF vars
  <2>2. Flags' = Flags
    BY <2>1, AnalysisStays
  <2> QED
    BY <1>1, <2>1, <2>2 DEF PathsInv, Blocks
<1>4. CASE Optimize \/ Plain \/ Publish \/ Branch \/ Jump \/ Leave
  <2>1. phase' = "run"
    BY <1>4 DEF Optimize, Plain, Publish, Branch, Jump, Leave, Running
  <2> QED
    BY <2>1 DEF PathsInv
<1>5. CASE Stopped
  BY <1>3, <1>5 DEF Stopped
<1> QED
  BY <1>2, <1>3, <1>4, <1>5 DEF Next

LEMMA LivenessIs ==
  ASSUME FlagsInv, PathsInv, phase = "optimize", NEW b \in Blocks
  PROVE  liveOut[b] = {f \in Flags : MayBeRead(b, f)}
<1>1. Solved /\ liveOut[b] = OutGiven(b, liveIn)
  BY DEF FlagsInv, Solved
<1>2. ASSUME NEW f \in liveOut[b] PROVE f \in Flags /\ MayBeRead(b, f)
  <2>1. CASE UnknownExit(b)
    BY <1>1, <1>2, <2>1 DEF OutGiven, MayBeRead
  <2>2. CASE ~UnknownExit(b)
    <3>1. PICK s \in Succ(b) : f \in liveIn[s]
      BY <1>1, <1>2, <2>2 DEF OutGiven
    <3>2. s \in Blocks
      BY DEF Succ
    <3>3. f \in Flags /\ ReadFrom(s, f)
      BY <3>1, <3>2 DEF PathsInv
    <3>0. PICK n \in Nat \ {0} : \E path \in [1 .. n -> Blocks] :
            path[1] = s /\ Leads(path, n, f) /\ Simple(path, n)
      BY <3>3 DEF ReadFrom
    <3>4. PICK path \in [1 .. n -> Blocks] : path[1] = s /\ Leads(path, n, f) /\ Simple(path, n)
      BY <3>0
    <3>5. n \in 1 .. NumBlocks
      BY <3>4, SimpleIsShort, ProgramsAssumption
    <3>6. /\ path[1] \in Succ(b)
          /\ \A k \in 1 .. n - 1 : path[k] \notin {c \in Blocks : f \in Defs(c)} /\ path[k + 1] \in Succ(path[k])
          /\ f \in Uses(path[n]) \/ (UnknownExit(path[n]) /\ f \notin Defs(path[n]))
      BY <3>1, <3>4 DEF Leads, Ends
    <3> QED
      BY <3>3, <3>4, <3>5, <3>6 DEF MayBeRead
  <2> QED
    BY <2>1, <2>2
<1>3. ASSUME NEW f \in Flags, MayBeRead(b, f) PROVE f \in liveOut[b]
  <2>1. CASE UnknownExit(b)
    BY <1>1, <2>1 DEF OutGiven
  <2>2. CASE ~UnknownExit(b)
    <3>0. PICK n \in 1 .. NumBlocks : \E path \in [1 .. n -> Blocks] :
            /\ path[1] \in Succ(b)
            /\ \A k \in 1 .. n - 1 : path[k] \notin {c \in Blocks : f \in Defs(c)} /\ path[k + 1] \in Succ(path[k])
            /\ f \in Uses(path[n]) \/ (UnknownExit(path[n]) /\ f \notin Defs(path[n]))
      BY <1>3, <2>2 DEF MayBeRead
    <3>1. PICK path \in [1 .. n -> Blocks] :
            /\ path[1] \in Succ(b)
            /\ \A k \in 1 .. n - 1 : path[k] \notin {c \in Blocks : f \in Defs(c)} /\ path[k + 1] \in Succ(path[k])
            /\ f \in Uses(path[n]) \/ (UnknownExit(path[n]) /\ f \notin Defs(path[n]))
      BY <3>0
    <3>2. n \in Nat \ {0} /\ \A k \in 1 .. n - 1 : k \in 1 .. n
      OBVIOUS
    <3>3. Leads(path, n, f)
      BY <3>1, <3>2 DEF Leads, Ends
    <3>4. f \in liveIn[path[1]]
      BY <1>1, <3>2, <3>3, PathIsLive
    <3> QED
      BY <1>1, <2>2, <3>1, <3>4 DEF OutGiven
  <2> QED
    BY <2>1, <2>2
<1> QED
  BY <1>2, <1>3

(* LivenessIsPaths of DeadFlags: when the sweeps stop, a flag counts as    *)
(* live behind a block exactly if some path leads from there to a reader,  *)
(* for every program and any number of blocks.                             *)
THEOREM LivenessIsExact == Spec => []LivenessIsPaths
<1>1. Init => FlagsInv /\ PathsInv
  BY FlagsInit DEF Init, PathsInv
<1>2. FlagsInv /\ PathsInv /\ [Next]_vars => FlagsInv' /\ PathsInv'
  BY FlagsNext, PathsNext
<1>3. FlagsInv /\ PathsInv => LivenessIsPaths
  BY LivenessIs DEF LivenessIsPaths
<1> QED
  BY <1>1, <1>2, <1>3, PTL DEF Spec

-----------------------------------------------------------------------------
(* Stores to the 6502 state (DeadHram).                                    *)

LEMMA RealLines ==
  ASSUME prog \in Texts, NEW i \in Lines
  PROVE  prog[i] \in LineSet /\ prog[i].to \in Lines \cup {0}
<1>1. prog[i] \in LineSet
  BY TextsAssumption
<1> QED
  BY <1>1 DEF LineSet

-----------------------------------------------------------------------------
(* Anonymous labels are found by their number.                             *)
LEMMA AnonFinite ==
  /\ AnonLines \subseteq Nat /\ IsFiniteSet(AnonLines) /\ Cardinality(AnonLines) \in Nat
  /\ \A i \in Nat : /\ IsFiniteSet(AnonLines \cap 1 .. i) /\ AnonUpTo(i) \in Nat
                     /\ AnonUpTo(i) <= Cardinality(AnonLines)
<1>1. IsFiniteSet(Lines) /\ AnonLines \subseteq Lines /\ Lines \subseteq Nat
  BY TextsAssumption, FS_Interval DEF Lines, AnonLines
<1>2. IsFiniteSet(AnonLines)
  BY <1>1, FS_Subset
<1>3. ASSUME NEW i \in Nat
      PROVE  /\ IsFiniteSet(AnonLines \cap 1 .. i)
             /\ Cardinality(AnonLines \cap 1 .. i) <= Cardinality(AnonLines)
  BY <1>2, FS_Intersection
<1> QED
  BY <1>1, <1>2, <1>3, FS_CardinalityType DEF AnonUpTo

LEMMA AnonCounts ==
  ASSUME NEW i \in Nat, NEW j \in AnonLines, i < j
  PROVE  AnonUpTo(i) < AnonUpTo(j)
<1>1. j \in Nat /\ IsFiniteSet(AnonLines \cap 1 .. j) /\ AnonUpTo(i) \in Nat /\ AnonUpTo(j) \in Nat
  BY AnonFinite
<1>2. AnonLines \cap 1 .. i \in SUBSET (AnonLines \cap 1 .. j)
  BY <1>1
<1>3. j \in AnonLines \cap 1 .. j /\ j \notin AnonLines \cap 1 .. i
  BY <1>1 DEF AnonLines, Lines
<1>4. AnonUpTo(i) <= AnonUpTo(j) /\ AnonUpTo(i) # AnonUpTo(j)
  BY <1>1, <1>2, <1>3, FS_Subset DEF AnonUpTo
<1> QED
  BY <1>1, <1>4

LEMMA AnonByNumber ==
  ASSUME NEW j \in AnonLines
  PROVE  /\ NthAnon(AnonUpTo(j)) = j
         /\ AnonUpTo(j) \in 1 .. Cardinality(AnonLines)
<1>1. \A k \in AnonLines : AnonUpTo(k) = AnonUpTo(j) => k = j
  <2> SUFFICES ASSUME NEW k \in AnonLines, AnonUpTo(k) = AnonUpTo(j), k # j PROVE FALSE
    OBVIOUS
  <2>1. k \in Nat /\ j \in Nat /\ AnonUpTo(j) \in Nat
    BY AnonFinite
  <2>2. k < j \/ j < k
    BY <2>1
  <2> QED
    BY <2>1, <2>2, AnonCounts
<1>2. j \in Nat /\ 0 < j
  BY TextsAssumption DEF AnonLines, Lines
<1>3. AnonUpTo(0) < AnonUpTo(j) /\ AnonUpTo(0) \in Nat
  BY <1>2, AnonCounts, AnonFinite
<1>4. AnonUpTo(j) \in Nat /\ AnonUpTo(j) <= Cardinality(AnonLines) /\ Cardinality(AnonLines) \in Nat
  BY <1>2, AnonFinite
<1>5. NthAnon(AnonUpTo(j)) = j
  BY <1>1 DEF NthAnon
<1> QED
  BY <1>3, <1>4, <1>5

LEMMA NextLabel ==
  ASSUME NEW i \in Lines, Op(i) = "next"
  PROVE  Resolve(i) = Nearest(i)
<1> DEFINE behind == {j \in AnonLines : j > i}
<1>0. i \in Nat
  BY TextsAssumption DEF Lines
<1>1. /\ i \in Nat /\ AnonLines \subseteq Nat /\ AnonUpTo(i) \in Nat
      /\ Cardinality(AnonLines) \in Nat
  BY <1>0, AnonFinite
<1>2. CASE behind = {}
  <2>1. AnonLines \cap 1 .. i = AnonLines
    BY <1>1, <1>2 DEF AnonLines, Lines
  <2>2. AnonUpTo(i) + 1 \notin 1 .. Cardinality(AnonLines)
    BY <1>1, <2>1 DEF AnonUpTo
  <2> QED
    BY <1>2, <2>2 DEF Resolve, Nearest
<1>3. CASE behind # {}
  <2>1. PICK j \in behind : \A k \in behind : j <= k
    <3>1. behind \in SUBSET Nat
      BY <1>1
    <3> QED
      BY <1>3, <3>1, LeastNatural
  <2>2. AnonLines \cap 1 .. j = (AnonLines \cap 1 .. i) \cup {j} /\ j \notin AnonLines \cap 1 .. i
    BY <1>1, <2>1
  <2>3. AnonUpTo(j) = AnonUpTo(i) + 1
    BY <1>1, <2>2, AnonFinite, FS_AddElement DEF AnonUpTo
  <2>4. Resolve(i) = j
    BY <2>1, <2>3, AnonByNumber DEF Resolve
  <2>5. \A k \in behind : (\A l \in behind : k <= l) => k = j
    BY <1>1, <2>1
  <2>6. (CHOOSE k \in behind : \A l \in behind : k <= l) = j
    BY <2>1, <2>5
  <2> QED
    BY <1>3, <2>4, <2>6 DEF Nearest
<1> QED
  BY <1>2, <1>3

LEMMA PreviousLabel ==
  ASSUME NEW i \in Lines, Op(i) = "prev"
  PROVE  Resolve(i) = Nearest(i)
<1> DEFINE before == {j \in AnonLines : j < i}
<1>0. i \in Nat /\ i \notin AnonLines
  BY TextsAssumption DEF Lines, AnonLines
<1>1. /\ i \in Nat /\ AnonLines \subseteq Nat /\ AnonUpTo(i) \in Nat
      /\ Cardinality(AnonLines) \in Nat /\ i \notin AnonLines
  BY <1>0, AnonFinite
<1>2. CASE before = {}
  <2>1. AnonLines \cap 1 .. i = {}
    BY <1>1, <1>2
  <2>2. AnonUpTo(i) \notin 1 .. Cardinality(AnonLines)
    BY <2>1, FS_EmptySet DEF AnonUpTo
  <2> QED
    BY <1>2, <2>2 DEF Resolve, Nearest
<1>3. CASE before # {}
  <2>1. PICK j \in before : \A k \in before : j >= k
    <3> DEFINE below == {i - k : k \in before}
    <3>1. below # {}
      BY <1>3
    <3>2. \A k \in before : i - k \in Nat
      BY <1>1
    <3>3. below \in SUBSET Nat
      BY <3>2
    <3>4. PICK m \in below : \A n \in below : m <= n
      BY <3>1, <3>3, LeastNatural
    <3>5. PICK j \in before : m = i - j
      BY <3>4
    <3>6. \A k \in before : i - j <= i - k
      BY <3>4, <3>5
    <3> QED
      BY <1>1, <3>6
  <2>2. AnonLines \cap 1 .. i = AnonLines \cap 1 .. j
    BY <1>1, <2>1
  <2>3. AnonUpTo(j) = AnonUpTo(i)
    BY <2>2 DEF AnonUpTo
  <2>4. Resolve(i) = j
    BY <2>1, <2>3, AnonByNumber DEF Resolve
  <2>5. \A k \in before : (\A l \in before : k >= l) => k = j
    BY <1>1, <2>1
  <2>6. (CHOOSE k \in before : \A l \in before : k >= l) = j
    BY <2>1, <2>5
  <2> QED
    BY <1>3, <2>4, <2>6 DEF Nearest
<1> QED
  BY <1>2, <1>3

LEMMA JumpsFollowed ==
  ASSUME NEW i \in Lines
  PROVE  Resolve(i) = Nearest(i)
BY NextLabel, PreviousLabel DEF Resolve, Nearest

-----------------------------------------------------------------------------
(* The work list.                                                          *)
LEMMA LastAndFront ==
  ASSUME NEW S, NEW s \in Seq(S), s # <<>>
  PROVE  /\ Last(s) \in S /\ Front(s) \in Seq(S)
         /\ \A x : Contains(s, x) => x = Last(s) \/ Contains(Front(s), x)
<1>1. Len(s) \in Nat \ {0} /\ \A i \in 1 .. Len(s) : s[i] \in S
  BY EmptySeq, ElementOfSeq
<1>2. /\ Front(s) \in Seq(S) /\ Len(Front(s)) = Len(s) - 1
      /\ \A i \in 1 .. Len(s) - 1 : Front(s)[i] = s[i]
  <2>1. \A i \in 1 .. Len(s) - 1 : i \in 1 .. Len(s) /\ 1 + i - 1 = i
    BY <1>1
  <2>2. 1 \in Int /\ Len(s) - 1 \in Int
    BY <1>1
  <2>3. /\ SubSeq(s, 1, Len(s) - 1) \in Seq(S)
        /\ Len(SubSeq(s, 1, Len(s) - 1)) = IF 1 <= Len(s) - 1 THEN Len(s) - 1 - 1 + 1 ELSE 0
        /\ \A i \in 1 .. Len(s) - 1 - 1 + 1 : SubSeq(s, 1, Len(s) - 1)[i] = s[1 + i - 1]
    BY <1>1, <2>1, <2>2, SubSeqProperties
  <2>4. /\ (IF 1 <= Len(s) - 1 THEN Len(s) - 1 - 1 + 1 ELSE 0) = Len(s) - 1
        /\ Len(s) - 1 - 1 + 1 = Len(s) - 1
    <3>1. \A n \in Nat : n - 1 + 1 = n /\ (1 <= n \/ n = 0)
      OBVIOUS
    <3>2. Len(s) - 1 \in Nat
      BY <1>1
    <3> QED
      BY <3>1, <3>2
  <2>5. Len(SubSeq(s, 1, Len(s) - 1)) = Len(s) - 1
    BY <2>3, <2>4
  <2>6. ASSUME NEW i \in 1 .. Len(s) - 1 PROVE SubSeq(s, 1, Len(s) - 1)[i] = s[i]
    <3>1. i \in 1 .. Len(s) - 1 - 1 + 1 /\ 1 + i - 1 = i
      BY <1>1, <2>4
    <3> QED
      BY <2>3, <3>1
  <2> QED
    BY <2>3, <2>5, <2>6 DEF Front
<1> QED
  BY <1>1, <1>2 DEF Last, Contains

LEMMA ContainsConcat ==
  ASSUME NEW S, NEW s \in Seq(S), NEW t \in Seq(S), NEW x, Contains(s, x) \/ Contains(t, x)
  PROVE  Contains(s \o t, x)
<1>1. Len(s) \in Nat /\ Len(t) \in Nat
  BY LenProperties
<1>2. /\ Len(s \o t) = Len(s) + Len(t)
      /\ \A i \in 1 .. Len(s) + Len(t) : (s \o t)[i] = IF i <= Len(s) THEN s[i] ELSE t[i - Len(s)]
  BY ConcatProperties
<1>3. CASE Contains(s, x)
  <2>1. PICK i \in 1 .. Len(s) : s[i] = x
    BY <1>3 DEF Contains
  <2>2. i \in 1 .. Len(s \o t) /\ (s \o t)[i] = x
    BY <1>1, <1>2, <2>1
  <2> QED
    BY <2>2 DEF Contains
<1>4. CASE Contains(t, x)
  <2>1. PICK i \in 1 .. Len(t) : t[i] = x
    BY <1>4 DEF Contains
  <2>2. /\ Len(s) + i \in 1 .. Len(s \o t) /\ ~(Len(s) + i <= Len(s))
        /\ Len(s) + i - Len(s) = i
    BY <1>1, <1>2, <2>1
  <2>3. (s \o t)[Len(s) + i] = x
    BY <1>2, <2>1, <2>2
  <2> QED
    BY <2>2, <2>3 DEF Contains
<1> QED
  BY <1>3, <1>4

LEMMA ListOfSet ==
  ASSUME NEW S, IsFiniteSet(S)
  PROVE  SetToSeq(S) \in Seq(S) /\ \A x \in S : Contains(SetToSeq(S), x)
<1>1. Cardinality(S) \in Nat /\ ExistsBijection(1 .. Cardinality(S), S)
  BY FS_CardinalityType
<1>2. \E f \in [1 .. Cardinality(S) -> S] : IsInjective(f)
  BY <1>1 DEF ExistsBijection, Bijection, Injection
<1>3. SetToSeq(S) \in [1 .. Cardinality(S) -> S] /\ IsInjective(SetToSeq(S))
  BY <1>2 DEF SetToSeq
<1>4. SetToSeq(S) \in Seq(S) /\ Len(SetToSeq(S)) = Cardinality(S)
  BY <1>1, <1>3
<1>5. SetToSeq(S) \in Surjection(1 .. Cardinality(S), S)
  <2>1. IsFiniteSet(1 .. Cardinality(S)) /\ Cardinality(1 .. Cardinality(S)) = Cardinality(S)
    BY <1>1, FS_Interval
  <2>2. SetToSeq(S) \in Injection(1 .. Cardinality(S), S)
    BY <1>3 DEF Injection
  <2> QED
    BY <2>1, <2>2, FS_Injection
<1> QED
  BY <1>4, <1>5 DEF Surjection, Contains

-----------------------------------------------------------------------------
LineTypes ==
  /\ prog \in Texts /\ pass = "hram" /\ phase \in {"sweep", "run"}
  /\ liveIn \in [Lines -> SUBSET Cells] /\ liveOut \in [Lines -> SUBSET Cells]
  /\ work \in Seq(Lines) /\ stale \subseteq Cells

LineSolved(i) == liveIn[i] = InOf(i) /\ liveOut[i] = OutOf(i)

(* A line that does not satisfy its equations is on the work list.         *)
WorkInv == \A i \in Lines : Contains(work, i) \/ LineSolved(i)

(* A removed store is followed by nothing that reads the byte, and a stale *)
(* byte is not live where the program runs.                                *)
GoneInv ==
  /\ \A i \in removed : Op(i) = "store" /\ liveOut[i] = {}
  /\ phase = "sweep" => stale = {} /\ removed = {}
  /\ phase = "run" => /\ work = <<>> /\ at = <<at[1], at[2]>>
                      /\ \A f \in stale : at[1] \in Lines /\ f \notin liveIn[at[1]]

LinesInv == LineTypes /\ WorkInv /\ GoneInv

LEMMA LinesInvInit ==
  ASSUME LinesInit
  PROVE  LinesInv
<1> USE DEF LinesInit
<1>1. NumLines \in Nat /\ [i \in Lines |-> i] \in Seq(Lines) /\ Len([i \in Lines |-> i]) = NumLines
  BY TextsAssumption DEF Lines
<1>2. work = [i \in 1 .. NumLines |-> NumLines - i + 1]
  BY <1>1 DEF Reverse, Lines
<1>3. work \in Seq(Lines) /\ Len(work) = NumLines
  BY <1>1, <1>2 DEF Lines
<1>4. ASSUME NEW i \in Lines PROVE Contains(work, i)
  <2>1. NumLines - i + 1 \in 1 .. NumLines /\ NumLines - (NumLines - i + 1) + 1 = i
    BY <1>1 DEF Lines
  <2>2. work[NumLines - i + 1] = i
    BY <1>2, <2>1
  <2> QED
    BY <1>3, <2>1, <2>2 DEF Contains
<1> QED
  BY <1>3, <1>4 DEF LinesInv, LineTypes, WorkInv, GoneInv

LEMMA InOfType ==
  ASSUME LineTypes, NEW i \in Lines
  PROVE  OutOf(i) \in SUBSET Cells /\ InOf(i) \in SUBSET Cells
<1>1. OutOf(i) \subseteq Cells
  BY DEF OutOf, LineTypes
<1> QED
  BY <1>1 DEF InOf, UseOf

LEMMA OutOfDepends ==
  ASSUME prog' = prog, NEW i
  PROVE  /\ SuccOf(i)' = SuccOf(i) /\ UseOf(i)' = UseOf(i) /\ KillOf(i)' = KillOf(i)
         /\ (\A s \in SuccOf(i) : s \in Lines => liveIn'[s] = liveIn[s]) =>
              OutOf(i)' = OutOf(i) /\ InOf(i)' = InOf(i)
<1>1. \A j : Op(j)' = Op(j)
  BY DEF Op
<1>2. AnonLines' = AnonLines
  BY <1>1 DEF AnonLines, Lines
<1>3. Resolve(i)' = Resolve(i)
  <2>1. \A j : AnonUpTo(j)' = AnonUpTo(j)
    BY <1>2 DEF AnonUpTo
  <2>2. \A k : NthAnon(k)' = NthAnon(k)
    BY <1>2, <2>1 DEF NthAnon
  <2> QED
    BY <1>1, <1>2, <2>1, <2>2 DEF Resolve
<1>4. SuccOf(i)' = SuccOf(i) /\ UseOf(i)' = UseOf(i) /\ KillOf(i)' = KillOf(i)
  BY <1>1, <1>3 DEF SuccOf, UseOf, KillOf
<1>5. ASSUME \A s \in SuccOf(i) : s \in Lines => liveIn'[s] = liveIn[s]
      PROVE  OutOf(i)' = OutOf(i)
  BY <1>4, <1>5 DEF OutOf, Lines, Cells
<1> QED
  BY <1>4, <1>5 DEF InOf

LEMMA LinesAnalyse ==
  ASSUME LinesInv, Analyse
  PROVE  LinesInv'
<1> DEFINE l == Last(work)
           rest == Front(work)
           new == {j \in Preds(l) : ~Contains(rest, j)}
<1>1. /\ phase = "sweep" /\ work # <<>> /\ UNCHANGED <<prog, pass, phase, removed, at, stale>>
      /\ liveOut' = [liveOut EXCEPT ![l] = OutOf(l)]
      /\ liveIn' = [liveIn EXCEPT ![l] = InOf(l)]
      /\ work' = IF InOf(l) = liveIn[l] THEN rest ELSE rest \o SetToSeq(new)
  BY DEF Analyse
<1>2. LineTypes /\ WorkInv
  BY DEF LinesInv
<1>3. /\ l \in Lines /\ rest \in Seq(Lines)
      /\ \A k : Contains(work, k) => k = l \/ Contains(rest, k)
  BY <1>1, <1>2, LastAndFront DEF LineTypes
<1>4. new \subseteq Lines /\ IsFiniteSet(new)
  <2>1. new \subseteq Lines
    BY DEF Preds
  <2>2. IsFiniteSet(Lines)
    BY TextsAssumption, FS_Interval DEF Lines
  <2> QED
    BY <2>1, <2>2, FS_Subset
<1>5. SetToSeq(new) \in Seq(Lines) /\ \A k \in new : Contains(SetToSeq(new), k)
  <2>1. SetToSeq(new) \in Seq(new) /\ \A k \in new : Contains(SetToSeq(new), k)
    BY <1>4, ListOfSet
  <2> QED
    BY <1>4, <2>1, SeqMonotonic
<1>6. work' \in Seq(Lines) /\ \A k : Contains(rest, k) => Contains(work', k)
  <2>1. rest \o SetToSeq(new) \in Seq(Lines)
    BY <1>3, <1>5, ConcatProperties
  <2>2. \A k : Contains(rest, k) => Contains(rest \o SetToSeq(new), k)
    BY <1>3, <1>5, ContainsConcat
  <2> QED
    BY <1>1, <1>3, <2>1, <2>2
<1>7. LineTypes'
  <2>1. liveIn' \in [Lines -> SUBSET Cells] /\ liveOut' \in [Lines -> SUBSET Cells]
    BY <1>1, <1>2, <1>3, InOfType DEF LineTypes
  <2> QED
    BY <1>1, <1>2, <1>6, <2>1 DEF LineTypes, Lines, Cells
<1> HIDE DEF l, rest, new
<1>8. ASSUME NEW k \in Lines PROVE Contains(work', k) \/ LineSolved(k)'
  <2>1. /\ liveIn' [l] = InOf(l) /\ liveOut' [l] = OutOf(l)
        /\ \A j \in Lines : j # l => liveIn'[j] = liveIn[j] /\ liveOut'[j] = liveOut[j]
    BY <1>1, <1>2, <1>3 DEF LineTypes
  <2>2. k # l => Contains(rest, k) \/ LineSolved(k)
    BY <1>2, <1>3 DEF WorkInv
  <2>3. ASSUME \A s \in SuccOf(k) : s \in Lines => liveIn'[s] = liveIn[s]
        PROVE  Contains(work', k) \/ LineSolved(k)'
    <3>1. OutOf(k)' = OutOf(k) /\ InOf(k)' = InOf(k)
      BY <1>1, <2>3, OutOfDepends
    <3> QED
      BY <1>6, <2>1, <2>2, <3>1 DEF LineSolved
  <2>4. CASE InOf(l) = liveIn[l] \/ l \notin SuccOf(k)
    BY <2>1, <2>3, <2>4
  <2>5. CASE InOf(l) # liveIn[l] /\ l \in SuccOf(k)
    <3>1. k \in new \/ Contains(rest, k)
      BY <2>5 DEF new, Preds
    <3>2. Contains(rest \o SetToSeq(new), k)
      BY <1>3, <1>5, <3>1, ContainsConcat
    <3> QED
      BY <1>1, <2>5, <3>2
  <2> QED
    BY <2>4, <2>5
<1>9. WorkInv'
  BY <1>8 DEF WorkInv, Lines
<1>10. GoneInv'
  BY <1>1 DEF LinesInv, GoneInv
<1> QED
  BY <1>7, <1>9, <1>10 DEF LinesInv

(* Behind the analysis nothing touches it any more.                        *)
LEMMA WorkInvStays ==
  ASSUME WorkInv, UNCHANGED <<prog, liveIn, liveOut, work>>
  PROVE  WorkInv'
<1>1. \A i : OutOf(i)' = OutOf(i) /\ InOf(i)' = InOf(i)
  BY OutOfDepends
<1> QED
  BY <1>1 DEF WorkInv, LineSolved, Lines, Contains

LEMMA LinesRemove ==
  ASSUME LinesInv, RemoveStores
  PROVE  LinesInv'
<1> USE DEF RemoveStores
<1>1. LineTypes' /\ WorkInv'
  BY WorkInvStays DEF LinesInv, LineTypes, Lines, Cells
<1>2. \A i \in removed' : Op(i) = "store" /\ liveOut[i] = {}
  OBVIOUS
<1>3. stale = {} /\ at' = <<at'[1], at'[2]>>
  BY DEF LinesInv, GoneInv
<1> QED
  BY <1>1, <1>2, <1>3 DEF LinesInv, GoneInv, Op

(* What the equations say where the program runs.                          *)
LEMMA RunningEquations ==
  ASSUME LinesInv, phase = "run", NEW i \in Lines
  PROVE  liveIn[i] = UseOf(i) \cup (OutOf(i) \ KillOf(i)) /\ liveOut[i] = OutOf(i)
<1>1. work = <<>> /\ ~Contains(work, i)
  BY DEF LinesInv, GoneInv, Contains
<1> QED
  BY <1>1 DEF LinesInv, WorkInv, LineSolved, InOf

(* Control goes where the pass follows it, or somewhere all is read.       *)
LEMMA TargetsFollowed ==
  ASSUME LinesInv, NEW i \in Lines, NEW t \in Targets(i), UseOf(i) = {}
  PROVE  t \in SuccOf(i)
<1>1. Resolve(i) = Nearest(i)
  BY JumpsFollowed
<1>2. Op(i) \notin {"read", "call", "if", "leave"} /\ (Op(i) \in JumpOps => Resolve(i) # 0)
  BY DEF UseOf, Cells
<1> QED
  BY <1>1, <1>2 DEF Targets, SuccOf

LEMMA LinesExecute ==
  ASSUME LinesInv, Execute
  PROVE  LinesInv'
<1> USE DEF Execute, RunningLine
<1>1. LineTypes /\ WorkInv /\ GoneInv
  BY DEF LinesInv
<1>2. /\ Line \in Lines /\ phase = "run"
      /\ liveIn[Line] = UseOf(Line) \cup (OutOf(Line) \ KillOf(Line)) /\ liveOut[Line] = OutOf(Line)
  BY RunningEquations DEF Line
<1>3. PICK t \in Targets(Line) : at' = <<t, 0>>
  OBVIOUS
<1>4. ASSUME NEW f \in stale' PROVE t \in Lines /\ f \notin liveIn[t]
  <2>1. f \in Cells
    BY <1>1 DEF LineTypes
  <2>2. ASSUME t \in SuccOf(Line), f \notin OutOf(Line) PROVE t \in Lines /\ f \notin liveIn[t]
    BY <2>1, <2>2 DEF OutOf
  <2>3. CASE Op(Line) = "store"
    <3>1. Line \in removed /\ OutOf(Line) = {}
      BY <1>1, <1>2, <2>3 DEF GoneInv
    <3>2. UseOf(Line) = {}
      BY <2>3 DEF UseOf, JumpOps, Conditional
    <3> QED
      BY <1>2, <2>2, <3>1, <3>2, TargetsFollowed
  <2>4. CASE Op(Line) # "store"
    <3>1. f \notin liveIn[Line]
      BY <1>1, <1>2, <2>4 DEF GoneInv, Line
    <3>2. f \notin UseOf(Line) /\ f \notin OutOf(Line)
      BY <1>2, <2>4, <3>1 DEF KillOf
    <3>3. UseOf(Line) = {}
      BY <2>1, <3>2 DEF UseOf
    <3> QED
      BY <1>2, <2>2, <3>2, <3>3, TargetsFollowed
  <2> QED
    BY <2>3, <2>4
<1>5. LineTypes' /\ WorkInv'
  BY <1>1, WorkInvStays DEF LineTypes, Lines, Cells
<1>6. GoneInv'
  BY <1>1, <1>3, <1>4 DEF GoneInv, Op, Lines
<1> QED
  BY <1>5, <1>6 DEF LinesInv

LEMMA LinesInvNext ==
  ASSUME LinesInv, [LinesNext]_lineVars
  PROVE  LinesInv'
<1>1. CASE Analyse
  BY <1>1, LinesAnalyse
<1>2. CASE RemoveStores
  BY <1>2, LinesRemove
<1>3. CASE Execute
  BY <1>3, LinesExecute
<1>4. CASE Halted \/ UNCHANGED lineVars
  <2>1. UNCHANGED lineVars
    BY <1>4 DEF Halted
  <2> QED
    BY <2>1, WorkInvStays DEF lineVars, LinesInv, LineTypes, GoneInv, Lines, Cells, Op
<1> QED
  BY <1>1, <1>2, <1>3, <1>4 DEF LinesNext

-----------------------------------------------------------------------------
(* resolve() of the pass counts anonymous labels where the assembler looks *)
(* for the nearest one: the two agree on every line of every text.         *)
THEOREM AnonymousLabelsFound == LinesSpec => []AnonymousLabels
<1>1. LinesInv => AnonymousLabels
  BY JumpsFollowed DEF AnonymousLabels
<1> QED
  BY <1>1, LinesInvInit, LinesInvNext, PTL DEF LinesSpec

(* Putting back only the predecessors that are not waiting already loses   *)
(* no change: an empty list is a solution of the equations.                *)
THEOREM WorkListSolves == LinesSpec => []WorkListComplete
<1>1. LinesInv => WorkListComplete
  BY DEF LinesInv, WorkInv, LineSolved, WorkListComplete, Contains
<1> QED
  BY <1>1, LinesInvInit, LinesInvNext, PTL DEF LinesSpec

(* Nothing that is left, in the text or behind a jump out of it, reads a   *)
(* byte whose last store the pass took out.                                *)
THEOREM NothingReadsStaleCells == LinesSpec => []NoStaleCell
<1>1. LinesInv => NoStaleCell
  <2>1. ASSUME LinesInv, RunningLine PROVE LineReads \cap stale = {}
    <3>1. /\ Line \in Lines /\ stale \subseteq Cells /\ stale \cap liveIn[Line] = {}
          /\ UseOf(Line) \subseteq liveIn[Line]
      BY <2>1, RunningEquations DEF RunningLine, Line, LinesInv, LineTypes, GoneInv
    <3>2. LineReads \subseteq UseOf(Line)
      BY DEF LineReads, UseOf
    <3> QED
      BY <3>1, <3>2
  <2>2. ASSUME LinesInv, Leaving PROVE stale = {}
    BY <2>2 DEF Leaving, LinesInv, GoneInv
  <2> QED
    BY <2>1, <2>2 DEF NoStaleCell
<1> QED
  BY <1>1, LinesInvInit, LinesInvNext, PTL DEF LinesSpec
=============================================================================
