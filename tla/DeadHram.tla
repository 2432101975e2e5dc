------------------------------ MODULE DeadHram ------------------------------
(* tools/dead_hram_state_global.py: removes stores to the 6502 state kept  *)
(* in HRAM by liveness over the lines of the generated assembly.           *)
(*                                                                         *)
(* A program is a sequence of lines: liveIn, liveOut and removed are about *)
(* lines, and at is the line about to run, paired with 0.                  *)
EXTENDS Naturals, Sequences, FiniteSets, SequencesExt, RemovedStores

CONSTANTS
  NumLines,
  Texts        \* the texts considered

VARIABLE work  \* the lines still to be looked at; a stack

lineVars == <<prog, pass, phase, liveIn, liveOut, work, removed, at, stale>>

Lines == 1..NumLines

(* The six tracked bytes are handled alike; one of them stands for all.    *)
Cells == {"cell"}

(* "jr" and "jp": a conditional and an unconditional jump to the line with *)
(* that number, 0 for a label outside the translated code. "next" and      *)
(* "prev": a conditional jump to an anonymous label, jr :+ and jr :-.      *)
(* "bank": the jump through nes_jump_known_hl_a to the label loaded in HL. *)
(* "safe": a call of a helper on the list of the pass; "call": any other.  *)
(* "if0": a line that IF 0 keeps out of the build. "if": any other IF      *)
(* block. "leave": ret, jp hl, dispatch, a SECTION of something else.      *)
LineSet ==
  [op : {"store", "read", "plain", "anon", "next", "prev", "safe", "call",
         "if0", "if", "leave"}, to : {0}]
    \cup [op : {"jr", "jp", "bank"}, to : Lines \cup {0}]

ASSUME TextsAssumption == NumLines \in Nat /\ Texts \subseteq [Lines -> LineSet]

Op(i) == prog[i].op

-----------------------------------------------------------------------------
(* Analysis.                                                               *)

AnonLines == {i \in Lines : Op(i) = "anon"}

(* bisect_right(anon, i), and its inverse.                                 *)
AnonUpTo(i) == Cardinality(AnonLines \cap 1..i)
NthAnon(k) == CHOOSE i \in AnonLines : AnonUpTo(i) = k

(* Mutant: an anonymous label on the line itself counts as passed.          *)
AnonBefore(i) ==
  LET k == IF Op(i) = "next" THEN AnonUpTo(i) ELSE AnonUpTo(i) - 1
  IN IF Op(i) \notin {"next", "prev"} THEN prog[i].to
     ELSE IF k \in 1..Cardinality(AnonLines) THEN NthAnon(k) ELSE 0

(* The line a jump goes to; 0 if it is not a line of the translated code.  *)
Resolve(i) ==
  LET k == IF Op(i) = "next" THEN AnonUpTo(i) + 1 ELSE AnonUpTo(i)
  IN IF Op(i) \notin {"next", "prev"} THEN prog[i].to
     ELSE IF k \in 1..Cardinality(AnonLines) THEN NthAnon(k) ELSE 0

Conditional == {"jr", "next", "prev"}
JumpOps == Conditional \cup {"jp", "bank"}
Straight == {"store", "read", "plain", "anon", "safe", "call", "if0"}

SuccOf(i) ==
  (IF Op(i) \in Straight \cup Conditional THEN {i + 1} ELSE {})
    \cup (IF Op(i) \in JumpOps /\ Resolve(i) # 0 THEN {Resolve(i)} ELSE {})

(* Mutant: a conditional jump that leaves the translated code reads nothing. *)
UseIfStopping(i) ==
  IF \/ Op(i) \in {"read", "call", "if", "leave"}
     \/ Op(i) \in {"jp", "bank"} /\ Resolve(i) = 0
  THEN Cells ELSE {}

UseOf(i) ==
  IF \/ Op(i) \in {"read", "call", "if", "leave"}
     \/ Op(i) \in JumpOps /\ Resolve(i) = 0
  THEN Cells ELSE {}

KillOf(i) == IF Op(i) = "store" THEN Cells ELSE {}

(* Running off the last line keeps everything live.                        *)
OutOf(i) == UNION {IF s \in Lines THEN liveIn[s] ELSE Cells : s \in SuccOf(i)}
InOf(i) == UseOf(i) \cup (OutOf(i) \ KillOf(i))

(* Mutant: only fallthrough predecessors are put back on the list.          *)
LineAbove(i) == {j \in Lines : j = i - 1 /\ i \in SuccOf(j)}
Preds(i) == {j \in Lines : i \in SuccOf(j)}

(* Every line starts on the work list, the first on top. The order in      *)
(* which predecessors return to it is left open.                           *)
Analyse ==
  /\ phase = "sweep" /\ work # <<>>
  /\ LET i == Last(work)
         rest == Front(work)
     IN /\ liveOut' = [liveOut EXCEPT ![i] = OutOf(i)]
        /\ liveIn' = [liveIn EXCEPT ![i] = InOf(i)]
        /\ work' = IF InOf(i) = liveIn[i] THEN rest
                   ELSE rest \o SetToSeq({j \in Preds(i) : ~Contains(rest, j)})
  /\ UNCHANGED <<prog, pass, phase, removed, at, stale>>

RemoveStores ==
  /\ phase = "sweep" /\ work = <<>>
  /\ removed' = {i \in Lines : Op(i) = "store" /\ liveOut[i] = {}}
  /\ phase' = "run"
  /\ \E i \in Lines : at' = <<i, 0>>
  /\ UNCHANGED <<prog, pass, liveIn, liveOut, work, stale>>

-----------------------------------------------------------------------------
(* Execution of what is left.                                              *)

RunningLine == phase = "run" /\ at[1] \in Lines
Line == at[1]

(* Where jr :+ and jr :- go: the nearest anonymous label on that side.     *)
Nearest(i) ==
  LET behind == {j \in AnonLines : j > i}
      before == {j \in AnonLines : j < i}
  IN CASE Op(i) = "next" -> IF behind = {} THEN 0 ELSE CHOOSE j \in behind : \A k \in behind : j <= k
       [] Op(i) = "prev" -> IF before = {} THEN 0 ELSE CHOOSE j \in before : \A k \in before : j >= k
       [] OTHER -> prog[i].to

(* A helper that is not on the list may materialize P or start the NMI. A  *)
(* label outside the translated code is the runtime or data.               *)
LineReads ==
  CASE Op(Line) \in {"read", "call", "if"} -> Cells
    [] OTHER -> {}

(* The runtime and the blocks it dispatches to read everything.            *)
Leaving == at[1] \notin Lines /\ phase = "run"

Targets(i) ==
  (IF Op(i) \in Straight \cup Conditional \cup {"if"} THEN {i + 1} ELSE {})
    \cup (IF Op(i) \in JumpOps THEN {Nearest(i)} ELSE {})
    \cup (IF Op(i) \in {"if", "leave"} THEN {0} ELSE {})

Execute ==
  /\ RunningLine
  /\ stale' = IF Op(Line) # "store" THEN stale
              ELSE IF Line \in removed THEN Cells ELSE {}
  /\ \E i \in Targets(Line) : at' = <<i, 0>>
  /\ UNCHANGED <<prog, pass, phase, liveIn, liveOut, work, removed>>

Halted == Leaving /\ UNCHANGED lineVars

LinesInit ==
  /\ prog \in Texts
  /\ pass = "hram"
  /\ phase = "sweep"
  /\ liveIn = [i \in Lines |-> {}]
  /\ liveOut = [i \in Lines |-> {}]
  /\ work = Reverse([i \in Lines |-> i])
  /\ removed = {}
  /\ at = <<1, 0>>
  /\ stale = {}

LinesNext == Analyse \/ RemoveStores \/ Execute \/ Halted

LinesSpec == LinesInit /\ [][LinesNext]_lineVars

-----------------------------------------------------------------------------
(* Properties.                                                             *)

(* No line reads a byte whose last store was removed, and none is stale    *)
(* when control leaves the translated code.                                *)
NoStaleCell ==
  /\ pass = "hram" /\ RunningLine => LineReads \cap stale = {}
  /\ pass = "hram" /\ Leaving => stale = {}

(* A jump the pass follows goes where the assembler sends it.              *)
AnonymousLabels ==
  pass = "hram" => \A i \in Lines : Op(i) \in JumpOps => Resolve(i) = Nearest(i)

(* When the work list is empty every line satisfies the equations, so no   *)
(* change was lost between a line and its predecessors.                    *)
WorkListComplete ==
  pass = "hram" /\ work = <<>> =>
    \A i \in Lines : liveIn[i] = InOf(i) /\ liveOut[i] = OutOf(i)

=============================================================================
