----------------------------- MODULE BlockCache -----------------------------
(* The passes that keep a NES cell in a spare host register inside one     *)
(* translated block: tools/cache_xy_in_blocks.py, cache_hot_zp_in_blocks.py, *)
(* cache_a_in_blocks.py, cache_de_in_blocks.py and, when it is asked for,  *)
(* cache_bc_windows.py.                                                    *)
(*                                                                         *)
(* A block is a sequence of host lines. Each pass rewrites it, then it is  *)
(* run. The run knows of every host register only whether it still holds   *)
(* what the emitter put there ("native"), the present value of a cell, or  *)
(* neither ("junk").                                                       *)
EXTENDS Integers, Sequences, FiniteSets, SequencesExt

CONSTANTS
  Blocks,      \* the blocks considered, see IsBlock
  Pipelines    \* the orders of passes considered

VARIABLES
  block,       \* the block as emitted; never changes
  todo,        \* passes still to come
  lines,       \* its lines, as rewritten so far
  ip,          \* line about to run; 0 while passes are to come
  holds,       \* what each host register holds
  acc          \* host A: "right" or "junk"

vars == <<block, todo, lines, ip, holds, acc>>

Hram == {"x", "y", "a"}
Cells == Hram \cup {"zp"}
Regs == {"b", "c", "d", "e"}
None == "none"

(* load, store: between host A and a cell. imm: A from anywhere else. inc: *)
(* A in place. def, ref: ld r, a and ld a, r of the emitter. index: ld l, a *)
(* with a marker that lets it be folded; fetch, poke: through HL. skip: a  *)
(* conditional jr :+ to the next label. trace: the call of the profiler,   *)
(* which preserves BC. copy, cached, direct: what the passes put in.       *)
Line(op, cell, reg) == [op |-> op, cell |-> cell, reg |-> reg]
Op(l) == l.op
EmittedOps == {"load", "store", "imm", "inc", "def", "ref", "index", "fetch",
               "poke", "skip", "label", "call", "trace"}

(* What the emitter guarantees. No cell is touched in the part a skip jumps *)
(* over. A temporary in D or E lives across at most one access of a cell.  *)
(* B and C may live across any number: a superblock keeps X and Y there,   *)
(* from one block (resident) through to the next (after). An index         *)
(* computed in A is not used from A again.                                 *)
IsBlock(k) ==
  LET s == k.body
      calls(i, j) == \E m \in i..j : Op(s[m]) = "call"
      kept(r, j) == \/ \E i \in 1..(j - 1) : s[i] = Line("def", None, r) /\ ~calls(i, j - 1)
                    \/ r \in k.resident /\ ~calls(1, j - 1)
  IN /\ \A i \in DOMAIN s : Op(s[i]) \in EmittedOps
     /\ \A i, j \in DOMAIN s :
          i < j /\ Op(s[i]) = "skip" /\ s[j].cell # None =>
            \E m \in i..j : Op(s[m]) = "label"
     /\ \A i \in DOMAIN s : Op(s[i]) = "skip" => \E j \in DOMAIN s : j > i /\ Op(s[j]) = "label"
     /\ \A i, j \in DOMAIN s :
          /\ i < j /\ Op(s[i]) = "def" /\ Op(s[j]) = "ref" /\ s[i].reg = s[j].reg
          /\ s[i].reg \in {"d", "e"}
          => \A v \in Cells : Cardinality({m \in i..j : s[m].cell = v}) <= 1
     /\ \A j \in DOMAIN s : Op(s[j]) = "ref" => kept(s[j].reg, j)
     /\ \A i \in DOMAIN s : Op(s[i]) = "index" =>
          /\ i > 1 /\ s[i - 1].op = "load"
          /\ i < Len(s) /\ Op(s[i + 1]) \in {"load", "imm", "fetch"}
     /\ k.resident \subseteq {"b", "c"} /\ (k.resident # {} => k.trace)
     /\ k.after \subseteq {"b", "c"} /\ \A r \in k.after : kept(r, Len(s) + 1)

-----------------------------------------------------------------------------
(* Facts about a stretch of lines.                                         *)

Touches(l, r) == l.reg = r
UsesReg(s, r) == \E i \in DOMAIN s : Touches(s[i], r)
UnsafeCall(s) == \E i \in DOMAIN s : Op(s[i]) = "call"
(* Mutant of PossibleAlias: stores through HL are taken to miss the cell.   *)
AliasedReads(s) == \E i \in DOMAIN s : Op(s[i]) = "fetch"
PossibleAlias(s) == \E i \in DOMAIN s : Op(s[i]) \in {"fetch", "poke"}

Accesses(l, v) == Op(l) \in {"load", "store"} /\ l.cell = v
Loads(s, v) == Cardinality({i \in DOMAIN s : Op(s[i]) = "load" /\ s[i].cell = v})
Stores(s, v) == Cardinality({i \in DOMAIN s : Op(s[i]) = "store" /\ s[i].cell = v})
FirstIsLoad(s, v) ==
  \E i \in DOMAIN s : Op(s[i]) = "load" /\ s[i].cell = v
                        /\ \A j \in 1..(i - 1) : ~Accesses(s[j], v)

(* Cycles saved: 2 per cached HRAM load, 3 per cached zero page load; one  *)
(* lost per copy, and the first load is not saved.                         *)
Gain(s, v) ==
  LET per == IF v = "zp" THEN 3 ELSE 2
      base == per * Loads(s, v) - Stores(s, v)
  IN IF Loads(s, v) + Stores(s, v) = 0 THEN -1
     ELSE IF FirstIsLoad(s, v) THEN base - per - 1 ELSE base

Profitable(s, vs) == {v \in vs : Gain(s, v) > 0}

(* Best first; at equal gain the order given by rank.                      *)
Ranked(s, vs, rank) ==
  SetToSortSeq(vs, LAMBDA v, w : \/ Gain(s, v) > Gain(s, w)
                                 \/ Gain(s, v) = Gain(s, w) /\ rank[v] < rank[w])

-----------------------------------------------------------------------------
(* Rewriting. from[i] is where the scope of line i begins, reg[i][v] the   *)
(* register that caches v there. The first access seeds the register,      *)
(* every store refreshes it, later loads come from it.                     *)

RewriteLine(s, i, from, r) ==
  IF r = None THEN <<s[i]>>
  ELSE IF Op(s[i]) = "load" /\ \E j \in from..(i - 1) : Accesses(s[j], s[i].cell)
  THEN <<Line("cached", s[i].cell, r)>>
  ELSE <<s[i], Line("copy", s[i].cell, r)>>

Rewrite(s, from, reg) ==
  FlattenSeq([i \in DOMAIN s |->
    IF Op(s[i]) \in {"load", "store"} THEN RewriteLine(s, i, from[i], reg[i][s[i].cell])
    ELSE <<s[i]>>])

Free(s, regs) == SelectSeq(regs, LAMBDA r : ~UsesReg(s, r))

(* The candidates and the free registers, in order, side by side.          *)
RegisterFor(vs, regs, v) ==
  IF \E n \in DOMAIN vs : n <= Len(regs) /\ vs[n] = v
  THEN regs[CHOOSE n \in DOMAIN vs : vs[n] = v] ELSE None

WholeBlock(s, vs, regs) ==
  Rewrite(s, [i \in DOMAIN s |-> 1],
             [i \in DOMAIN s |-> [v \in Cells |-> RegisterFor(vs, regs, v)]])

(* Mutant of Fold: the mark of the index computation is not asked for.     *)
FoldUnmarked(s) ==
  [i \in DOMAIN s |-> IF Op(s[i]) = "cached" /\ s[i].cell \in {"x", "y"}
                      THEN Line("direct", s[i].cell, s[i].reg) ELSE s[i]]

(* cached x or y moved to L without A, where the emitter marked it.        *)
Fold(s) ==
  LET folds(i) == /\ i \in 1..(Len(s) - 1) /\ Op(s[i]) = "cached" /\ s[i].cell \in {"x", "y"}
                  /\ Op(s[i + 1]) = "index"
  IN FlattenSeq([i \in DOMAIN s |->
       IF folds(i) THEN <<Line("direct", s[i].cell, s[i].reg)>>
       ELSE IF folds(i - 1) THEN <<>> ELSE <<s[i]>>])

CacheXY(s) ==
  IF UnsafeCall(s) THEN s
  ELSE WholeBlock(s, Ranked(s, Profitable(s, {"x", "y"}), [v \in Cells |-> IF v = "y" THEN 1 ELSE 2]),
                  Free(s, <<"b", "c">>))

CacheZp(s) ==
  IF UnsafeCall(s) \/ PossibleAlias(s) \/ Loads(s, "zp") = 0 THEN s
  ELSE WholeBlock(s, Ranked(s, Profitable(s, {"zp"}), [v \in Cells |-> 1]), Free(s, <<"b", "c">>))

CacheA(s) ==
  IF block.trace \/ UnsafeCall(s) \/ Loads(s, "a") = 0 THEN s
  ELSE WholeBlock(s, Ranked(s, Profitable(s, {"a"}), [v \in Cells |-> 1]), Free(s, <<"b", "c">>))

(* Windows: a native use of the register or local control flow ends one.   *)
ControlBarrier(l) == Op(l) \in {"call", "trace", "skip", "label"}
(* Mutant of Barrier: a window reaches over the emitter's own uses of r.   *)
ControlOnly(l, r) == ControlBarrier(l)
Barrier(l, r) == ControlBarrier(l) \/ Touches(l, r)

WindowFrom(s, i, r) ==
  LET ends == {j \in 1..i : Barrier(s[j], r)}
  IN IF ends = {} THEN 1 ELSE (CHOOSE j \in ends : \A k \in ends : k <= j) + 1
WindowTo(s, i, r) ==
  LET ends == {j \in i..Len(s) : Barrier(s[j], r)}
  IN IF ends = {} THEN Len(s) ELSE (CHOOSE j \in ends : \A k \in ends : j <= k) - 1

WindowChoice(w) ==
  LET cands == Profitable(w, IF PossibleAlias(w) \/ Loads(w, "zp") = 0 THEN Hram ELSE Cells)
      order == [v \in Cells |-> CASE v = "x" -> 1 [] v = "y" -> 2 [] v = "a" -> 3 [] OTHER -> 4]
  IN IF cands = {} THEN None ELSE Ranked(w, cands, order)[1]

CacheWindows(s, r) ==
  LET choice(i) == WindowChoice(SubSeq(s, WindowFrom(s, i, r), WindowTo(s, i, r)))
  IN Rewrite(s, [i \in DOMAIN s |-> WindowFrom(s, i, r)],
                [i \in DOMAIN s |-> [v \in Cells |-> IF choice(i) = v THEN r ELSE None]])

CacheDE(s, r) == CacheWindows(s, r)

(* A register with a cache of the whole-block passes is reserved.          *)
LongLived(s, r) == \E i \in DOMAIN s : Op(s[i]) \in {"copy", "cached", "direct"} /\ s[i].reg = r
CacheBC(s, r) == IF LongLived(s, r) THEN s ELSE CacheWindows(s, r)

Apply(p, s) ==
  CASE p = "xy" -> Fold(CacheXY(s))
    [] p = "zp" -> CacheZp(s)
    [] p = "a" -> CacheA(s)
    [] p = "de" -> Fold(CacheDE(CacheDE(s, "d"), "e"))
    [] p = "bc" -> Fold(CacheBC(CacheBC(s, "b"), "c"))

RunPass ==
  /\ todo # <<>>
  /\ lines' = Apply(Head(todo), lines)
  /\ todo' = Tail(todo)
  /\ ip' = IF Len(todo) = 1 THEN 1 ELSE 0
  /\ UNCHANGED <<block, holds, acc>>

-----------------------------------------------------------------------------
(* Execution.                                                              *)

Running == ip \in DOMAIN lines
Now == lines[ip]
Goto(i) == ip' = i /\ UNCHANGED <<block, todo, lines>>

(* Registers that hold cell v do not hold its value any more.              *)
Lose(h, v) == [r \in Regs |-> IF h[r] = v THEN "junk" ELSE h[r]]

Move ==
  /\ Running /\ Op(Now) \in {"load", "imm", "inc", "ref", "cached", "index", "fetch", "trace", "label"}
  /\ acc' = IF Op(Now) \in {"inc", "index", "trace", "label"} THEN acc ELSE "right"
  /\ UNCHANGED holds
  /\ Goto(ip + 1)

Store ==
  /\ Running /\ Op(Now) = "store"
  /\ holds' = Lose(holds, Now.cell)
  /\ UNCHANGED acc
  /\ Goto(ip + 1)

(* A store through HL may hit the cached zero page byte.                   *)
Poke ==
  /\ Running /\ Op(Now) = "poke"
  /\ holds' = Lose(holds, "zp")
  /\ UNCHANGED acc
  /\ Goto(ip + 1)

SetReg ==
  /\ Running /\ Op(Now) \in {"def", "copy"}
  /\ holds' = [holds EXCEPT ![Now.reg] = IF Op(Now) = "def" THEN "native" ELSE Now.cell]
  /\ UNCHANGED acc
  /\ Goto(ip + 1)

(* The index goes to L; A is left as it was.                               *)
Direct ==
  /\ Running /\ Op(Now) = "direct"
  /\ acc' = "junk"
  /\ UNCHANGED holds
  /\ Goto(ip + 1)

(* A helper leaves its own values in every register.                       *)
Call ==
  /\ Running /\ Op(Now) = "call"
  /\ holds' = [r \in Regs |-> "junk"]
  /\ acc' = "right"
  /\ Goto(ip + 1)

Skip ==
  /\ Running /\ Op(Now) = "skip"
  /\ \/ Goto(ip + 1)
     \/ Goto(CHOOSE j \in DOMAIN lines : /\ j > ip /\ Op(lines[j]) = "label"
                                         /\ \A k \in (ip + 1)..(j - 1) : Op(lines[k]) # "label")
  /\ UNCHANGED <<holds, acc>>

Finished == ip > Len(lines)

Init ==
  /\ block \in Blocks
  /\ todo \in Pipelines
  /\ lines = block.body
  /\ ip = 0
  /\ holds = [r \in Regs |-> "native"]
  /\ acc = "right"

Next == \/ RunPass \/ Move \/ Store \/ Poke \/ SetReg \/ Direct \/ Call \/ Skip
        \/ Finished /\ UNCHANGED vars

Spec == Init /\ [][Next]_vars

-----------------------------------------------------------------------------
(* Properties.                                                             *)

(* A load taken from a register yields the value the cell has now: no      *)
(* store, aliasing write, helper or path around the seed came between.     *)
CachedLoadsRight ==
  Running /\ Op(Now) \in {"cached", "direct"} => holds[Now.reg] = Now.cell

(* A register the emitter set still holds that value where it is read, in  *)
(* the block or in the continuation that follows ("A lives in host A, X in *)
(* B, Y in C across safe trace edges", state_superblock.rs).               *)
NativeValuesKept ==
  /\ Running /\ Op(Now) = "ref" => holds[Now.reg] = "native"
  /\ Finished => \A r \in block.after : holds[r] = "native"

(* Nothing uses host A after its load was folded away.                     *)
AccumulatorRight ==
  Running /\ Op(Now) \in {"store", "inc", "def", "copy", "index", "poke"} => acc = "right"

=============================================================================
