------------------------------- MODULE HostAlu -------------------------------
(* 6502 arithmetic in host code: the carry, overflow and value shadows     *)
(* through the passes that shorten the emitted sequences, in the order of  *)
(* the Makefile: tools/peephole_generated.py (compare), collapse_          *)
(* conditional_jp, shrink_compare_generated, hot_alu_generated, lazy_      *)
(* overflow_updates, dead_hram_state_global (whole control flow in module  *)
(* DeadHram), dead_overflow, final_peephole, cheap_carry_materialize and   *)
(* sbc_carry_capture.                                                      *)
(*                                                                         *)
(* A source is a short run of 6502 instructions that ends at a branch or   *)
(* at the next block. Its host code is rewritten, then run next to the     *)
(* 6502; what the 6502 holds is what must be found when anything looks.    *)
EXTENDS Naturals, Sequences, FiniteSets, SequencesExt, Bitwise

CONSTANTS
  Byte,        \* stands for 256
  Sources      \* sequences over Ops, with one of Tails last

VARIABLES
  source,      \* the 6502 instructions; never changes
  observed,    \* the rest of the program reads V
  todo,        \* passes still to come
  text,        \* host code: before "flatten" one sequence per instruction
  host,        \* host registers, host flags, memory cells, pc and exit taken
  ref          \* what the 6502 holds

vars == <<source, observed, todo, text, host, ref>>

(* "fast ..." comes from the superblock emitter, the others from the plain *)
(* one, with a helper call where there is one. "far": the target of the    *)
(* branch lies in another bank.                                            *)
Helpers == {"adc", "sbc", "bit", "asl", "lsr", "rol", "ror", "cmp"}
Fast == {"fast cmp", "fast adc", "fast sbc", "fast rol", "clc", "sec"}
Ops == Helpers \cup Fast \cup {"lda", "php", "plp"}
Tails == {"bcc", "bcs", "bcc far", "bcs far", "bvc", "next"}

Half == Byte \div 2
VBit == Byte \div 4
Sign(v) == v >= Half
Bit(f) == IF f THEN 1 ELSE 0
Add(x, y, c) == (x + y + Bit(c)) % Byte
Carries(x, y, c) == x + y + Bit(c) >= Byte
Compl(x) == Byte - 1 - x
Overflows(x, y, c) == Sign(x) = Sign(y) /\ Sign(Add(x, y, c)) # Sign(x)

(* Cells: A, C, Z, N of the 6502, P for the rest of its flags, of which    *)
(* only V counts here; m is the operand of every instruction.              *)
Cells == {"A", "C", "Z", "N", "P"}
Regs == {"b", "c", "d", "e", "h", "l"}
ld(x, y) == <<"ld", x, y>>
Label == <<"label">>

-----------------------------------------------------------------------------
(* Emitted code.                                                           *)

Publish == <<ld("Z", "a"), ld("N", "a")>>
Capture == <<ld("a", "0"), <<"rl", "a">>, ld("C", "a")>>
CaptureFast == <<ld("a", "0"), <<"rla">>, ld("C", "a")>>
Seed == <<ld("a", "C"), <<"rra">>>>
BorrowToBit == <<ld("a", "0"), <<"jr", "c">>, <<"inc", "a">>, Label>>

(* V from the operands in D and E and the result in r; sum: of an ADC.     *)
Differs(sum, r) ==
  <<ld("a", "d"), <<"xor", "e">>>> \o (IF sum THEN <<<<"cpl">>>> ELSE <<>>)
  \o <<ld("h", "a"), ld("a", "d"), <<"xor", r>>, <<"and", "h">>, <<"and", "80">>, <<"jr", "z">>>>
ClearV == <<ld("a", "P"), <<"and", "BF">>>>
Overflow(sum) ==
  ClearV \o <<ld("b", "a")>> \o Differs(sum, "c")
  \o <<ld("a", "b"), <<"or", "40">>, ld("b", "a"), Label, ld("a", "b"), ld("P", "a")>>
FastOverflow ==
  ClearV \o <<ld("P", "a")>> \o Differs(TRUE, "l")
  \o <<ld("a", "P"), <<"or", "40">>, ld("P", "a"), Label>>
BitOverflow == ClearV \o <<<<"bit", "e">>, <<"jr", "z">>, <<"or", "40">>, Label, ld("P", "a")>>

(* What the superblock emitter knows of the carry at instruction k: a CLC  *)
(* or SEC with nothing but loads since.                                    *)
Known(k) ==
  LET before == {j \in 1..(k - 1) : \A n \in (j + 1)..(k - 1) : source[n] = "lda"}
  IN IF \E j \in before : source[j] = "clc" THEN <<<<"and", "a">>>>
     ELSE IF \E j \in before : source[j] = "sec" THEN <<<<"scf">>>>
     ELSE Seed
FastSum(k) ==
  Known(k) \o <<ld("a", "d"), <<"adc", "e">>, ld("l", "a")>> \o CaptureFast \o FastOverflow
  \o <<ld("a", "l"), ld("A", "a")>> \o Publish
Test(cell, how) == <<ld("a", cell), how>>
Target == <<<<"jp", "">>, Label, <<"block">>>>
FarTarget == <<ld("a", "1"), <<"known">>, Label, <<"block">>>>

Body(k) ==
  LET op == source[k]
  IN CASE op = "clc" -> <<ld("a", "0"), ld("C", "a")>>
       [] op = "sec" -> <<ld("a", "1"), ld("C", "a")>>
       [] op = "lda" -> <<ld("a", "m"), ld("A", "a")>> \o Publish
       [] op \in {"php", "plp"} -> <<<<"call", op>>>>
       [] op = "fast cmp" ->
            <<ld("e", "m"), ld("a", "A"), <<"sub", "e">>>> \o Publish \o BorrowToBit \o <<ld("C", "a")>>
       [] op = "fast adc" -> <<ld("a", "A"), ld("d", "a"), ld("e", "m")>> \o FastSum(k)
       [] op = "fast sbc" ->
            <<ld("a", "A"), ld("d", "a"), ld("e", "m"), ld("a", "e"), <<"cpl">>, ld("e", "a")>> \o FastSum(k)
       [] op = "fast rol" ->
            <<ld("a", "A")>>
            \o (IF Known(k) = Seed THEN <<ld("d", "a")>> \o Seed \o <<ld("a", "d")>> ELSE Known(k))
            \o <<<<"rl", "a">>, ld("e", "a")>> \o Capture \o <<ld("a", "e")>> \o Publish \o <<ld("A", "a")>>
       [] op \in Helpers ->
            <<ld("e", "m"), ld("a", "A"), <<"call", op>>>>
            \o (IF op \in {"cmp", "bit"} THEN <<>> ELSE <<ld("A", "a")>>)
       [] op = "bcc" -> Test("C", <<"and", "a">>) \o <<<<"jr", "nz">>>> \o Target
       [] op = "bcs" -> Test("C", <<"and", "a">>) \o <<<<"jr", "z">>>> \o Target
       [] op = "bcc far" -> Test("C", <<"and", "a">>) \o <<<<"jr", "nz">>>> \o FarTarget
       [] op = "bcs far" -> Test("C", <<"and", "a">>) \o <<<<"jr", "z">>>> \o FarTarget
       [] op = "bvc" -> Test("P", <<"and", "40">>) \o <<<<"jr", "nz">>>> \o Target
       [] op = "next" -> <<<<"block">>>>

(* The comment that names the instruction stays in front of its code.      *)
Emitted == [k \in DOMAIN source |-> <<<<"insn", source[k]>>>> \o Body(k)]

-----------------------------------------------------------------------------
(* Passes over one instruction at a time.                                  *)

At(t, i, lines) ==
  i + Len(lines) - 1 <= Len(t) /\ SubSeq(t, i, i + Len(lines) - 1) = lines
RECURSIVE ReplaceFrom(_, _, _, _)
ReplaceFrom(t, i, old, new) ==
  IF i > Len(t) THEN t
  ELSE IF At(t, i, old)
  THEN ReplaceFrom(SubSeq(t, 1, i - 1) \o new \o SubSeq(t, i + Len(old), Len(t)), i + Len(new), old, new)
  ELSE ReplaceFrom(t, i + 1, old, new)
Replace(t, old, new) == ReplaceFrom(t, 1, old, new)

(* Shifts: result in A, carry in the host flag.                            *)
CaptureCZN == <<ld("c", "a")>> \o Capture \o <<ld("a", "c")>> \o Publish
InlineAdc ==
  <<ld("d", "a")>> \o Seed \o <<ld("a", "d"), <<"adc", "e">>, ld("c", "a")>> \o Capture
  \o Overflow(TRUE) \o <<ld("a", "c")>> \o Publish
InlineSbc ==
  <<ld("d", "a")>> \o Seed \o <<<<"ccf">>, ld("a", "d"), <<"sbc", "e">>, ld("c", "a"), <<"ccf">>>>
  \o Capture \o Overflow(FALSE) \o <<ld("a", "c")>> \o Publish
InlineBit ==
  <<ld("d", "a"), <<"and", "e">>, ld("Z", "a"), ld("a", "e"), ld("N", "a")>> \o BitOverflow
InlineRotate(op) == <<ld("d", "a")>> \o Seed \o <<ld("a", "d"), <<op, "a">>>> \o CaptureCZN
InlineCompare ==
  <<ld("d", "a"), <<"sub", "e">>, ld("c", "a"), ld("a", "d"), <<"cp", "e">>>>
  \o BorrowToBit \o <<ld("C", "a"), ld("a", "c")>> \o Publish

Inlined(op) ==
  CASE op = "adc" -> InlineAdc
    [] op = "sbc" -> InlineSbc
    [] op = "bit" -> InlineBit
    [] op = "asl" -> <<<<"add", "a">>>> \o CaptureCZN
    [] op = "lsr" -> <<<<"srl", "a">>>> \o CaptureCZN
    [] op = "rol" -> InlineRotate("rl")
    [] op = "ror" -> InlineRotate("rr")
    [] op = "cmp" -> InlineCompare

(* jr around a jump to the same bank becomes a conditional jump; the label *)
(* stays.                                                                  *)
Collapse(t) ==
  Replace(Replace(t, <<<<"jr", "z">>, <<"jp", "">>, Label>>, <<<<"jp", "nz">>, Label>>),
          <<<<"jr", "nz">>, <<"jp", "">>, Label>>, <<<<"jp", "z">>, Label>>)

ShrinkCompare(t) ==
  Replace(t, InlineCompare, <<<<"sub", "e">>, ld("c", "a"), <<"ccf">>>> \o Capture
                              \o <<ld("a", "c")>> \o Publish)

InlineHelper(t, op) == Replace(t, <<<<"call", op>>>>, Inlined(op))
HotAlu(t) == FoldLeft(InlineHelper, t, <<"adc", "sbc", "bit", "asl", "lsr", "rol", "ror">>)

VReaders == {"php", "bvc"}
VWriters == {"adc", "sbc", "bit", "fast adc", "fast sbc", "plp"}
(* Mutant: nothing is live when the source is left.                        *)
DeadVAtEnd(k) == \A n \in DOMAIN source : n > k => source[n] \notin VReaders
(* V of instruction k is dead: written again before it can be read. What   *)
(* follows the source may read it.                                         *)
DeadV(k) ==
  \E j \in DOMAIN source : /\ j > k /\ source[j] \in VWriters
                           /\ \A n \in (k + 1)..(j - 1) : source[n] \notin VReaders

(* Only the update of P goes; the test of the condition stays.             *)
RemoveStatePublish(t) ==
  LET kept == <<<<"or", "40">>, Label>>
  IN Replace(Replace(Replace(t,
       Overflow(TRUE), Differs(TRUE, "c") \o kept),
       Overflow(FALSE), Differs(FALSE, "c") \o kept),
       BitOverflow, <<<<"bit", "e">>, <<"jr", "z">>>> \o kept)
LazyOverflow(t) ==
  [k \in DOMAIN t |-> IF source[k] \in {"adc", "sbc", "bit"} /\ DeadV(k)
                      THEN RemoveStatePublish(t[k]) ELSE t[k]]

-----------------------------------------------------------------------------
(* Passes over the whole text.                                             *)

(* t without some of its lines.                                            *)
Without(t, gone) == FlattenSeq([i \in DOMAIN t |-> IF i \in gone THEN <<>> ELSE <<t[i]>>])

(* A store of a shadow is dead when the cell is stored again on every path *)
(* before a read, a call or the end of the block. Skips stay within one    *)
(* sequence and skip no store of these cells.                              *)
DeadStores(t) ==
  {i \in DOMAIN t :
     /\ t[i][1] = "ld" /\ t[i][2] \in Cells \ {"P"}
     /\ \E j \in (i + 1)..Len(t) :
          /\ t[j] = t[i]
          /\ \A n \in (i + 1)..(j - 1) :
               t[n] # ld("a", t[i][2]) /\ t[n][1] \notin {"call", "jp", "known", "block"}}
(* Mutant: the pass is skipped.                                            *)
KeepStores(t) == t
RemoveDeadStores(t) == Without(t, DeadStores(t))

(* V is never read: no BVC, and each pushed status is popped again.        *)
VObservable ==
  \/ \E k \in DOMAIN source : source[k] = "bvc"
  \/ \E k \in DOMAIN source : /\ source[k] = "php"
                               /\ \A j \in DOMAIN source : j > k => source[j] # "plp"
DropOverflow(t) ==
  Replace(Replace(Replace(t, Overflow(TRUE), <<Label>>), Overflow(FALSE), <<Label>>),
          FastOverflow, <<Label>>)

(* Places known to equal A, line by line; loads of one of them go.         *)
Equal(line, S) ==
  LET regs == S \cap Regs
  IN CASE line[1] = "ld" /\ line[3] = "a" ->
            IF line[2] \in Regs \cup Cells THEN S \cup {line[2]} ELSE S
       [] line[1] = "ld" /\ line[2] = "a" /\ line[3] \in Cells ->
            {line[3]} \cup (IF line[3] \in S THEN regs ELSE {})
       [] line[1] = "ld" /\ line[2] = "a" /\ line[3] # "m" ->
            IF line[3] \in S THEN S ELSE {line[3]}
       [] line[1] = "ld" /\ line[2] = "a" -> {}
       [] line[1] = "ld" -> S \ {line[2]}
       [] line[1] \in {"insn", "scf", "ccf", "cp", "bit"} -> S
       [] OTHER -> {}
KnownBefore(t) ==
  LET sets[i \in 0..Len(t)] == IF i = 0 THEN {} ELSE Equal(t[i], sets[i - 1])
  IN [i \in DOMAIN t |-> sets[i - 1]]
FinalPeephole(t) ==
  LET S == KnownBefore(t)
  IN Without(t, {i \in DOMAIN t : t[i][1] = "ld" /\ t[i][2] = "a" /\ t[i][3] \in S[i]})

(* Host flags: what a line reads and writes, as the two carry passes see   *)
(* it. Their pattern for CP has no word boundary and takes in CPL.         *)
FlagOps == {"and", "or", "xor", "cp", "cpl", "sub", "add", "adc", "sbc", "rla", "rra", "rl", "rr", "srl"}
WritesC == FlagOps \cup {"scf"}
WritesZ == (FlagOps \ {"rla", "rra"}) \cup {"inc", "bit"}
ReadsC(line) ==
  line[1] \in {"adc", "sbc", "rla", "rra", "rl", "rr", "ccf"} \/ line \in {<<"jr", "c">>, <<"jr", "nc">>}
ReadsZ(line) == line[1] \in {"jr", "jp"} /\ line[2] \in {"z", "nz"}

(* Z is written after line i before anything can read it.                  *)
ZDeadAfter(t, i) ==
  \E j \in (i + 1)..Len(t) :
    /\ t[j][1] \in WritesZ \cup {"rla", "rra"}
    /\ \A n \in (i + 1)..(j - 1) : t[n][1] \in {"insn", "label", "ld"}
CheapCarry(t) ==
  LET sites == {i \in DOMAIN t : At(t, i, BorrowToBit) /\ ZDeadAfter(t, i + 3)}
      part(i) == CASE i \in sites -> <<<<"sbc", "a">>>>
                   [] i - 1 \in sites -> <<>>
                   [] OTHER -> <<t[i]>>
  IN FlattenSeq([i \in DOMAIN t |-> part(i)])

-----------------------------------------------------------------------------
(* sbc_carry_capture: the carry is captured by SBC A and stays in the host *)
(* carry, which must then be written before it is read.                    *)

Passed(t, from, to, writers) == \E n \in from..to : t[n][1] \in writers
DeadAfter(t, i, needZ) ==
  \E j \in i..Len(t) :
    /\ \/ t[j] \in {<<"block">>, <<"jp", "">>}
       \/ Passed(t, i, j, WritesC) /\ (needZ => Passed(t, i, j, WritesZ))
    /\ \A n \in i..j :
         /\ ReadsC(t[n]) => Passed(t, i, n - 1, WritesC)
         /\ needZ /\ ReadsZ(t[n]) => Passed(t, i, n - 1, WritesZ)
         /\ t[n][1] \in {"insn", "label", "ld", "block", "jp"} \cup WritesC \cup WritesZ

Reload == ld("a", "C")
(* The first line after a capture that may touch flags, or reads C.        *)
FirstUse(t, i) ==
  CHOOSE j \in i..Len(t) : /\ t[j] = Reload \/ t[j][1] \notin {"insn", "ld"}
                           /\ \A n \in i..(j - 1) : t[n] # Reload /\ t[n][1] \in {"insn", "ld"}

(* A test of C after which neither A nor the flags count: the branch goes  *)
(* to a block, and the way on overwrites A or is a jump.                   *)
BranchFuses(t, j) ==
  /\ At(t, j, Test("C", <<"and", "a">>))
  /\ j + 3 <= Len(t)
  /\ ReadsZ(t[j + 2])
  /\ \/ t[j + 2][1] = "jr" /\ \E n \in (j + 3)..Len(t) :
                             /\ At(t, n, <<Label, <<"block">>>>)
                             /\ \A o \in (j + 3)..(n - 1) : t[o] # Label
     \/ t[j + 2][1] = "jp"
  /\ \/ t[j + 3] \in {<<"block">>, <<"jp", "">>}
     \/ At(t, j + 3, <<ld("a", "1"), <<"known">>>>)
Reseeds(t, j) ==
  /\ At(t, j, Seed) /\ j + 3 <= Len(t)
  /\ t[j + 2][1] = "ld" /\ t[j + 2][2] = "a" /\ t[j + 2][3] \in Regs
  /\ t[j + 3][1] \in {"adc", "sbc", "rl", "rr"}

CarrySites(t) ==
  {i \in DOMAIN t :
     /\ At(t, i, Capture) \/ At(t, i, CaptureFast)
     /\ i + 3 <= Len(t)
     /\ LET j == FirstUse(t, i + 3)
        IN \/ BranchFuses(t, j)
           \/ Reseeds(t, j)
           \/ DeadAfter(t, i + 3, t[i + 1] = <<"rla">>)}
CarryCapture(t) ==
  LET sites == CarrySites(t)
      uses == {FirstUse(t, i + 3) : i \in sites}
      fused == {j \in uses : BranchFuses(t, j)}
      seeded == {j \in uses \ fused : Reseeds(t, j)}
      part(i) ==
        CASE i \in sites -> <<<<"sbc", "a">>>>
          [] i - 1 \in sites -> <<>>
          [] i \in fused \cup seeded \/ i - 1 \in fused \cup seeded -> <<>>
          [] i - 2 \in fused -> <<<<t[i][1], IF t[i][2] = "z" THEN "nc" ELSE "c">>>>
          [] OTHER -> <<t[i]>>
  IN FlattenSeq([i \in DOMAIN t |-> part(i)])

Passes == <<"peephole", "collapse", "shrink", "hot", "lazy", "flatten", "stores",
            "overflow", "final", "cheap", "capture">>
Rewritten(pass) ==
  LET each(F(_)) == [k \in DOMAIN text |-> F(text[k])]
  IN CASE pass = "peephole" -> each(LAMBDA t : InlineHelper(t, "cmp"))
       [] pass = "collapse" -> each(Collapse)
       [] pass = "shrink" -> each(ShrinkCompare)
       [] pass = "hot" -> each(HotAlu)
       [] pass = "lazy" -> LazyOverflow(text)
       [] pass = "flatten" -> FlattenSeq(text)
       [] pass = "stores" -> RemoveDeadStores(text)
       [] pass = "overflow" -> IF observed THEN text ELSE DropOverflow(text)
       [] pass = "final" -> FinalPeephole(text)
       [] pass = "cheap" -> CheapCarry(text)
       [] pass = "capture" -> CarryCapture(text)

-----------------------------------------------------------------------------
(* Execution.                                                              *)

Value(h, x) ==
  CASE x = "0" -> 0 [] x = "1" -> 1 [] x = "80" -> Half [] x = "40" -> VBit
    [] x = "BF" -> Compl(VBit) [] OTHER -> h[x]

(* The helpers behind PHP and PLP: the status from the shadows, and back.  *)
Status(h) == [c |-> h.C # 0, z |-> h.Z = 0, n |-> Sign(h.N), v |-> h.P & VBit # 0]
Flags(h, a, fc, fz) == [h EXCEPT !.a = a, !.fc = fc, !.fz = fz]
Result(h, a, fc) == Flags(h, a, fc, a = 0)
Holds(h, cond) ==
  CASE cond = "" -> TRUE [] cond = "z" -> h.fz [] cond = "nz" -> ~h.fz
    [] cond = "c" -> h.fc [] cond = "nc" -> ~h.fc
LabelAfter(i) == CHOOSE j \in i..Len(text) : text[j] = Label /\ \A n \in i..(j - 1) : text[n] # Label

Effect(h, line) ==
  LET op == line[1]
      x == Value(h, line[2])
      top == Sign(h.a)
  IN CASE op = "ld" -> [h EXCEPT ![line[2]] = Value(h, line[3])]
       [] op \in {"insn", "label"} -> h
       [] op \in {"rl", "rla"} ->
            LET a == (2 * h.a + Bit(h.fc)) % Byte IN Flags(h, a, top, op = "rl" /\ a = 0)
       [] op \in {"rr", "rra"} ->
            LET a == h.a \div 2 + Half * Bit(h.fc) IN Flags(h, a, h.a % 2 = 1, op = "rr" /\ a = 0)
       [] op = "srl" -> Result(h, h.a \div 2, h.a % 2 = 1)
       [] op = "add" -> Result(h, Add(h.a, x, FALSE), Carries(h.a, x, FALSE))
       [] op = "adc" -> Result(h, Add(h.a, x, h.fc), Carries(h.a, x, h.fc))
       [] op = "sub" -> Result(h, Add(h.a, Compl(x), TRUE), h.a < x)
       [] op = "sbc" -> Result(h, Add(h.a, Compl(x), ~h.fc), ~Carries(h.a, Compl(x), ~h.fc))
       [] op = "cp" -> Flags(h, h.a, h.a < x, h.a = x)
       [] op = "and" -> Result(h, h.a & x, FALSE)
       [] op = "or" -> Result(h, h.a | x, FALSE)
       [] op = "xor" -> Result(h, h.a ^^ x, FALSE)
       [] op = "inc" -> Result(h, Add(h.a, 1, FALSE), h.fc)
       [] op = "cpl" -> [h EXCEPT !.a = Compl(h.a)]
       [] op = "bit" -> [h EXCEPT !.fz = (x & VBit = 0)]
       [] op = "ccf" -> [h EXCEPT !.fc = ~h.fc]
       [] op = "scf" -> [h EXCEPT !.fc = TRUE]
       [] line = <<"call", "php">> -> [h EXCEPT !.pushed = Status(h), !.a = h.m]
       [] line = <<"call", "plp">> ->
            [h EXCEPT !.C = Bit(h.pushed.c), !.Z = 1 - Bit(h.pushed.z),
                      !.N = Half * Bit(h.pushed.n), !.P = VBit * Bit(h.pushed.v), !.a = h.m]

(* One line; h.went is set when control leaves the source.                 *)
Execute(h) ==
  LET line == text[h.pc]
      next == [h EXCEPT !.pc = h.pc + 1]
  IN CASE line[1] = "jr" -> IF Holds(h, line[2]) THEN [h EXCEPT !.pc = LabelAfter(h.pc)] ELSE next
       [] line[1] = "jp" -> IF Holds(h, line[2]) THEN [h EXCEPT !.went = "taken"] ELSE next
       [] line[1] = "known" -> [h EXCEPT !.went = "taken"]
       [] line[1] = "block" -> [h EXCEPT !.went = "on"]
       [] OTHER -> [Effect(h, line) EXCEPT !.pc = h.pc + 1]
RECURSIVE Execution(_)
Execution(h) == IF h.went # "" \/ text[h.pc][1] = "insn" THEN h ELSE Execution(Execute(h))

(* The 6502 itself.                                                        *)
Set(r, a, c) == [r EXCEPT !.a = a, !.c = c, !.z = (a = 0), !.n = Sign(a)]
Semantics(r, op) ==
  LET sum(x) == [Set(r, Add(r.a, x, r.c), Carries(r.a, x, r.c)) EXCEPT !.v = Overflows(r.a, x, r.c)]
      compared == Add(r.a, Compl(r.m), TRUE)
  IN CASE op \in {"adc", "fast adc"} -> sum(r.m)
       [] op \in {"sbc", "fast sbc"} -> sum(Compl(r.m))
       [] op \in {"cmp", "fast cmp"} ->
            [r EXCEPT !.c = (r.a >= r.m), !.z = (compared = 0), !.n = Sign(compared)]
       [] op = "bit" -> [r EXCEPT !.z = (r.a & r.m = 0), !.n = Sign(r.m), !.v = (r.m & VBit # 0)]
       [] op = "asl" -> Set(r, (2 * r.a) % Byte, Sign(r.a))
       [] op = "lsr" -> Set(r, r.a \div 2, r.a % 2 = 1)
       [] op \in {"rol", "fast rol"} -> Set(r, (2 * r.a + Bit(r.c)) % Byte, Sign(r.a))
       [] op = "ror" -> Set(r, r.a \div 2 + Half * Bit(r.c), r.a % 2 = 1)
       [] op = "clc" -> [r EXCEPT !.c = FALSE]
       [] op = "sec" -> [r EXCEPT !.c = TRUE]
       [] op = "lda" -> Set(r, r.m, r.c)
       [] op = "php" -> [r EXCEPT !.pushed = [f \in {"c", "z", "n", "v"} |-> r[f]]]
       [] op = "plp" -> [r EXCEPT !.c = r.pushed.c, !.z = r.pushed.z, !.n = r.pushed.n, !.v = r.pushed.v]
       [] op \in Tails -> r
Taken(r, op) ==
  CASE op \in {"bcc", "bcc far"} -> ~r.c [] op \in {"bcs", "bcs far"} -> r.c
    [] op = "bvc" -> ~r.v [] op = "next" -> FALSE

Nothing == [c |-> FALSE, z |-> FALSE, n |-> FALSE, v |-> FALSE]
Idle == [went |-> "idle"]

Init ==
  /\ source \in Sources
  /\ observed \in {TRUE, VObservable}
  /\ todo = Passes
  /\ text = Emitted
  /\ host = Idle
  /\ ref = Idle

RunPass ==
  /\ todo # <<>>
  /\ text' = Rewritten(Head(todo))
  /\ todo' = Tail(todo)
  /\ UNCHANGED <<source, observed, host, ref>>

(* The host registers and flags hold anything on entry: two fillings. The  *)
(* carry shadow is 0, 1 or, once captured by SBC A, all ones.              *)
Start(a, m, c, v) ==
  LET junk == IF v THEN Byte - 1 ELSE 0 IN
  /\ todo = <<>> /\ host = Idle
  /\ host' = [a |-> junk, b |-> junk, c |-> junk, d |-> junk, e |-> junk, h |-> junk, l |-> junk,
              fc |-> v, fz |-> ~v, A |-> a, C |-> c, Z |-> a, N |-> a, P |-> VBit * Bit(v), m |-> m,
              pushed |-> Nothing, pc |-> 1, went |-> ""]
  /\ ref' = [a |-> a, c |-> c # 0, z |-> a = 0, n |-> Sign(a), v |-> v, m |-> m, pushed |-> Nothing, at |-> 1]
  /\ UNCHANGED <<source, observed, todo, text>>

(* One 6502 instruction, on both machines.                                 *)
Step ==
  /\ host.went = ""
  /\ host' = Execution([host EXCEPT !.pc = host.pc + 1])
  /\ ref' = [Semantics(ref, source[ref.at]) EXCEPT !.at = ref.at + 1]
  /\ UNCHANGED <<source, observed, todo, text>>

Again ==
  /\ host.went \in {"taken", "on"}
  /\ host' = Idle /\ ref' = Idle
  /\ UNCHANGED <<source, observed, todo, text>>

Next ==
  \/ RunPass
  \/ \E a, m \in 0..(Byte - 1), c \in {0, 1, Byte - 1}, v \in BOOLEAN : Start(a, m, c, v)
  \/ Step
  \/ Again

Spec == Init /\ [][Next]_vars

-----------------------------------------------------------------------------
(* The passes keep every flag the 6502 program can see: when the source is *)
(* left, and in every status pushed, the shadows mean what the 6502 holds, *)
(* the carry shadow in both ways it is read (AND A and RRA). V counts only *)
(* where the program can read it (dead_overflow): a status that no PLP of  *)
(* the source takes back is anybody's.                                     *)
Visible(status, v) == [status EXCEPT !.v = v /\ status.v]
ShadowsRight ==
  /\ host.went \in {"taken", "on"} =>
       /\ host.A = ref.a
       /\ Visible(Status(host), observed) = Visible([f \in DOMAIN Nothing |-> ref[f]], observed)
       /\ (host.C # 0) = (host.C % 2 = 1)
  /\ host.went # "idle" =>
       LET v == observed \/ \A k \in DOMAIN source : source[k] # "plp"
       IN Visible(host.pushed, v) = Visible(ref.pushed, v)

(* A conditional branch goes where the 6502 goes, whether it tests the     *)
(* shadow or the host carry left by the instruction before it.             *)
BranchesRight ==
  /\ host.went = "taken" => Taken(ref, source[ref.at - 1])
  /\ host.went = "on" => ~Taken(ref, source[ref.at - 1])
=============================================================================
