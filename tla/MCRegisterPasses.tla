-------------------------- MODULE MCRegisterPasses --------------------------
(* The passes over 6502 state held in shadow cells and host registers: one *)
(* behaviour is one dead-store pass, one sequence of caching passes or the *)
(* sequence of arithmetic passes over one small program, followed by runs  *)
(* of the result.                                                          *)
EXTENDS DeadFlags, DeadHram

VARIABLES
  block, todo, lines, ip, holds, acc,      \* BlockCache
  source, observed, text, host, ref        \* HostAlu, with todo

(* Block 1 is the one whose publication may go; blocks 2 and 3 read, kill, *)
(* loop or leave.                                                          *)
Producers == {<<"Lda", "Beq">>, <<"Lda", "Bmi">>, <<"Lda", "Bcc">>, <<"Lda", "Bvc">>,
              <<"Lda", "Sta", "Lda", "Bcc">>, <<"Php", "Lda", "Beq">>}
Others == {<<"Lda", "Beq">>, <<"Beq">>, <<"Bmi">>, <<"Lda">>, <<"Php">>, <<"Sta", "Jmp">>,
           <<"Lda", "Jsr">>, <<"Sta", "JmpInd">>, <<"Lda", "Rts">>, <<>>}
OfOverflow == {<<"Adc">>, <<"Bvc">>, <<"Lda", "Bcc">>, <<"Adc", "Jsr">>, <<"Php">>, <<"Sta", "Jmp">>}
Traced == {<<"Adc", "Bcc", "Bvc">>, <<"Lda", "Bcc", "Lda", "Beq">>, <<"Lda", "Sta", "Php">>, <<"Lda", "Bmi", "Rts">>}

BlockPrograms ==
  LET make(b1, b2, b3, c, t, polls, fuse) ==
        LET body == <<b1, b2, b3>>
            cut == <<c, Len(b2), Len(b3)>>
        IN [body |-> body, cut |-> cut, target |-> t, poll |-> polls,
            fused |-> {b \in 1..3 : /\ fuse
                                    /\ cut[b] >= 2
                                    /\ body[b][cut[b]] \in {"Beq", "Bmi"}
                                    /\ body[b][cut[b] - 1] = "Lda"}]
      goes == {<<x, y, z>> : x \in {0, 3}, y \in {1, 3}, z \in {1}}
  IN {make(b1, b2, b3, Len(b1), t, polls, fuse) :
        b1 \in Producers, b2 \in Others, b3 \in Others, t \in goes,
        polls \in {{}, {3}}, fuse \in BOOLEAN}
     \cup {make(b1, b2, b3, Len(b1), t, polls, FALSE) :
              b1 \in {<<"Adc", "Bcc">>, <<"Adc", "Adc", "Bvc">>}, b2 \in OfOverflow, b3 \in OfOverflow,
              t \in goes, polls \in {{}, {3}}}
     \cup {make(b1, b2, b3, 2, t, {}, TRUE) :
             b1 \in Traced, b2 \in {<<"Lda", "Rts">>}, b3 \in Others, t \in goes}

(* Every sequence of four lines of these kinds with a store among them;    *)
(* plain lines and lines under IF 0 behave like "safe" ones.               *)
SmallLines ==
  {l \in LineSet : CASE l.op = "jr" -> l.to \in {0, 1, 4}
                       [] l.op = "jp" -> l.to \in {1, 3}
                       [] l.op = "bank" -> l.to \in {0, 2}
                       [] OTHER -> l.op \notin {"plain", "if0"}}
LinePrograms ==
  {p \in [1..NumLines -> SmallLines] : \E i \in 1..NumLines : p[i].op = "store"}

-----------------------------------------------------------------------------
(* Blocks for the caching passes: every sequence of BlockLen lines over a  *)
(* few kinds at a time, each set of kinds aimed at one pass.               *)
BlockLen == 5
B == INSTANCE BlockCache WITH Blocks <- {}, Pipelines <- {}

L1(op) == B!Line(op, "none", "none")
LoadOf(v) == B!Line("load", v, "none")
StoreOf(v) == B!Line("store", v, "none")
Def(r) == B!Line("def", "none", r)
Ref(r) == B!Line("ref", "none", r)

(* Index registers, whole block.                                           *)
XYKinds == {LoadOf("x"), StoreOf("x"), LoadOf("y"), StoreOf("y"), L1("index"), L1("fetch"), Def("b")}
(* Zero page under aliases, helpers and skips.                             *)
ZpKinds == {LoadOf("zp"), StoreOf("zp"), LoadOf("x"), L1("poke"), L1("call"), L1("skip"), L1("label")}
(* A and windows between uses of D and E.                                  *)
WindowKinds == {LoadOf("x"), StoreOf("x"), LoadOf("a"), Def("d"), Ref("d"), L1("label"),
                L1("index"), L1("imm"), L1("inc")}
(* Windows over the zero page, with temporaries in the way.                *)
ZpWindowKinds == {LoadOf("zp"), StoreOf("zp"), L1("poke"), Def("b"), Ref("b"), Def("c"), L1("trace")}

(* Two cases the emitter does not rule out are left to run                 *)
(* carried_register: a block that carries B or C through without naming    *)
(* it, and, before cache_bc_windows, a cell touched twice between two uses *)
(* of a value in B or C.                                                   *)
CarriedIsNamed(k) == \A r \in k.after : B!UsesReg(k.body, r)
ShortLived(k) ==
  LET s == k.body
      uses(i, r) == IF i = 0 THEN r \in k.resident
                    ELSE IF i > Len(s) THEN r \in k.after ELSE B!Touches(s[i], r)
  IN \A r \in {"b", "c"} : \A i, j \in 0..(Len(s) + 1) :
       /\ i < j /\ uses(i, r) /\ uses(j, r)
       /\ j \in DOMAIN s => s[j] = Ref(r)
       /\ \A m \in (i + 1)..(j - 1) : ~B!Touches(s[m], r)
       => \A v \in B!Cells : Cardinality({m \in (i + 1)..(j - 1) : s[m].cell = v}) <= 1

Of(kinds, trace, resident, after) ==
  {k \in [body : [1..BlockLen -> kinds], trace : {trace}, resident : resident, after : after] :
     B!IsBlock(k) /\ CarriedIsNamed(k)}

(* A superblock that keeps X in B: its first block, then continuations.    *)
CarryKinds == {LoadOf("zp"), StoreOf("zp"), L1("poke"), Def("b"), Ref("b")}
Carries == {{}, {"b"}}

SmallBlocks ==
  UNION {Of(kinds, FALSE, {{}}, {{}}) : kinds \in {XYKinds, ZpKinds, WindowKinds, ZpWindowKinds}}
  \cup Of(CarryKinds, FALSE, {{}}, {{"b"}}) \cup Of(CarryKinds, TRUE, Carries, Carries)

(* The order of the Makefile, and the one with cache_bc_windows.           *)
Orders == {<<"xy", "zp", "a", "de">>, <<"xy", "zp", "a", "bc">>}
C == INSTANCE BlockCache WITH Blocks <- SmallBlocks, Pipelines <- Orders
CacheInit == C!Init /\ (todo = <<"xy", "zp", "a", "bc">> => ShortLived(block))

-----------------------------------------------------------------------------
(* Arithmetic: every two operations before a branch, one before the end of *)
(* the block, and three where the middle one rewrites, loads or publishes  *)
(* flags between a producer and a consumer of the carry. BVC only where    *)
(* something writes V. A PLP takes back what the source pushed.            *)
U == INSTANCE HostAlu WITH Byte <- 4, Sources <- {}
SmallSources ==
  LET two == {<<x, y, t>> : x \in U!Ops, y \in U!Ops, t \in {"bcc", "bcs far"}}
      overflow == {<<x, y, "bvc">> : x \in U!VWriters \cup {"php"}, y \in U!Ops}
      onward == {<<x, y, "next">> : x \in {"fast cmp", "asl", "adc", "php"}, y \in U!Ops}
      three == {<<x, y, z, t>> : x \in {"fast adc", "asl", "fast cmp", "sbc"}, y \in {"sec", "lda", "php"},
                                 z \in {"fast rol", "adc", "plp", "bit"}, t \in {"bcc far", "bvc", "bcs"}}
  IN {s \in two \cup overflow \cup onward \cup three :
        \A j \in DOMAIN s : s[j] = "plp" => \E i \in 1..(j - 1) : s[i] = "php"}
E == INSTANCE HostAlu WITH Byte <- 4, Sources <- SmallSources

cacheVars == <<block, lines, ip, holds, acc>>
aluVars == <<source, observed, text, host, ref>>
allVars == <<vars, work, cacheVars, todo, aluVars>>

NoCache ==
  block = <<>> /\ lines = <<>> /\ ip = 0 /\ holds = <<>> /\ acc = "idle"
NoDead ==
  /\ prog = <<>> /\ phase = <<>> /\ liveIn = <<>> /\ liveOut = <<>>
  /\ work = <<>> /\ removed = <<>> /\ at = <<>> /\ stale = <<>>

NoAlu ==
  source = <<>> /\ observed = FALSE /\ text = <<>> /\ host = E!Idle /\ ref = E!Idle

MCInit ==
  \/ Init /\ work = <<>> /\ todo = <<>> /\ NoCache /\ NoAlu
  \/ LinesInit /\ todo = <<>> /\ NoCache /\ NoAlu
  \/ CacheInit /\ pass = "cache" /\ NoDead /\ NoAlu
  \/ E!Init /\ pass = "alu" /\ NoDead /\ NoCache

MCNext ==
  \/ pass \in FlagPasses /\ Next /\ UNCHANGED <<work, todo, cacheVars, aluVars>>
  \/ pass = "hram" /\ LinesNext /\ UNCHANGED <<todo, cacheVars, aluVars>>
  \/ pass = "cache" /\ C!Next /\ UNCHANGED <<vars, work, aluVars>>
  \/ pass = "alu" /\ E!Next /\ UNCHANGED <<vars, work, cacheVars>>

MCSpec == MCInit /\ [][MCNext]_allVars

-----------------------------------------------------------------------------
(* The properties of the modules taken as instances, of the behaviours     *)
(* that are theirs.                                                        *)
CachedLoadsRight == pass = "cache" => C!CachedLoadsRight
NativeValuesKept == pass = "cache" => C!NativeValuesKept
AccumulatorRight == pass = "cache" => C!AccumulatorRight
ShadowsRight == pass = "alu" => E!ShadowsRight
BranchesRight == pass = "alu" => E!BranchesRight
=============================================================================
