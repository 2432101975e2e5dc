---------------------------- MODULE InlineSwitch ----------------------------
(* tools/specialize_inline_dispatchers.py: a JSR with a table of words     *)
(* behind it, to a routine in which the pass finds the pieces of a         *)
(* dispatcher, becomes a native switch. The call is run instruction by     *)
(* instruction, and the switch in one step.                                *)
EXTENDS Naturals, Sequences, FiniteSets, SequencesExt, FiniteSetsExt

CONSTANTS
  Byte,        \* stands for 256
  ScanBytes,   \* bytes of the called routine that the pass looks at (48)
  Sites,       \* see IsSite
  CallStates   \* 6502 states in which the call is reached

VARIABLES
  site,        \* the call, the routine called and the table; never changes
  before,      \* 6502 state when the call is reached; never changes
  cpu,         \* 6502 state now
  rest         \* instructions still to be run

switchVars == <<site, before, cpu, rest>>

Low(w) == w % Byte
High(w) == w \div Byte
Word(lo, hi) == lo + Byte * hi
Half == Byte \div 2

(* What a called routine is made of. nop: an instruction that changes      *)
(* nothing the dispatcher or the switch sets. inc_base: INC of the base    *)
(* cell, for all the instructions that change more.                        *)
Stores == {"sta_base", "sta_base1", "sta_ptr", "sta_ptr1"}
Instructions == {"asl", "tay", "pla", "iny", "lda", "jmp", "nop", "inc_base"} \cup Stores

(* ret: the address JSR pushes. body: the routine called, up to its jump.  *)
(* base, pointer: the cells of the first match in it. words: the table.    *)
(* labels: addresses that have been translated. The pass refuses a pointer *)
(* in the last cell of the page; that the base is not there, and that the  *)
(* four cells differ, is an assumption (README).                           *)
IsSite(s) ==
  /\ s.ret \in 0..(Byte * Byte - 1)
  /\ s.body \in Seq(Instructions)
  /\ {s.base, s.pointer} \subseteq 0..(Byte - 2)
  /\ {s.base, s.base + 1} \cap {s.pointer, s.pointer + 1} = {}
  /\ s.words \in Seq(0..(Byte * Byte - 1))

(* nz: the value flags N and Z come from.                                  *)
States ==
  LET bytes == 0..(Byte - 1)
  IN [a : bytes, nz : bytes, c : {0, 1}, y : bytes, sp : bytes,
      stack : [bytes -> bytes], zp : [bytes -> bytes], pc : Nat]

ASSUME SwitchAssumption ==
  /\ Byte \in Nat /\ Byte >= 2 /\ ScanBytes \in Nat
  /\ \A s \in Sites : IsSite(s)
  /\ CallStates \subseteq States

(* Byte at an address of the PRG: the table lies behind the JSR. Past what *)
(* the site gives there is some other code.                                *)
TableByte(a) ==
  LET i == a - site.ret - 1
      w == site.words[i \div 2 + 1]
  IN IF i \div 2 + 1 \in DOMAIN site.words
     THEN IF i % 2 = 0 THEN Low(w) ELSE High(w)
     ELSE 0

-----------------------------------------------------------------------------
(* The call and the routine called.                                        *)

Load(s, v) == [s EXCEPT !.a = v, !.nz = v]
Push(s, v) == [s EXCEPT !.stack[s.sp] = v, !.sp = (s.sp + Byte - 1) % Byte]
Pull(s) == Load([s EXCEPT !.sp = (s.sp + 1) % Byte], s.stack[(s.sp + 1) % Byte])
Indirect(s) == TableByte(Word(s.zp[site.base], s.zp[site.base + 1]) + s.y)

Execute(s, i) ==
  CASE i = "jsr" -> Push(Push(s, High(site.ret)), Low(site.ret))
    [] i = "asl" -> [Load(s, (2 * s.a) % Byte) EXCEPT !.c = s.a \div Half]
    [] i = "tay" -> [s EXCEPT !.y = s.a, !.nz = s.a]
    [] i = "pla" -> Pull(s)
    [] i = "sta_base" -> [s EXCEPT !.zp[site.base] = s.a]
    [] i = "sta_base1" -> [s EXCEPT !.zp[site.base + 1] = s.a]
    [] i = "iny" -> [s EXCEPT !.y = (s.y + 1) % Byte, !.nz = (s.y + 1) % Byte]
    [] i = "lda" -> Load(s, Indirect(s))
    [] i = "sta_ptr" -> [s EXCEPT !.zp[site.pointer] = s.a]
    [] i = "sta_ptr1" -> [s EXCEPT !.zp[site.pointer + 1] = s.a]
    [] i = "nop" -> s
    [] i = "inc_base" -> LET v == (s.zp[site.base] + 1) % Byte
                         IN [s EXCEPT !.zp[site.base] = v, !.nz = v]
    [] i = "jmp" -> [s EXCEPT !.pc = Word(s.zp[site.pointer], s.zp[site.pointer + 1])]

Called == <<"jsr">> \o site.body

Step ==
  /\ rest # <<>>
  /\ cpu' = Execute(cpu, Head(rest))
  /\ rest' = Tail(rest)
  /\ UNCHANGED <<site, before>>

Done == rest = <<>> /\ UNCHANGED switchVars

-----------------------------------------------------------------------------
(* The recogniser: ASL, TAY first; PLA and STA of both base cells; the     *)
(* first LDA (base),Y with a store behind it, then one with a store of the *)
(* next cell; a jump through these two. It matches bytes: those of an      *)
(* operand that look like an instruction are left out here.                *)

Width(i) == CASE i = "jmp" -> 3
              [] i \in {"asl", "tay", "pla", "iny", "nop"} -> 1
              [] OTHER -> 2
Bytes(d) == MapThenSumSet(LAMBDA i : Width(d[i]), DOMAIN d)

At(d, i, pattern) ==
  i + Len(pattern) - 1 <= Len(d) /\ SubSeq(d, i, i + Len(pattern) - 1) = pattern
FirstAt(d, i, from, patterns) ==
  /\ i >= from /\ \E p \in patterns : At(d, i, p)
  /\ \A j \in from..(i - 1) : \A p \in patterns : ~At(d, j, p)

StrictDispatcher(d) ==
  /\ At(d, 1, <<"asl", "tay">>)
  /\ \E pop \in DOMAIN d :
       /\ FirstAt(d, pop, 3, {<<"pla", "sta_base", "pla", "sta_base1">>})
       /\ \E low \in DOMAIN d :
            /\ FirstAt(d, low, pop + 4, {<<"lda", st>> : st \in Stores}) /\ d[low + 1] = "sta_ptr"
            /\ \E high \in (low + 2)..Len(d) :
                 /\ At(d, high, <<"lda", "sta_ptr1">>)
                 /\ \E jump \in (high + 2)..Len(d) :
                      d[jump] = "jmp" /\ Bytes(SubSeq(d, 1, jump)) <= ScanBytes

(* The table: the words up to the first that is no label, if they are two  *)
(* or more and fewer than half a byte holds.                               *)
Targets ==
  LET known(n) == \A i \in 1..n : site.words[i] \in site.labels
  IN SubSeq(site.words, 1, Max({n \in 0..Len(site.words) : n <= Half /\ known(n)}))

Specialized == StrictDispatcher(site.body) /\ Len(Targets) \in 2..(Half - 1)
Taken(s) == Specialized /\ s.a < Len(Targets)

(* Mutant of SwitchY: only one INY is accounted for.                       *)
SwitchOneIny(a) == 2 * a + 1
SwitchY(a) == 2 * a + 2

Switched(s) ==
  LET target == Targets[s.a + 1]
  IN [a |-> High(target), nz |-> High(target), c |-> 0, y |-> SwitchY(s.a), sp |-> s.sp,
      stack |-> [s.stack EXCEPT ![s.sp] = High(site.ret),
                                ![(s.sp + Byte - 1) % Byte] = Low(site.ret)],
      zp |-> [s.zp EXCEPT ![site.base] = Low(site.ret), ![site.base + 1] = High(site.ret),
                          ![site.pointer] = Low(target), ![site.pointer + 1] = High(target)],
      pc |-> target]

SwitchInit ==
  /\ site \in Sites
  /\ before \in CallStates
  /\ cpu = before
  /\ rest = Called

SwitchNext == Step \/ Done

SwitchSpec == SwitchInit /\ [][SwitchNext]_switchVars

-----------------------------------------------------------------------------
(* The dispatcher whose effect the switch writes down, with its call. The  *)
(* recogniser leaves open what stands between the pieces it finds, and     *)
(* never looks for an INY: that nothing with an effect does, and that both *)
(* INYs are there, is an assumption (README).                              *)
Dispatcher ==
  <<"jsr", "asl", "tay", "pla", "sta_base", "pla", "sta_base1",
    "iny", "lda", "sta_ptr", "iny", "lda", "sta_ptr1", "jmp">>

Effects(n) == Cardinality({i \in 1..n : Called[i] # "nop"})
Documented ==
  /\ Effects(Len(Called)) = Len(Dispatcher)
  /\ \A i \in DOMAIN Called : Called[i] # "nop" => Called[i] = Dispatcher[Effects(i)]

(* specialize_inline_dispatchers.py:18: the switch leaves the registers,   *)
(* the flags, the stack page and the zero page as the call and a           *)
(* dispatcher of the documented shape would, and goes to the same block.   *)
SwitchExact == rest = <<>> /\ Documented /\ Taken(before) => cpu = Switched(before)

=============================================================================
