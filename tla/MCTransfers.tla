----------------------------- MODULE MCTransfers -----------------------------
(* The passes over control transfers and where they land: one behaviour is *)
(* one component on one small program, the passes first and then the run   *)
(* of their result.                                                        *)
EXTENDS Naturals, Sequences, FiniteSets, TLC, ShortJumps, CodeBanks, Returns, InlineSwitch

VARIABLES
  model,                                            \* the component of the behaviour
  chain, polled, vector                             \* NmiPolls, with code to active

-----------------------------------------------------------------------------
(* Main at 4 and 6 calls the subroutines at 8 and 10; 11 is shared. The    *)
(* return at 12 lies on a page boundary, and 7 is a label no call names.   *)
Jump(b) == Block("jmp", {b}, 0)
At8 == {Block("rts", {}, 0), Block("branch", {10}, 9), Block("branch", {11}, 9),
        Block("jsr", {10}, 9), Block("fall", {}, 9), Block("switch", {10, 11}, 0)}
At9 == {Block("rts", {}, 0), Block("poke", {}, 10), Block("drop", {}, 11),
        Jump(11), Block("ind", {}, 0)}
At10 == {Block("rts", {}, 0), Block("branch", {8}, 11), Block("poke", {}, 11)}
At11 == {Block("rts", {}, 0), Block("rti", {}, 0)}

(* One bank, or the subroutines in another one than main.                  *)
BanksOf == {[b \in {4, 6, 8, 9, 10, 11, 12} |-> 1],
            [b \in {4, 6, 8, 9, 10, 11, 12} |-> IF b \in {8, 9, 10, 11} THEN 2 ELSE 1]}

ReturnPrograms ==
  {p \in
     {[block |-> (4 :> Block("jsr", {8}, 6)) @@ (6 :> Block("jsr", {t}, 12)) @@ (12 :> Jump(4))
                 @@ (8 :> a) @@ (9 :> b) @@ (10 :> c) @@ (11 :> d),
       chain |-> chained, bank |-> banks, polls |-> {4, 12}, table |-> <<1, 8, 12, 8, 2, 9>>,
       entry |-> 4, nmi |-> 11] :
        a \in At8, b \in At9, c \in At10, d \in At11, t \in {8, 10},
        chained \in {{}, {8}, {9}, {10}}, banks \in BanksOf} :
   IsProgram(p) /\ (p.chain # {} => p.bank[8] = 1)}

-----------------------------------------------------------------------------
(* Four blocks in three banks and code in ROM0; then also a canonical      *)
(* entry, a native leaf and the mirror sections of the three banks.        *)
Banks == {<<1, 1, 2, 3>>, <<1, 2, 2, 3>>, <<1, 2, 3, 3>>}
Ref(f, t, how, load, heat) == [from |-> f, to |-> t, how |-> how, load |-> load, heat |-> heat]
BlockRefs(b, S) ==
  {IF b[p[1]] = b[p[2]] THEN Ref(p[1], p[2], "direct", 0, 0)
   ELSE Ref(p[1], p[2], "known", b[p[2]], IF p[1] > p[2] THEN 3 ELSE 0) : p \in S}
RefSets ==
  {S \in SUBSET {<<1, 2>>, <<1, 3>>, <<2, 3>>, <<3, 1>>, <<3, 4>>, <<4, 1>>} : Cardinality(S) = 2}

(* The last sizes overfill a bank.                                         *)
EarlyLayouts ==
  {[kind |-> <<"block", "block", "block", "block", "rom0">>, size |-> sz \o <<1>>, bank |-> b \o <<0>>,
    refs |-> BlockRefs(b, S \cup {<<2, 4>>}) \cup {Ref(5, 1, "known", 0, 0)}, sites |-> {}] :
     b \in Banks, S \in RefSets, sz \in {<<1, 1, 1, 1>>, <<1, 2, 1, 2>>, <<2, 3, 2, 1>>}}

Read(f, t, late) == [from |-> f, base |-> t, late |-> late]
ReadSets == {{Read(1, 1, FALSE), Read(2, 2, FALSE), Read(1, 2, FALSE)},
             {Read(1, 1, FALSE), Read(1, 2, TRUE)}, {Read(3, 1, TRUE)}}
FullLayouts ==
  {[kind |-> <<"block", "block", "block", "block", "rom0", "entry", "leaf", "mirror", "mirror", "mirror">>,
    size |-> sz \o <<1, 1, 1, 0, 0, 0>>, bank |-> b \o <<0, 1, 3, 1, 2, 3>>,
    refs |-> BlockRefs(b, S) \cup {Ref(5, 1, "known", 0, 0), Ref(6, 3, "known", b[3], 0),
                                   Ref(4, 7, "call", 0, 0), Ref(7, 1, "known", 1, 0)},
    sites |-> st] :
     b \in Banks, S \in RefSets, sz \in {<<1, 1, 1, 1>>, <<1, 2, 1, 2>>}, st \in ReadSets}

BankLayouts == {l \in EarlyLayouts \cup FullLayouts : IsLayout(l)}

-----------------------------------------------------------------------------
(* Six lines, with a label and a jump to it among them; JR reaches less    *)
(* than three instructions of three bytes.                                 *)
L(k, s, t) == [kind |-> k, size |-> s, to |-> t]
Section == L("section", 0, 0)
LineKinds == {L("insn", 1, 0), L("insn", 3, 0), L("label", 0, 1), L("jr", 0, 1), L("jp", 0, 1),
              L("data", 1, 0), Section}
JumpTexts ==
  {t \in {<<Section>> \o s : s \in [1..5 -> LineKinds]} :
     \E i, j \in 1..6 : t[i].kind = "label" /\ t[j].kind \in {"jr", "jp"}}

-----------------------------------------------------------------------------
(* Behind a call of the plain dispatcher, tables of three words, some of   *)
(* them no labels, and one too long. Routines with up to three more        *)
(* instructions, of which 23 bytes hold two; one with an INY more, one     *)
(* less, one that adjusts the base instead, one without its jump.          *)
Code == {17, 18, 35}
Plain == <<"asl", "tay", "pla", "sta_base", "pla", "sta_base1",
           "iny", "lda", "sta_ptr", "iny", "lda", "sta_ptr1", "jmp">>
Routines ==
  {InsertAt(Plain, i, x) : i \in 2..13, x \in {"nop", "iny"}}
  \cup {InsertAt(InsertAt(Plain, i, "nop"), j, "nop") : i \in {3, 8}, j \in {3, 9, 13}}
  \cup {InsertAt(InsertAt(InsertAt(Plain, i, "nop"), 8, "nop"), 3, "nop") : i \in {3, 13}}
  \cup {RemoveAt(Plain, i) : i \in {2, 7, 10, 13}} \cup {ReplaceAt(Plain, 7, "inc_base")}
SwitchSites ==
  LET site0(b, w, body) == [ret |-> 4, body |-> body, base |-> b, pointer |-> 5, words |-> w, labels |-> Code]
  IN {site0(b, w, Plain) : b \in {1, 3}, w \in [1..3 -> Code \cup {2}] \cup {[i \in 1..8 |-> 17]}}
     \cup {site0(1, <<17, 35, 18>>, body) : body \in Routines}
SwitchEntries ==
  LET none == [i \in 0..7 |-> 0]
  IN {[a |-> a, nz |-> a, c |-> c, y |-> 0, sp |-> sp, stack |-> none, zp |-> none, pc |-> 0] :
        a \in 0..7, c \in {0, 1}, sp \in {0, 1, 7}}

-----------------------------------------------------------------------------
(* Reset at 1, NMI at 5, IRQ at 6; every block in a bank of its own, so    *)
(* that nothing is chained, and no table behind an RTS (run polls).        *)
P0 == INSTANCE NmiPolls WITH Programs <- {}, MaxDepth <- 3
PollPrograms ==
  LET after1 == {P0!Block("jsr", {3}, 2), P0!Block("fall", {}, 2), P0!Block("branch", {3}, 2),
                 P0!Block("jsr", {4}, 2)}
      after2 == {P0!Block("jmp", {1}, 0), P0!Block("jmp", {2}, 0), P0!Block("branch", {2}, 3),
                 P0!Block("jsr", {3}, 1), P0!Block("ind", {}, 0), P0!Block("switch", {1, 4}, 0)}
      after3 == {P0!Block("rts", {}, 0), P0!Block("branch", {3}, 4), P0!Block("jmp", {2}, 0),
                 P0!Block("jsr", {4}, 4)}
      after4 == {P0!Block("rts", {}, 0), P0!Block("branch", {4}, 6), P0!Block("rti", {}, 0),
                 P0!Block("jmp", {3}, 0)}
      after5 == {P0!Block("jsr", {3}, 4), P0!Block("jsr", {3}, 6), P0!Block("jmp", {4}, 0),
                 P0!Block("ind", {}, 0)}
  IN {p \in {[block |-> <<b1, b2, b3, b4, b5, P0!Block("rti", {}, 0)>>, bank |-> [b \in 1..6 |-> b],
              reset |-> 1, nmi |-> 5, irq |-> 6] :
                b1 \in after1, b2 \in after2, b3 \in after3, b4 \in after4, b5 \in after5} :
        P0!IsProgram(p)}
P == INSTANCE NmiPolls WITH Programs <- PollPrograms, MaxDepth <- 3

-----------------------------------------------------------------------------
guardVars == <<weights, sites, strayed, taken>>
pollVars == <<chain, polled, vector>>
vars == <<model, returnVars, pollVars, bankVars, textVars, switchVars>>

NoProgram == code = 0 /\ pc = 0 /\ stack = 0 /\ active = 0
NoReturns == weights = 0 /\ sites = 0 /\ strayed = TRUE /\ taken = Nowhere
NoPolls == chain = 0 /\ polled = 0 /\ vector = 0
NoBanks == /\ layout = 0 /\ mode = 0 /\ phase = "none" /\ bank = 0 /\ refs = 0
           /\ tables = 0 /\ clusters = 0 /\ bins = 0 /\ at = 0 /\ mapped = 0
NoText == text = <<>> /\ out = <<>> /\ line = 0
NoSwitch == site = 0 /\ before = 0 /\ cpu = 0 /\ rest = <<"none">>

Init ==
  \/ model = "returns" /\ ReturnsInit /\ NoPolls /\ NoBanks /\ NoText /\ NoSwitch
  \/ model = "polls" /\ P!Init /\ NoReturns /\ NoBanks /\ NoText /\ NoSwitch
  \/ model = "banks" /\ BanksInit /\ NoProgram /\ todo = 0 /\ NoReturns /\ NoPolls /\ NoText /\ NoSwitch
  \/ model = "jumps" /\ TextInit /\ NoProgram /\ todo = 0 /\ NoReturns /\ NoPolls /\ NoBanks /\ NoSwitch
  \/ model = "switch" /\ SwitchInit /\ NoProgram /\ todo = 0 /\ NoReturns /\ NoPolls /\ NoBanks /\ NoText

Next ==
  /\ UNCHANGED model
  /\ \/ model = "returns" /\ ReturnsNext /\ UNCHANGED <<pollVars, bankVars, textVars, switchVars>>
     \/ model = "polls" /\ P!Next /\ UNCHANGED <<guardVars, bankVars, textVars, switchVars>>
     \/ model = "banks" /\ BanksNext /\ UNCHANGED <<returnVars, pollVars, textVars, switchVars>>
     \/ model = "jumps" /\ TextNext /\ UNCHANGED <<returnVars, pollVars, bankVars, switchVars>>
     \/ model = "switch" /\ SwitchNext /\ UNCHANGED <<returnVars, pollVars, bankVars, textVars>>

Spec == Init /\ [][Next]_vars

-----------------------------------------------------------------------------
(* The properties of each module, of the behaviours that are its own.      *)
MainlinePolls == model = "polls" => P!MainlinePolls
=============================================================================
