----------------------------- MODULE CodeBanks -----------------------------
(* The passes that decide in which ROM bank translated code lies and how   *)
(* it is reached: tools/mirror_indexed_prg_tables.py (run twice),          *)
(* fast_code_bank_switch.py, repack_code_banks_final.py with its           *)
(* profile-guided mode, and the earlier repack_code_banks.py.              *)
(*                                                                         *)
(* The code is a set of SECTIONs with references between them. After the   *)
(* passes it is run: the state is the section that executes and the bank   *)
(* that is mapped.                                                         *)
EXTENDS Integers, Sequences, FiniteSets, FiniteSetsExt, Functions

CONSTANTS
  Layouts,        \* see IsLayout
  Modes,          \* which passes run: subset of {"whole", "profile", "identity", "climb"}
  Limit,          \* LIMIT and BANK_BUDGET
  TablesPerBank

VARIABLES
  layout,      \* kinds and sizes of the sections, indexed reads; never changes
  mode,
  phase,       \* the step of the pipeline that comes next
  bank,        \* bank of each section
  refs,        \* references, as rewritten so far
  tables,      \* for each bank, the tables its mirror section holds
  clusters,    \* sets of sections that get one bank
  bins,        \* new banks: sequence of sets of sections
  at, mapped   \* section that runs, bank that is mapped

bankVars == <<layout, mode, phase, bank, refs, tables, clusters, bins, at, mapped>>

(* kind: "block" a translated block, "entry" the canonical entry of a block *)
(* inside a superblock, "leaf" a native leaf helper, "mirror" the mirrored *)
(* tables of a bank, "rom0" code that is always mapped.                    *)
Sections == DOMAIN layout.kind
Kind(s) == layout.kind[s]
Banked == {s \in Sections : Kind(s) # "rom0"}
OldBanks == {bank[s] : s \in Banked}

(* how: "direct" is jp or jr, "call" the call of a native leaf, "read" the *)
(* address of a mirrored table; "known" and "known8" load a bank and a     *)
(* label and jump through a helper in ROM0. load: what that bank is, a     *)
(* number or Symbol for BANK(label). heat: how often a profile saw it.     *)
Symbol == 0
Known(r) == r.how \in {"known", "known8"}
Tight(r) == ~Known(r)

(* What the emitter and the earlier passes guarantee.                      *)
IsLayout(l) ==
  /\ l.kind \in Seq({"block", "entry", "leaf", "mirror", "rom0"})
  /\ LET secs == DOMAIN l.kind
     IN /\ l.size \in [secs -> Nat] /\ l.bank \in [secs -> Nat]
        /\ l.refs \subseteq [from : secs, to : secs, how : {"direct", "call", "known"},
                             load : Nat, heat : Nat]
        /\ l.sites \subseteq [from : secs, base : Nat, late : BOOLEAN]
        /\ \A s \in secs : l.bank[s] = 0 <=> l.kind[s] = "rom0"
        /\ \A x \in l.sites : \E m \in secs : l.kind[m] = "mirror" /\ l.bank[m] = l.bank[x.from]
  /\ IsFiniteSet(l.refs) /\ IsFiniteSet(l.sites)
  /\ \A r \in l.refs :
       /\ r.how \in {"direct", "call"} => l.bank[r.from] = l.bank[r.to]
       /\ r.how = "known" => r.load \in {Symbol, l.bank[r.to]}
       /\ l.kind[r.from] = "rom0" => r.how = "known" /\ r.load = Symbol
       /\ r.how = "call" <=> l.kind[r.to] = "leaf"

ASSUME LayoutsAreReal ==
  /\ Limit \in Nat /\ TablesPerBank \in Nat
  /\ Modes \subseteq {"whole", "profile", "identity", "climb"}
  /\ \A l \in Layouts : IsLayout(l)

(* The climb is made before there are adapters, leaves and mirrors.        *)
IsEarly(l) == \A s \in DOMAIN l.kind : l.kind[s] \in {"block", "rom0"}

(* A mirror section counts one more for its alignment.                     *)
Size(S) ==
  LET ofMirror(b) == IF tables[b] = {} THEN 0 ELSE 1 + Cardinality(tables[b])
  IN SumFunctionOnSet([s \in Sections |-> IF Kind(s) = "mirror" THEN ofMirror(layout.bank[s])
                                         ELSE layout.size[s]], S)

-----------------------------------------------------------------------------
(* Mirrored tables. A site is an indexed read of a table; the later run    *)
(* sees the sites that the register caches have left in another shape.     *)

SitesOf(b, late) == {x \in layout.sites : x.late = late /\ bank[x.from] = b}
BasesOf(b, late) == {x.base : x \in SitesOf(b, late)}
MirrorOf(b) == CHOOSE s \in Sections : Kind(s) = "mirror" /\ bank[s] = b

NewTables(b, late) ==
  LET count(t) == Cardinality({x \in SitesOf(b, late) : x.base = t})
      new == BasesOf(b, late) \ tables[b]
      ahead(t) == {u \in new : count(u) > count(t) \/ (count(u) = count(t) /\ u < t)}
  IN {t \in new : Cardinality(ahead(t)) < TablesPerBank}

Mirror(late) ==
  LET all == [b \in DOMAIN tables |-> tables[b] \cup NewTables(b, late)]
      taken == {x \in layout.sites : x.late = late /\ x.base \in all[bank[x.from]]}
  IN /\ tables' = all
     /\ refs' = refs \cup {[from |-> x.from, to |-> MirrorOf(bank[x.from]), how |-> "read",
                            load |-> x.base, heat |-> 0] : x \in taken}

MirrorTables ==
  /\ phase \in {"mirror", "mirror again"}
  /\ Mirror(phase = "mirror again")
  /\ phase' = IF phase = "mirror" THEN "mirror again" ELSE "bank8"
  /\ UNCHANGED <<layout, mode, bank, clusters, bins, at, mapped>>

-----------------------------------------------------------------------------
(* The shorter helper, and the sections that stay together.                *)

Closed(C, tied) == \A r \in tied : r.from \in C <=> r.to \in C

(* Around every section, all that is tied to it directly or not.           *)
Components(S, tied) ==
  LET closed == {C \in SUBSET S : Closed(C, {r \in tied : {r.from, r.to} \subseteq S})}
  IN {{x \in S : \A C \in closed : s \in C => x \in C} : s \in S}

OfOneBank == {{s \in Banked : bank[s] = b} : b \in OldBanks}

(* Mutant of Units: sections tied by jumps and calls only, not by the      *)
(* tables they read.                                                       *)
JumpUnits ==
  IF mode = "profile" THEN Components(Banked, {r \in refs : r.how \in {"direct", "call"}})
  ELSE OfOneBank

(* Whole old banks; with a profile, sections tied by anything but a        *)
(* transfer through the helper.                                            *)
Units ==
  IF mode = "profile" THEN Components(Banked, {r \in refs : Tight(r)}) ELSE OfOneBank

FastBankSwitch ==
  /\ phase = "bank8"
  /\ refs' = {IF r.how = "known" THEN [r EXCEPT !.how = "known8"] ELSE r : r \in refs}
  /\ clusters' = Units
  /\ phase' = IF mode = "identity" THEN "finish" ELSE "merge"
  /\ UNCHANGED <<layout, mode, bank, tables, bins, at, mapped>>

-----------------------------------------------------------------------------
(* repack_code_banks_final: merge the heaviest pair that fits, again and   *)
(* again; then first fit; then rewrite the transfers.                      *)

Between(C, D) ==
  {r \in refs : /\ Known(r)
                /\ mode = "climb" => r.load # Symbol
                /\ \/ r.from \in C /\ r.to \in D
                   \/ r.from \in D /\ r.to \in C}
Weight(C, D) ==
  SumFunction([r \in Between(C, D) |-> IF mode = "profile" THEN 1 + r.heat ELSE 1])

(* Mutant of Fits: the merged cluster may be one too big.                  *)
AlmostFits(C, D) == Size(C) + Size(D) <= Limit + 1
Fits(C, D) == Size(C) + Size(D) <= Limit

(* What a cluster goes by: its first old bank, or with a profile a section. *)
Name(C) == IF mode = "profile" THEN Min(C) ELSE Min({bank[s] : s \in C})

Pairs ==
  {p \in clusters \X clusters : /\ Name(p[1]) < Name(p[2])
                                /\ Weight(p[1], p[2]) > 0 /\ Fits(p[1], p[2])}
Better(p, q) ==
  LET w == Weight(p[1], p[2])
      v == Weight(q[1], q[2])
  IN \/ w > v
     \/ w = v /\ Name(p[1]) < Name(q[1])
     \/ w = v /\ Name(p[1]) = Name(q[1]) /\ Name(p[2]) < Name(q[2])

Merge ==
  /\ phase = "merge"
  /\ \E p \in Pairs :
       /\ \A q \in Pairs \ {p} : Better(p, q)
       /\ clusters' = (clusters \ {p[1], p[2]}) \cup {p[1] \cup p[2]}
  /\ UNCHANGED <<layout, mode, phase, bank, refs, tables, bins, at, mapped>>

MergeDone ==
  /\ phase = "merge" /\ Pairs = {}
  /\ phase' = "fit"
  /\ UNCHANGED <<layout, mode, bank, refs, tables, clusters, bins, at, mapped>>

(* In order of name, with a profile the largest first.                     *)
FirstFit ==
  /\ phase = "fit"
  /\ \E C \in clusters :
       LET before(D) == IF mode = "profile" /\ Size(C) # Size(D) THEN Size(C) > Size(D)
                        ELSE Name(C) < Name(D)
           roomy == {i \in DOMAIN bins : Size(bins[i]) + Size(C) <= Limit}
       IN /\ \A D \in clusters \ {C} : before(D)
          /\ bins' = IF roomy = {} THEN Append(bins, C)
                     ELSE [bins EXCEPT ![Min(roomy)] = @ \cup C]
          /\ clusters' = clusters \ {C}
  /\ UNCHANGED <<layout, mode, phase, bank, refs, tables, at, mapped>>

FitDone ==
  /\ phase = "fit" /\ clusters = {}
  /\ phase' = "finish"
  /\ UNCHANGED <<layout, mode, bank, refs, tables, clusters, bins, at, mapped>>

NewBank(s) ==
  IF Kind(s) = "rom0" \/ mode = "identity" THEN bank[s]
  ELSE Min(OldBanks) + Min({i \in DOMAIN bins : s \in bins[i]}) - 1

(* Mutant of Rewritten: the number that was loaded stays.                  *)
Unrewritten(r) ==
  IF Known(r) /\ Kind(r.from) # "rom0" /\ NewBank(r.from) = NewBank(r.to)
  THEN [r EXCEPT !.how = "direct"] ELSE r

Rewritten(r) ==
  IF ~Known(r) THEN r
  ELSE IF Kind(r.from) \notin {"rom0", "mirror"} /\ NewBank(r.from) = NewBank(r.to)
  THEN [r EXCEPT !.how = "direct"]
  ELSE [r EXCEPT !.load = Symbol]

Finish ==
  /\ phase = "finish"
  /\ bank' = [s \in Sections |-> NewBank(s)]
  /\ refs' = {Rewritten(r) : r \in refs}
  /\ phase' = "run"
  /\ UNCHANGED <<layout, mode, tables, clusters, bins, at, mapped>>

-----------------------------------------------------------------------------
(* repack_code_banks: components of blocks tied by direct jumps climb from *)
(* the layout they have, one move or swap at a time.                       *)

Blocks == {s \in Sections : Kind(s) = "block"}
BlockUnits == Components(Blocks, {r \in refs : r.how = "direct" /\ {r.from, r.to} \subseteq Blocks})
BankOfUnit(C) == bank[CHOOSE s \in C : TRUE]
Used(b) == Size({s \in Blocks : bank[s] = b})

Conn(C, b) ==
  SumFunction([D \in clusters |->
    IF D # C /\ BankOfUnit(D) = b THEN Cardinality(Between(C, D)) ELSE 0])

BlockBanks == {bank[s] : s \in Blocks}

Moves ==
  {m \in clusters \X BlockBanks : m[2] # BankOfUnit(m[1]) /\ Used(m[2]) + Size(m[1]) <= Limit}
MoveGain(C, b) == Conn(C, b) - Conn(C, BankOfUnit(C))

Swaps ==
  {p \in clusters \X clusters :
     LET a == BankOfUnit(p[1])
         b == BankOfUnit(p[2])
     IN /\ Min(p[1]) < Min(p[2]) /\ a # b
        /\ Used(a) + Size(p[2]) <= Limit + Size(p[1])
        /\ Used(b) + Size(p[1]) <= Limit + Size(p[2])}


(* Mutant of SwapAfter: the references between the two are counted as if   *)
(* they became local.                                                      *)
SwapAfterBoth(C, D) == Conn(C, BankOfUnit(D)) + Conn(D, BankOfUnit(C))
SwapAfter(C, D) ==
  SwapAfterBoth(C, D) - 2 * Cardinality(Between(C, D))

SwapGain(C, D) ==
  SwapAfter(C, D) - Conn(C, BankOfUnit(C)) - Conn(D, BankOfUnit(D))

(* Every step that gains something, with the new bank of what it moves.    *)
Steps ==
  {x \in
     {[gain |-> MoveGain(m[1], m[2]), swap |-> FALSE, size |-> Size(m[1]),
       to |-> [s \in m[1] |-> m[2]]] : m \in Moves}
     \cup
     {[gain |-> SwapGain(p[1], p[2]), swap |-> TRUE, size |-> Size(p[1] \cup p[2]),
       to |-> [s \in p[1] \cup p[2] |->
                 IF s \in p[1] THEN BankOfUnit(p[2]) ELSE BankOfUnit(p[1])]] : p \in Swaps} :
   x.gain > 0}

(* The largest gain; a move before a swap; then the smaller.               *)
BestSteps ==
  {x \in Steps : \A y \in Steps :
     \/ x.gain > y.gain
     \/ x.gain = y.gain /\ ~x.swap /\ y.swap
     \/ x.gain = y.gain /\ x.swap = y.swap /\ x.size <= y.size}

StartClimb ==
  /\ phase = "components"
  /\ clusters' = BlockUnits
  /\ phase' = IF \E b \in BlockBanks : Used(b) > Limit THEN "refused" ELSE "climb"
  /\ UNCHANGED <<layout, mode, bank, refs, tables, bins, at, mapped>>

Climb ==
  /\ phase = "climb"
  /\ \E x \in BestSteps :
       bank' = [s \in Sections |-> IF s \in DOMAIN x.to THEN x.to[s] ELSE bank[s]]
  /\ UNCHANGED <<layout, mode, phase, refs, tables, clusters, bins, at, mapped>>

Retargeted(r) ==
  IF ~Known(r) \/ ~({r.from, r.to} \subseteq Blocks) \/ r.load = Symbol THEN r
  ELSE IF bank[r.from] = bank[r.to] THEN [r EXCEPT !.how = "direct"]
  ELSE [r EXCEPT !.load = bank[r.to]]

ClimbDone ==
  /\ phase = "climb" /\ Steps = {}
  /\ refs' = {Retargeted(r) : r \in refs}
  /\ phase' = "run"
  /\ UNCHANGED <<layout, mode, bank, tables, clusters, bins, at, mapped>>

-----------------------------------------------------------------------------
(* Execution: from ROM0 through the dispatcher, then along references.     *)

Dispatch ==
  /\ phase = "run"
  /\ at' \in {s \in Sections : Kind(s) \in {"block", "entry"}}
  /\ mapped' = bank[at']
  /\ UNCHANGED <<layout, mode, phase, bank, refs, tables, clusters, bins>>

Follow ==
  /\ phase = "run" /\ at # 0
  /\ \E r \in {x \in refs : x.from = at /\ x.how # "read"} :
       /\ at' = r.to
       /\ mapped' = IF Tight(r) THEN mapped
                    ELSE IF r.load = Symbol THEN bank[r.to] ELSE r.load
  /\ UNCHANGED <<layout, mode, phase, bank, refs, tables, clusters, bins>>

BanksInit ==
  /\ layout \in Layouts
  /\ mode \in Modes
  /\ mode = "climb" => IsEarly(layout)
  /\ phase = IF mode = "climb" THEN "components" ELSE "mirror"
  /\ bank = layout.bank
  /\ refs = layout.refs
  /\ tables = [b \in {layout.bank[s] : s \in Banked} |-> {}]
  /\ clusters = {}
  /\ bins = <<>>
  /\ at = 0
  /\ mapped = 0

Refused == phase = "refused" /\ UNCHANGED bankVars

BanksNext ==
  \/ Refused \/ MirrorTables \/ FastBankSwitch \/ Merge \/ MergeDone \/ FirstFit \/ FitDone \/ Finish
  \/ StartClimb \/ Climb \/ ClimbDone \/ Dispatch \/ Follow

BanksSpec == BanksInit /\ [][BanksNext]_bankVars

-----------------------------------------------------------------------------
(* Properties.                                                             *)

(* However the sections have been moved, a transfer arrives with the bank  *)
(* of its target mapped, and the tables and leaf helpers a section uses    *)
(* without a bank switch are in its own bank.                              *)
TransfersLand ==
  at # 0 => /\ mapped = bank[at]
            /\ \A r \in refs : r.from = at /\ r.how \in {"read", "call"} => bank[r.to] = mapped

(* repack_code_banks_final.py:15: merging fills a bank only to the limit;  *)
(* what is larger was larger before, and stands alone.                     *)
BanksFit ==
  phase = "run" =>
    \A b \in OldBanks :
      LET here == {s \in Banked : bank[s] = b}
          before == {{s \in Banked : layout.bank[s] = c} : c \in {layout.bank[s] : s \in Banked}}
      IN Size(here) <= Limit \/ mode = "identity" \/ \E B \in before : here \subseteq B

(* repack_code_banks.py:20: every accepted move or swap makes more         *)
(* transfers bank-local, so climbing ends by itself.                       *)
LocalRefs ==
  Cardinality({r \in refs : Known(r) /\ r.load # Symbol /\ bank[r.from] = bank[r.to]})
ClimbGains ==
  [][phase = "climb" /\ bank' # bank => LocalRefs' > LocalRefs]_<<phase, bank, refs>>

=============================================================================
