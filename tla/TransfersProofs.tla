--------------------------- MODULE TransfersProofs ---------------------------
(***************************************************************************)
(* Jumps reach their labels, transfers between banks land, and a native    *)
(* switch does what its dispatcher would, for every text, every layout of  *)
(* the sections and every table.                                           *)
(***************************************************************************)
EXTENDS ShortJumps, CodeBanks, InlineSwitch, Arithmetic

-----------------------------------------------------------------------------
(* Short jumps.                                                            *)
Kinds == {"label", "section", "insn", "data", "jr", "jp"}

(* Only the kind of a jump changes, and a JR the pass has looked at is one *)
(* that was shown to reach.                                                *)
TextInv ==
  /\ text \in Texts /\ line \in 1 .. Len(text) + 1
  /\ out \in Seq([kind : Kinds, size : Nat, to : Nat]) /\ DOMAIN out = DOMAIN text
  /\ \A i \in DOMAIN text :
       /\ out[i].to = text[i].to
       /\ IF IsJump(text[i]) THEN IsJump(out[i]) ELSE out[i] = text[i]
       /\ i < line /\ out[i].kind = "jr" => ProvablyInRange(i, text[i].to)

LEMMA RealText ==
  ASSUME text \in Texts
  PROVE  /\ text \in Seq([kind : Kinds, size : Nat, to : Nat]) /\ JrRange \in Nat
         /\ \A i \in DOMAIN text : text[i].kind = "insn" => text[i].size \in 1 .. MaxSize
BY TextsAreReal DEF IsText, Kinds

LEMMA TextInvInit ==
  ASSUME TextInit
  PROVE  TextInv
<1>1. text \in Seq([kind : Kinds, size : Nat, to : Nat]) /\ Len(text) \in Nat
  BY RealText DEF TextInit
<1>2. \A i \in DOMAIN text : i >= 1 /\ i \in Nat
  BY <1>1
<1> QED
  BY <1>1, <1>2 DEF TextInit, TextInv

LEMMA TextInvNext ==
  ASSUME TextInv, [TextNext]_textVars
  PROVE  TextInv'
<1>1. text \in Seq([kind : Kinds, size : Nat, to : Nat]) /\ DOMAIN text = 1 .. Len(text) /\ Len(text) \in Nat
  BY RealText DEF TextInv
<1>2. CASE Normalize
  <2> DEFINE new == [out[line] EXCEPT !.kind = IF ProvablyInRange(line, text[line].to) THEN "jr" ELSE "jp"]
             kept == IF IsJump(text[line]) THEN new ELSE out[line]
  <2>1. line \in DOMAIN text /\ text' = text /\ line' = line + 1
    BY <1>2 DEF Normalize
  <2>2. /\ out[line] \in [kind : Kinds, size : Nat, to : Nat]
        /\ new \in [kind : Kinds, size : Nat, to : Nat]
        /\ new.kind = IF ProvablyInRange(line, text[line].to) THEN "jr" ELSE "jp"
        /\ new.to = out[line].to
    <3> DEFINE R == [kind : Kinds, size : Nat, to : Nat]
    <3>0. out \in Seq(R) /\ line \in DOMAIN out
      BY <2>1 DEF TextInv
    <3>1. out[line] \in R
      <4> HIDE DEF R
      <4> QED
        BY <3>0
    <3>2. (IF ProvablyInRange(line, text[line].to) THEN "jr" ELSE "jp") \in Kinds
      BY DEF Kinds
    <3> QED
      BY <3>1, <3>2
  <2>3. out' = [out EXCEPT ![line] = kept]
    <3>1. CASE IsJump(text[line])
      BY <1>2, <3>1 DEF Normalize
    <3>2. CASE ~IsJump(text[line])
      <4>1. out' = out
        BY <1>2, <3>2 DEF Normalize
      <4>2. out = [out EXCEPT ![line] = out[line]]
        BY <2>1 DEF TextInv
      <4> QED
        BY <3>2, <4>1, <4>2
    <3> QED
      BY <3>1, <3>2
  <2>4. /\ kept \in [kind : Kinds, size : Nat, to : Nat] /\ kept.to = text[line].to
        /\ IF IsJump(text[line]) THEN IsJump(kept) ELSE kept = text[line]
        /\ kept.kind = "jr" => ProvablyInRange(line, text[line].to)
    <3>1. CASE IsJump(text[line])
      BY <2>1, <2>2, <3>1 DEF TextInv, IsJump
    <3>2. CASE ~IsJump(text[line])
      BY <2>1, <2>2, <3>2 DEF TextInv, IsJump
    <3> QED
      BY <3>1, <3>2
  <2> HIDE DEF new, kept
  <2>5. /\ out' \in Seq([kind : Kinds, size : Nat, to : Nat]) /\ DOMAIN out' = DOMAIN text
        /\ \A i \in DOMAIN text : out'[i] = IF i = line THEN kept ELSE out[i]
    BY <2>1, <2>3, <2>4 DEF TextInv
  <2>6. ASSUME NEW i \in DOMAIN text
        PROVE  /\ out'[i].to = text[i].to
               /\ IF IsJump(text[i]) THEN IsJump(out'[i]) ELSE out'[i] = text[i]
               /\ i < line + 1 /\ out'[i].kind = "jr" => ProvablyInRange(i, text[i].to)
    <3>1. CASE i = line
      BY <2>4, <2>5, <3>1
    <3>2. CASE i # line
      <4>1. out'[i] = out[i] /\ (i < line + 1 => i < line)
        BY <1>1, <2>1, <2>5, <3>2
      <4> QED
        BY <4>1 DEF TextInv
    <3> QED
      BY <3>1, <3>2
  <2>7. \A i, name : ProvablyInRange(i, name)' = ProvablyInRange(i, name)
    BY <2>1 DEF ProvablyInRange, LabelLines, SectionOf, Inside, Reaches, Total
  <2>8. line + 1 \in 1 .. Len(text) + 1 /\ text \in Texts
    BY <1>1, <2>1 DEF TextInv
  <2> QED
    BY <2>1, <2>5, <2>6, <2>7, <2>8 DEF TextInv
<1>3. CASE UNCHANGED textVars
  <2>1. UNCHANGED <<text, out, line>>
    BY <1>3 DEF textVars
  <2>2. \A i, name : ProvablyInRange(i, name)' = ProvablyInRange(i, name)
    BY <2>1 DEF ProvablyInRange, LabelLines, SectionOf, Inside, Reaches, Total
  <2> QED
    BY <2>1, <2>2 DEF TextInv
<1> QED
  BY <1>2, <1>3 DEF TextNext, Finished

(* What the pass counts for the lines in between covers their real size.   *)
LEMMA CountCovers ==
  ASSUME TextInv, NEW i \in DOMAIN text, NEW t \in DOMAIN text,
         \A j \in Inside(i, t) : ~Unknown(text[j])
  PROVE  LET bytes == SumFunctionOnSet([j \in DOMAIN out |-> RealSize(out[j])], Inside(i, t))
         IN bytes \in Nat /\ bytes <= Total(Inside(i, t)) /\ Total(Inside(i, t)) \in Nat
<1> DEFINE f == [j \in DOMAIN out |-> RealSize(out[j])]
           g == [j \in DOMAIN text |-> MaxBytes(text[j])]
<1>1. /\ text \in Seq([kind : Kinds, size : Nat, to : Nat])
      /\ DOMAIN text = 1 .. Len(text) /\ Len(text) \in Nat /\ DOMAIN out = DOMAIN text
  BY RealText DEF TextInv
<1>2. Inside(i, t) \subseteq DOMAIN text /\ Inside(i, t) \subseteq DOMAIN out /\ IsFiniteSet(Inside(i, t))
  <2>1. i \in 1 .. Len(text) /\ t \in 1 .. Len(text)
    BY <1>1
  <2>2. Inside(i, t) \subseteq 1 .. Len(text)
    <3>1. \A n \in Nat : \A a \in 1 .. n, b \in 1 .. n : a + 1 .. b - 1 \subseteq 1 .. n
      OBVIOUS
    <3>2. Len(text) \in Nat
      BY <1>1
    <3>3. i + 1 .. t - 1 \subseteq 1 .. Len(text) /\ t + 1 .. i - 1 \subseteq 1 .. Len(text)
      BY <2>1, <3>1, <3>2
    <3> QED
      BY <3>3 DEF Inside
  <2>3. IsFiniteSet(1 .. Len(text))
    BY <1>1, FS_Interval
  <2> QED
    BY <1>1, <2>2, <2>3, FS_Subset
<1>4. ASSUME NEW j \in Inside(i, t)
      PROVE  f[j] \in Nat /\ g[j] \in Nat /\ f[j] <= g[j]
  <2>1. j \in DOMAIN text /\ j \in DOMAIN out
    BY <1>2
  <2>2. text[j].kind \in Kinds \ {"data"} /\ text[j].size \in Nat
    <3> DEFINE R == [kind : Kinds, size : Nat, to : Nat]
    <3>1. text[j] \in R
      <4>1. text \in Seq(R) /\ j \in DOMAIN text
        BY <1>1, <2>1
      <4> HIDE DEF R
      <4> QED
        BY <4>1
    <3> QED
      BY <3>1 DEF Unknown
  <2>3. text[j].kind = "insn" => text[j].size \in 1 .. 3
    BY <2>1, RealText DEF TextInv, MaxSize
  <2>4. IF IsJump(text[j]) THEN out[j].kind \in {"jr", "jp"} ELSE out[j] = text[j]
    BY <2>1 DEF TextInv, IsJump
  <2>5. RealSize(out[j]) \in Nat /\ MaxBytes(text[j]) \in Nat /\ RealSize(out[j]) <= MaxBytes(text[j])
    BY <2>2, <2>3, <2>4 DEF RealSize, MaxBytes, IsJump, Kinds, MaxSize
  <2> QED
    BY <2>1, <2>5
<1>5. NatOn(f, Inside(i, t)) /\ NatOn(g, Inside(i, t))
  BY <1>2, <1>4 DEF NatOn
<1> HIDE DEF f, g
<1>6. SumFunctionOnSet(f, Inside(i, t)) <= SumFunctionOnSet(g, Inside(i, t))
  BY <1>4, <1>5, SumMonotone
<1>7. SumFunctionOnSet(f, Inside(i, t)) \in Nat /\ SumFunctionOnSet(g, Inside(i, t)) \in Nat
  BY <1>5, SumNat
<1> QED
  BY <1>6, <1>7 DEF f, g, Total

(* Every JR of the finished text reaches the last line with its label, in  *)
(* the same section, whatever was rewritten in between.                    *)
THEOREM ShortJumpsReach == TextSpec => []JumpsReach
<1>1. TextInv => JumpsReach
  <2> SUFFICES ASSUME TextInv, line = Len(text) + 1, NEW i \in DOMAIN out, out[i].kind = "jr"
               PROVE  \E t \in LabelLines(out[i].to) :
                        LET bytes == SumFunctionOnSet([j \in DOMAIN out |-> RealSize(out[j])], Inside(i, t))
                        IN /\ SectionOf(t) = SectionOf(i)
                           /\ IF t > i THEN bytes <= JrRange - 1 ELSE bytes + 2 <= JrRange
    BY DEF JumpsReach
  <2>1. /\ DOMAIN text = 1 .. Len(text) /\ Len(text) \in Nat /\ JrRange \in Nat
        /\ DOMAIN out = DOMAIN text /\ i \in DOMAIN text
    BY RealText DEF TextInv
  <2>2. ProvablyInRange(i, text[i].to) /\ out[i].to = text[i].to
    BY <2>1 DEF TextInv
  <2> DEFINE t == Max(LabelLines(text[i].to))
             bytes == SumFunctionOnSet([j \in DOMAIN out |-> RealSize(out[j])], Inside(i, t))
  <2>3. t \in LabelLines(text[i].to) /\ t \in DOMAIN text
    <3>1. LabelLines(text[i].to) \in SUBSET (0 .. Len(text)) /\ LabelLines(text[i].to) # {}
      BY <2>1, <2>2 DEF ProvablyInRange, LabelLines
    <3> QED
      BY <2>1, <3>1, MaxIsGreatest DEF LabelLines
  <2>4. /\ SectionOf(t) = SectionOf(i) /\ \A j \in Inside(i, t) : ~Unknown(text[j])
        /\ Reaches(i, t)
    BY <2>2 DEF ProvablyInRange
  <2>5. bytes \in Nat /\ bytes <= Total(Inside(i, t)) /\ Total(Inside(i, t)) \in Nat
    BY <2>1, <2>3, <2>4, CountCovers
  <2>6. IF t > i THEN bytes <= JrRange - 1 ELSE bytes + 2 <= JrRange
    <3> HIDE DEF t, bytes
    <3> QED
      BY <2>1, <2>4, <2>5 DEF Reaches
  <2> QED
    BY <2>2, <2>3, <2>4, <2>6
<1> QED
  BY <1>1, TextInvInit, TextInvNext, PTL DEF TextSpec

-----------------------------------------------------------------------------
(* Banks.                                                                  *)
Hows == {"direct", "call", "read", "known", "known8"}
Refs == [from : Sections, to : Sections, how : Hows, load : Nat, heat : Nat]

Mirroring == {"mirror", "mirror again"}
Packing == {"bank8", "merge", "fit", "finish"}
Climbing == {"components", "climb", "refused"}

(* No reference that needs one bank leads out of the set.                  *)
Whole(C) == Closed(C, {r \in refs : Tight(r)})

(* A reference without a bank switch stays in its bank.                    *)
SameBank(r) == bank[r.from] = bank[r.to]

LayoutInv ==
  /\ layout \in Layouts /\ mode \in Modes
  /\ bank \in [Sections -> Nat] /\ refs \subseteq Refs
  /\ \/ phase \in Mirroring \cup Packing /\ mode # "climb" /\ bank = layout.bank
     \/ phase \in Climbing /\ mode = "climb" /\ IsEarly(layout) /\ refs = layout.refs
     \/ phase = "run"

RefsInv ==
  /\ \A r \in refs : Tight(r) => SameBank(r)
  /\ phase # "run" => \A r \in refs : Tight(r) => r.from \in Banked /\ r.to \in Banked
  /\ phase \notin Climbing => \A r \in refs : Known(r) => r.load \in {Symbol, bank[r.to]}

(* Clusters and bins are moved as a whole.                                 *)
WholeInv ==
  /\ clusters \in SUBSET SUBSET Sections /\ bins \in Seq(SUBSET Sections)
  /\ phase \in Mirroring \cup {"bank8", "components"} => clusters = {} /\ bins = <<>>
  /\ mode # "identity" /\ phase # "run" =>
       /\ \A C \in clusters : Whole(C)
       /\ \A i \in DOMAIN bins : Whole(bins[i])

PlaceInv ==
  /\ at \in Sections \cup {0}
  /\ phase # "run" => at = 0
  /\ at # 0 => mapped = bank[at]

(* Climbing moves disjoint sets of blocks, each in one bank, and there is  *)
(* no other block.                                                         *)
ClimbInv ==
  phase = "climb" =>
    /\ \A C \in clusters : C \in SUBSET Blocks /\ C # {} /\ \A s, t \in C : bank[s] = bank[t]
    /\ \A C, D \in clusters : C = D \/ C \cap D = {}
    /\ Blocks \subseteq UNION clusters

BanksInv == LayoutInv /\ RefsInv /\ WholeInv /\ PlaceInv /\ ClimbInv

LEMMA RealLayout ==
  ASSUME layout \in Layouts
  PROVE  /\ Sections = 1 .. Len(layout.kind) /\ Len(layout.kind) \in Nat
         /\ IsFiniteSet(Sections) /\ 0 \notin Sections
         /\ layout.size \in [Sections -> Nat] /\ layout.bank \in [Sections -> Nat]
         /\ layout.refs \subseteq Refs
         /\ layout.sites \subseteq [from : Sections, base : Nat, late : BOOLEAN]
         /\ \A s \in Sections : layout.bank[s] = 0 <=> s \notin Banked
         /\ \A x \in layout.sites : \E m \in Sections : Kind(m) = "mirror" /\ layout.bank[m] = layout.bank[x.from]
         /\ IsFiniteSet(layout.refs) /\ IsFiniteSet(layout.sites)
         /\ \A r \in layout.refs :
              /\ r.how \in {"direct", "call", "known"}
              /\ r.how \in {"direct", "call"} => layout.bank[r.from] = layout.bank[r.to]
              /\ r.how = "known" => r.load \in {Symbol, layout.bank[r.to]}
              /\ r.from \notin Banked => r.how = "known" /\ r.load = Symbol
<1> DEFINE secs == DOMAIN layout.kind
           given == [from : secs, to : secs, how : {"direct", "call", "known"}, load : Nat, heat : Nat]
<1>1. IsLayout(layout) /\ secs = Sections
  BY LayoutsAreReal DEF Sections
<1>2. /\ layout.kind \in Seq({"block", "entry", "leaf", "mirror", "rom0"})
      /\ layout.size \in [secs -> Nat] /\ layout.bank \in [secs -> Nat]
      /\ layout.refs \subseteq given
      /\ layout.sites \subseteq [from : secs, base : Nat, late : BOOLEAN]
      /\ \A s \in secs : layout.bank[s] = 0 <=> layout.kind[s] = "rom0"
      /\ \A x \in layout.sites : \E m \in secs : layout.kind[m] = "mirror" /\ layout.bank[m] = layout.bank[x.from]
      /\ IsFiniteSet(layout.refs) /\ IsFiniteSet(layout.sites)
      /\ \A r \in layout.refs :
           /\ r.how \in {"direct", "call"} => layout.bank[r.from] = layout.bank[r.to]
           /\ r.how = "known" => r.load \in {Symbol, layout.bank[r.to]}
           /\ layout.kind[r.from] = "rom0" => r.how = "known" /\ r.load = Symbol
  BY <1>1 DEF IsLayout
<1>3. secs = 1 .. Len(layout.kind) /\ Len(layout.kind) \in Nat /\ IsFiniteSet(secs) /\ 0 \notin secs
  <2>1. secs = 1 .. Len(layout.kind) /\ Len(layout.kind) \in Nat
    BY <1>2
  <2> QED
    BY <2>1, FS_Interval
<1>4. given \subseteq Refs
  BY <1>1 DEF Refs, Hows
<1>5. \A s \in Sections : s \notin Banked <=> layout.kind[s] = "rom0"
  BY DEF Banked, Kind
<1>6. \A r \in layout.refs : r.from \in secs /\ r.how \in {"direct", "call", "known"}
  BY <1>2
<1> HIDE DEF secs, given
<1> QED
  BY <1>1, <1>2, <1>3, <1>4, <1>5, <1>6 DEF Kind

LEMMA BanksInvInit ==
  ASSUME BanksInit
  PROVE  BanksInv
<1>1. layout \in Layouts /\ mode \in Modes /\ bank = layout.bank /\ refs = layout.refs
  BY DEF BanksInit
<1>2. LayoutInv
  BY <1>1, RealLayout DEF BanksInit, LayoutInv, Mirroring, Climbing
<1>3. \A r \in refs : Tight(r) => SameBank(r) /\ r.from \in Banked /\ r.to \in Banked
  <2> SUFFICES ASSUME NEW r \in refs, Tight(r) PROVE SameBank(r) /\ r.from \in Banked /\ r.to \in Banked
    OBVIOUS
  <2>1. r.from \in Sections /\ r.to \in Sections
    BY <1>1, RealLayout DEF Refs
  <2>2. layout.bank[r.from] = layout.bank[r.to] /\ r.from \in Banked
    BY <1>1, RealLayout DEF Tight, Known
  <2> QED
    BY <1>1, <2>1, <2>2, RealLayout DEF SameBank
<1>4. \A r \in refs : Known(r) => r.load \in {Symbol, bank[r.to]}
  BY <1>1, RealLayout DEF Known
<1> QED
  BY <1>2, <1>3, <1>4 DEF BanksInit, BanksInv, RefsInv, WholeInv, PlaceInv, ClimbInv

(* The tables a section reads are put in its own bank.                     *)
LEMMA MirrorKeeps ==
  ASSUME BanksInv, MirrorTables
  PROVE  BanksInv'
<1> DEFINE late == phase = "mirror again"
           all == [b \in DOMAIN tables |-> tables[b] \cup NewTables(b, late)]
           taken == {x \in layout.sites : x.late = late /\ x.base \in all[bank[x.from]]}
           reads == {[from |-> x.from, to |-> MirrorOf(bank[x.from]), how |-> "read",
                      load |-> x.base, heat |-> 0] : x \in taken}
<1>1. /\ refs' = refs \cup reads
      /\ UNCHANGED <<layout, mode, bank, clusters, bins, at, mapped>>
      /\ phase \in Mirroring /\ phase' \in {"mirror again", "bank8"}
  BY DEF MirrorTables, Mirror, Mirroring
<1>2. mode # "climb" /\ bank = layout.bank /\ layout \in Layouts /\ phase \notin Climbing /\ phase # "run"
  BY <1>1 DEF BanksInv, LayoutInv, Mirroring, Climbing
<1>3. ASSUME NEW r \in reads
      PROVE  r \in Refs /\ SameBank(r) /\ ~Known(r) /\ r.from \in Banked /\ r.to \in Banked
  <2>1. PICK x \in layout.sites :
          r = [from |-> x.from, to |-> MirrorOf(bank[x.from]), how |-> "read", load |-> x.base, heat |-> 0]
    BY <1>3
  <2>2. x.from \in Sections /\ x.base \in Nat
    BY <1>2, RealLayout
  <2>3. \E m \in Sections : Kind(m) = "mirror" /\ bank[m] = bank[x.from]
    BY <1>2, RealLayout
  <2>4. MirrorOf(bank[x.from]) \in Sections /\ Kind(MirrorOf(bank[x.from])) = "mirror"
        /\ bank[MirrorOf(bank[x.from])] = bank[x.from]
    BY <2>3 DEF MirrorOf
  <2>5. MirrorOf(bank[x.from]) \in Banked
    BY <2>4 DEF Banked
  <2>6. x.from \in Banked
    BY <1>2, <2>2, <2>4, <2>5, RealLayout
  <2>7. r.from = x.from /\ r.to = MirrorOf(bank[x.from]) /\ r.how = "read" /\ r.load = x.base /\ r.heat = 0
    BY <2>1
  <2>8. r \in Refs
    BY <2>1, <2>2, <2>4 DEF Refs, Hows
  <2> QED
    BY <2>4, <2>5, <2>6, <2>7, <2>8 DEF SameBank, Known
<1> HIDE DEF reads
<1>4. LayoutInv'
  BY <1>1, <1>2, <1>3 DEF BanksInv, LayoutInv, Refs, Sections, Mirroring, Packing
<1>5. RefsInv'
  BY <1>1, <1>2, <1>3 DEF BanksInv, RefsInv, Tight, Known, SameBank, Banked, Sections, Kind, Climbing
<1>6. WholeInv'
  <2>1. phase \in Mirroring \cup {"bank8", "components"}
    BY <1>1
  <2>2. clusters = {} /\ bins = <<>> /\ bins \in Seq(SUBSET Sections)
    BY <2>1 DEF BanksInv, WholeInv
  <2>3. DOMAIN bins = {}
    BY <2>2
  <2> QED
    BY <1>1, <2>2, <2>3 DEF WholeInv, Sections
<1>7. PlaceInv' /\ ClimbInv'
  BY <1>1, <1>2 DEF BanksInv, PlaceInv, ClimbInv, Sections
<1> QED
  BY <1>4, <1>5, <1>6, <1>7 DEF BanksInv

LEMMA ComponentsWhole ==
  ASSUME NEW S, NEW tied, NEW C \in Components(S, tied), NEW r \in tied, r.from \in S, r.to \in S
  PROVE  C \in SUBSET S /\ (r.from \in C <=> r.to \in C)
<1> DEFINE closed == {D \in SUBSET S : Closed(D, {t \in tied : {t.from, t.to} \subseteq S})}
<1>1. PICK s \in S : C = {x \in S : \A D \in closed : s \in D => x \in D}
  BY DEF Components
<1>2. \A D \in closed : r.from \in D <=> r.to \in D
  BY DEF Closed
<1> QED
  BY <1>1, <1>2

LEMMA ComponentsCover ==
  ASSUME NEW S, NEW tied, NEW s \in S
  PROVE  \E C \in Components(S, tied) : s \in C
<1> DEFINE closed == {C \in SUBSET S : Closed(C, {r \in tied : {r.from, r.to} \subseteq S})}
           around == {x \in S : \A C \in closed : s \in C => x \in C}
<1>1. around \in Components(S, tied)
  BY DEF Components
<1> QED
  BY <1>1

LEMMA UnitsWhole ==
  ASSUME BanksInv, phase = "bank8"
  PROVE  Units \in SUBSET SUBSET Sections /\ \A C \in Units : Whole(C)
<1>1. \A r \in refs : Tight(r) => SameBank(r) /\ r.from \in Banked /\ r.to \in Banked
  BY DEF BanksInv, RefsInv
<1>2. Banked \subseteq Sections
  BY DEF Banked
<1>3. CASE mode = "profile"
  <2>1. Units = Components(Banked, {r \in refs : Tight(r)})
    BY <1>3 DEF Units
  <2>2. \A C \in Units : C \in SUBSET Banked
    BY <2>1 DEF Components
  <2>3. ASSUME NEW C \in Units, NEW r \in {t \in refs : Tight(t)}
        PROVE  r.from \in C <=> r.to \in C
    BY <1>1, <2>1, ComponentsWhole
  <2> QED
    BY <1>2, <2>2, <2>3 DEF Whole, Closed
<1>4. CASE mode # "profile"
  <2>1. \A C \in Units : \E b : C = {s \in Banked : bank[s] = b}
    BY <1>4 DEF Units, OfOneBank
  <2> QED
    BY <1>1, <1>2, <2>1 DEF Whole, Closed, SameBank
<1> QED
  BY <1>3, <1>4

LEMMA SwitchKeeps ==
  ASSUME BanksInv, FastBankSwitch
  PROVE  BanksInv'
<1> DEFINE short(r) == IF r.how = "known" THEN [r EXCEPT !.how = "known8"] ELSE r
<1>1. /\ refs' = {short(r) : r \in refs} /\ clusters' = Units
      /\ phase = "bank8" /\ phase' = (IF mode = "identity" THEN "finish" ELSE "merge")
      /\ UNCHANGED <<layout, mode, bank, tables, bins, at, mapped>>
  BY DEF FastBankSwitch
<1>2. refs \subseteq Refs
  BY DEF BanksInv, LayoutInv
<1>3. ASSUME NEW r \in refs
      PROVE  /\ short(r) \in Refs /\ short(r).from = r.from /\ short(r).to = r.to
             /\ short(r).load = r.load /\ (Known(short(r)) <=> Known(r))
             /\ Tight(short(r)) => short(r) = r
  <2>1. r \in Refs
    BY <1>2
  <2> QED
    BY <2>1 DEF Refs, Hows, Known, Tight
<1>4. \A t \in refs' : \E r \in refs : t = short(r)
  BY <1>1
<1> HIDE DEF short
<1>5. LayoutInv'
  BY <1>1, <1>3, <1>4 DEF BanksInv, LayoutInv, Refs, Sections, Mirroring, Packing, Climbing
<1>6. \A t \in refs' : Tight(t) => t \in refs
  BY <1>3, <1>4 DEF Tight
<1>7. RefsInv'
  <2>1. \A t \in refs' : Known(t) => t.load \in {Symbol, bank[t.to]}
    BY <1>1, <1>3, <1>4 DEF BanksInv, RefsInv, Climbing
  <2> QED
    BY <1>1, <1>6, <2>1 DEF BanksInv, RefsInv, Tight, Known, SameBank, Banked, Sections, Kind, Climbing
<1>8. WholeInv'
  <2>1. Units \in SUBSET SUBSET Sections /\ \A C \in Units : Whole(C)
    BY <1>1, UnitsWhole
  <2>2. \A C : Whole(C) => Whole(C)'
    BY <1>6 DEF Whole, Closed, Tight, Known
  <2>3. bins = <<>> /\ bins \in Seq(SUBSET Sections) /\ DOMAIN bins = {}
    BY <1>1 DEF BanksInv, WholeInv
  <2> QED
    BY <1>1, <2>1, <2>2, <2>3 DEF WholeInv, Mirroring, Sections
<1>9. PlaceInv' /\ ClimbInv'
  BY <1>1 DEF BanksInv, PlaceInv, ClimbInv, Sections
<1> QED
  BY <1>5, <1>7, <1>8, <1>9 DEF BanksInv

LEMMA UnionWhole ==
  ASSUME NEW C, NEW D, Whole(C), Whole(D)
  PROVE  Whole(C \cup D)
BY DEF Whole, Closed

(* A cluster goes into a new bin, or one it fits in.                       *)
LEMMA FirstFitPlaces ==
  ASSUME FirstFit, bins \in Seq(SUBSET Sections)
  PROVE  \E C \in clusters :
           /\ clusters' = clusters \ {C}
           /\ \/ bins' = Append(bins, C)
              \/ \E i \in DOMAIN bins : /\ Size(bins[i]) + Size(C) <= Limit
                                        /\ bins' = [bins EXCEPT ![i] = @ \cup C]
<1> DEFINE roomy(C) == {i \in DOMAIN bins : Size(bins[i]) + Size(C) <= Limit}
<1>1. PICK C \in clusters :
        /\ clusters' = clusters \ {C}
        /\ bins' = IF roomy(C) = {} THEN Append(bins, C)
                   ELSE [bins EXCEPT ![Min(roomy(C))] = @ \cup C]
  BY DEF FirstFit
<1>2. CASE roomy(C) = {}
  BY <1>1, <1>2
<1>3. CASE roomy(C) # {}
  <2>1. roomy(C) \in SUBSET Nat
    OBVIOUS
  <2>2. Min(roomy(C)) \in roomy(C)
    BY <1>3, <2>1, MinIsLeast
  <2> QED
    BY <1>1, <1>3, <2>2
<1> QED
  BY <1>2, <1>3

LEMMA PackKeeps ==
  ASSUME BanksInv, Merge \/ MergeDone \/ FirstFit \/ FitDone
  PROVE  BanksInv'
<1>1. /\ UNCHANGED <<layout, mode, bank, refs, tables, at, mapped>>
      /\ phase \in {"merge", "fit"} /\ phase' \in {"merge", "fit", "finish"}
  BY DEF Merge, MergeDone, FirstFit, FitDone
<1>2. LayoutInv'
  BY <1>1 DEF BanksInv, LayoutInv, Refs, Sections, Mirroring, Packing, Climbing
<1>3. RefsInv'
  BY <1>1 DEF BanksInv, RefsInv, Tight, Known, SameBank, Banked, Sections, Kind, Climbing
<1>4. \A C : Whole(C)' = Whole(C)
  BY <1>1 DEF Whole, Closed, Tight, Known
<1>5. /\ clusters' \in SUBSET SUBSET Sections /\ bins' \in Seq(SUBSET Sections)
      /\ mode # "identity" => /\ \A C \in clusters' : Whole(C)
                              /\ \A i \in DOMAIN bins' : Whole(bins'[i])
  <2>0. /\ clusters \in SUBSET SUBSET Sections /\ bins \in Seq(SUBSET Sections)
        /\ mode # "identity" => /\ \A C \in clusters : Whole(C)
                                /\ \A i \in DOMAIN bins : Whole(bins[i])
    BY <1>1 DEF BanksInv, WholeInv
  <2>1. CASE Merge
    <3>1. PICK p \in Pairs : clusters' \subseteq clusters \cup {p[1] \cup p[2]} /\ bins' = bins
      BY <2>1 DEF Merge
    <3>2. p[1] \in clusters /\ p[2] \in clusters
      BY DEF Pairs
    <3> QED
      BY <2>0, <3>1, <3>2, UnionWhole
  <2>2. CASE FirstFit
    <3>1. PICK C \in clusters :
            /\ clusters' = clusters \ {C}
            /\ \/ bins' = Append(bins, C)
               \/ \E i \in DOMAIN bins : bins' = [bins EXCEPT ![i] = @ \cup C]
      BY <2>0, <2>2, FirstFitPlaces
    <3>2. CASE bins' = Append(bins, C)
      BY <2>0, <3>1, <3>2
    <3>3. ASSUME NEW i \in DOMAIN bins, bins' = [bins EXCEPT ![i] = @ \cup C]
          PROVE  /\ bins' \in Seq(SUBSET Sections)
                 /\ mode # "identity" => \A j \in DOMAIN bins' : Whole(bins'[j])
      BY <2>0, <3>1, <3>3, UnionWhole
    <3> QED
      BY <2>0, <3>1, <3>2, <3>3
  <2>3. CASE MergeDone \/ FitDone
    BY <2>0, <2>3 DEF MergeDone, FitDone
  <2> QED
    BY <2>1, <2>2, <2>3
<1>6. WholeInv'
  BY <1>1, <1>4, <1>5 DEF WholeInv, Mirroring, Sections
<1>7. PlaceInv' /\ ClimbInv'
  BY <1>1 DEF BanksInv, PlaceInv, ClimbInv, Sections
<1> QED
  BY <1>2, <1>3, <1>6, <1>7 DEF BanksInv

(* What is tied together gets one bank, and every other transfer loads the *)
(* bank of its target.                                                     *)
LEMMA TiedTogether ==
  ASSUME BanksInv, phase = "finish", NEW r \in refs, Tight(r)
  PROVE  NewBank(r.from) = NewBank(r.to)
<1>1. r.from \in Banked /\ r.to \in Banked /\ SameBank(r)
  BY DEF BanksInv, RefsInv
<1>2. CASE mode = "identity"
  BY <1>1, <1>2 DEF NewBank, SameBank
<1>3. CASE mode # "identity"
  <2>1. \A i \in DOMAIN bins : r.from \in bins[i] <=> r.to \in bins[i]
    BY <1>3 DEF BanksInv, WholeInv, Whole, Closed
  <2>2. {i \in DOMAIN bins : r.from \in bins[i]} = {i \in DOMAIN bins : r.to \in bins[i]}
    BY <2>1
  <2>3. Min({i \in DOMAIN bins : r.from \in bins[i]}) = Min({i \in DOMAIN bins : r.to \in bins[i]})
    BY <2>2, Zenon
  <2>4. Kind(r.from) # "rom0" /\ Kind(r.to) # "rom0"
    BY <1>1 DEF Banked
  <2> QED
    BY <1>3, <2>3, <2>4 DEF NewBank
<1> QED
  BY <1>2, <1>3

LEMMA FinishKeeps ==
  ASSUME BanksInv, Finish,
         bank' \in [Sections -> Nat]
  PROVE  BanksInv'
<1>1. /\ bank' = [s \in Sections |-> NewBank(s)] /\ refs' = {Rewritten(r) : r \in refs}
      /\ phase = "finish" /\ phase' = "run"
      /\ UNCHANGED <<layout, mode, tables, clusters, bins, at, mapped>>
  BY DEF Finish
<1>2. ASSUME NEW r \in refs
      PROVE  /\ Rewritten(r) \in Refs
             /\ Tight(Rewritten(r)) => bank'[Rewritten(r).from] = bank'[Rewritten(r).to]
             /\ Known(Rewritten(r)) => Rewritten(r).load = Symbol
  <2>1. r \in Refs /\ r.from \in Sections /\ r.to \in Sections
    BY DEF BanksInv, LayoutInv, Refs
  <2>2. NewBank(r.from) = NewBank(r.to) => bank'[r.from] = bank'[r.to]
    BY <1>1, <2>1
  <2>3. CASE ~Known(r)
    <3>1. Rewritten(r) = r /\ NewBank(r.from) = NewBank(r.to)
      BY <1>1, <2>3, TiedTogether DEF Rewritten, Tight
    <3> QED
      BY <2>1, <2>2, <2>3, <3>1 DEF Tight
  <2>4. CASE Known(r) /\ NewBank(r.from) = NewBank(r.to) /\ Rewritten(r) = [r EXCEPT !.how = "direct"]
    <3>1. /\ [r EXCEPT !.how = "direct"] \in Refs
          /\ [r EXCEPT !.how = "direct"].from = r.from /\ [r EXCEPT !.how = "direct"].to = r.to
          /\ [r EXCEPT !.how = "direct"].how = "direct"
      BY <2>1 DEF Refs, Hows
    <3>2. Rewritten(r) \in Refs /\ Rewritten(r).from = r.from /\ Rewritten(r).to = r.to
          /\ Rewritten(r).how = "direct"
      BY <2>4, <3>1, Zenon
    <3> QED
      BY <2>2, <2>4, <3>2 DEF Known, Tight
  <2>5. CASE Known(r) /\ Rewritten(r) = [r EXCEPT !.load = Symbol]
    <3>1. /\ [r EXCEPT !.load = Symbol] \in Refs /\ [r EXCEPT !.load = Symbol].load = Symbol
          /\ [r EXCEPT !.load = Symbol].how = r.how
      BY <2>1 DEF Refs, Symbol
    <3>2. Rewritten(r) \in Refs /\ Rewritten(r).load = Symbol /\ Rewritten(r).how = r.how
      BY <2>5, <3>1, Zenon
    <3> QED
      BY <2>5, <3>2 DEF Known, Tight
  <2> QED
    BY <2>3, <2>4, <2>5 DEF Rewritten
<1>3. \A t \in refs' : \E r \in refs : t = Rewritten(r)
  BY <1>1
<1>4. LayoutInv'
  BY <1>1, <1>2, <1>3 DEF BanksInv, LayoutInv, Refs, Sections
<1>5. RefsInv'
  <2>1. \A t \in refs' : /\ Tight(t) => bank'[t.from] = bank'[t.to]
                         /\ Known(t) => t.load = Symbol
    <3> SUFFICES ASSUME NEW t \in refs'
                 PROVE  /\ Tight(t) => bank'[t.from] = bank'[t.to]
                        /\ Known(t) => t.load = Symbol
      OBVIOUS
    <3>1. PICK r \in refs : t = Rewritten(r)
      BY <1>3
    <3> QED
      BY <1>2, <3>1
  <2> QED
    BY <1>1, <2>1 DEF RefsInv, Tight, Known, SameBank, Climbing
<1>6. WholeInv'
  BY <1>1 DEF BanksInv, WholeInv, Mirroring, Sections
<1>7. PlaceInv' /\ ClimbInv'
  BY <1>1 DEF BanksInv, PlaceInv, ClimbInv, Sections
<1> QED
  BY <1>4, <1>5, <1>6, <1>7 DEF BanksInv

-----------------------------------------------------------------------------
(* Climbing.                                                               *)

(* Of a symmetric relation, components are equal or disjoint.              *)
LEMMA ComponentsDisjoint ==
  ASSUME NEW S, NEW tied, NEW C \in Components(S, tied), NEW D \in Components(S, tied)
  PROVE  C # {} /\ (C = D \/ C \cap D = {})
<1> DEFINE tight == {t \in tied : {t.from, t.to} \subseteq S}
           closed == {E \in SUBSET S : Closed(E, tight)}
           around(s) == {x \in S : \A E \in closed : s \in E => x \in E}
<1>1. PICK s \in S : C = around(s)
  BY DEF Components
<1>2. PICK t \in S : D = around(t)
  BY DEF Components
<1>3. ASSUME NEW u \in S, NEW v \in S, NEW x \in around(u) \cap around(v)
      PROVE  around(u) \subseteq around(v)
  <2>1. u \in around(v)
    <3> SUFFICES ASSUME NEW E \in closed, v \in E, u \notin E PROVE FALSE
      OBVIOUS
    <3>1. S \ E \in closed
      BY DEF Closed
    <3>2. x \in E /\ x \in S \ E
      BY <1>3, <3>1
    <3> QED
      BY <3>2
  <2> QED
    BY <2>1
<1>4. s \in C
  BY <1>1
<1>5. C \cap D # {} => C \subseteq D /\ D \subseteq C
  BY <1>1, <1>2, <1>3
<1> QED
  BY <1>4, <1>5

(* A component lies in every closed set it meets.                          *)
LEMMA ComponentInClosed ==
  ASSUME NEW S, NEW tied, NEW C \in Components(S, tied), NEW E \in SUBSET S,
         \A t \in tied : t.from \in S /\ t.to \in S => (t.from \in E <=> t.to \in E)
  PROVE  C \subseteq E \/ C \cap E = {}
<1> DEFINE closed == {D \in SUBSET S : Closed(D, {t \in tied : {t.from, t.to} \subseteq S})}
<1>1. E \in closed /\ S \ E \in closed
  BY DEF Closed
<1>2. PICK s \in S : C = {x \in S : \A D \in closed : s \in D => x \in D}
  BY DEF Components
<1> QED
  BY <1>1, <1>2

LEMMA EarlySections ==
  ASSUME BanksInv, phase \in Climbing
  PROVE  /\ mode = "climb" /\ layout \in Layouts /\ refs = layout.refs
         /\ Blocks = Banked /\ Blocks \subseteq Sections
         /\ \A r \in refs : Tight(r) => r.how = "direct"
         /\ \A r \in refs : Known(r) /\ r.load # Symbol => r.from \in Blocks /\ r.to \in Blocks
<1>1. /\ mode = "climb" /\ IsEarly(layout) /\ refs = layout.refs /\ layout \in Layouts
  BY DEF BanksInv, LayoutInv, Mirroring, Packing, Climbing
<1>2. Blocks = Banked /\ Blocks \subseteq Sections
  BY <1>1 DEF Blocks, Banked, Kind, Sections, IsEarly
<1>3. ASSUME NEW r \in refs
      PROVE  /\ Tight(r) => r.how = "direct"
             /\ Known(r) /\ r.load # Symbol => r.from \in Blocks /\ r.to \in Blocks
  <2>1. IsLayout(layout)
    BY <1>1, LayoutsAreReal
  <2>2. r.how = "call" <=> layout.kind[r.to] = "leaf"
    BY <1>1, <2>1 DEF IsLayout
  <2>3. r.from \in Sections /\ r.to \in Sections
    BY <1>1, RealLayout DEF Refs
  <2>4. layout.kind[r.to] # "leaf"
    BY <1>1, <2>3 DEF IsEarly, Sections
  <2>5. r.how \in {"direct", "call", "known"}
    BY <1>1, RealLayout
  <2>6. Known(r) /\ r.load # Symbol => layout.bank[r.to] # 0 /\ r.from \in Banked
    BY <1>1, <2>5, RealLayout DEF Known, Symbol
  <2> QED
    BY <1>1, <1>2, <2>2, <2>3, <2>4, <2>5, <2>6, RealLayout DEF Tight, Known
<1> QED
  BY <1>1, <1>2, <1>3

LEMMA StartKeeps ==
  ASSUME BanksInv, StartClimb
  PROVE  BanksInv'
<1>1. /\ phase = "components" /\ phase' \in {"refused", "climb"} /\ clusters' = BlockUnits
      /\ UNCHANGED <<layout, mode, bank, refs, tables, bins, at, mapped>>
  BY DEF StartClimb
<1>2. /\ mode = "climb" /\ Blocks = Banked /\ Blocks \subseteq Sections
      /\ \A r \in refs : Tight(r) => r.how = "direct" /\ SameBank(r) /\ r.from \in Blocks /\ r.to \in Blocks
  <2>1. phase \in Climbing /\ phase # "run"
    BY <1>1 DEF Climbing
  <2> QED
    BY <2>1, EarlySections DEF BanksInv, RefsInv
<1> DEFINE tied == {r \in refs : r.how = "direct" /\ {r.from, r.to} \subseteq Blocks}
<1>3. BlockUnits = Components(Blocks, tied)
  BY DEF BlockUnits
<1>4. ASSUME NEW C \in BlockUnits
      PROVE  C \in SUBSET Blocks /\ Whole(C) /\ \A s, t \in C : bank[s] = bank[t]
  <2>1. C \in SUBSET Blocks
    BY <1>3 DEF Components
  <2>2. \A r \in tied : r.from \in C <=> r.to \in C
    BY <1>3, ComponentsWhole
  <2>3. Whole(C)
    BY <1>2, <2>2 DEF Whole, Closed
  <2>4. ASSUME NEW s \in C, NEW t \in C PROVE bank[s] = bank[t]
    <3> DEFINE E == {x \in Blocks : bank[x] = bank[s]}
    <3>1. ASSUME NEW r \in tied PROVE r.from \in E <=> r.to \in E
      <4>1. r \in refs /\ r.how = "direct"
        OBVIOUS
      <4>2. SameBank(r) /\ r.from \in Blocks /\ r.to \in Blocks
        BY <1>2, <4>1 DEF Tight, Known
      <4> QED
        BY <4>2 DEF SameBank
    <3>2. s \in E /\ E \in SUBSET Blocks /\ C \in Components(Blocks, tied)
      BY <1>3, <2>1
    <3> HIDE DEF E, tied
    <3>3. C \subseteq E \/ C \cap E = {}
      BY <3>1, <3>2, ComponentInClosed
    <3>4. t \in E
      BY <3>2, <3>3
    <3> QED
      BY <3>4 DEF E
  <2> QED
    BY <2>1, <2>3, <2>4
<1>5. /\ \A C, D \in BlockUnits : C # {} /\ (C = D \/ C \cap D = {})
      /\ \A s \in Blocks : \E C \in BlockUnits : s \in C
  <2> HIDE DEF tied
  <2> QED
    BY <1>3, ComponentsDisjoint, ComponentsCover
<1>6. LayoutInv'
  BY <1>1 DEF BanksInv, LayoutInv, Refs, Sections, Mirroring, Packing, Climbing
<1>7. RefsInv'
  BY <1>1 DEF BanksInv, RefsInv, Tight, Known, SameBank, Banked, Sections, Kind, Climbing
<1>8. WholeInv'
  <2>1. bins = <<>> /\ bins \in Seq(SUBSET Sections)
    BY <1>1 DEF BanksInv, WholeInv
  <2>2. DOMAIN bins = {}
    BY <2>1
  <2>3. \A C : Whole(C)' = Whole(C)
    BY <1>1 DEF Whole, Closed, Tight, Known
  <2>4. BlockUnits \in SUBSET SUBSET Sections
    BY <1>2, <1>4
  <2> QED
    BY <1>1, <1>4, <2>1, <2>2, <2>3, <2>4 DEF WholeInv, Mirroring, Sections
<1>9. PlaceInv' /\ ClimbInv'
  BY <1>1, <1>4, <1>5 DEF BanksInv, PlaceInv, ClimbInv, Sections, Blocks, Kind
<1> QED
  BY <1>6, <1>7, <1>8, <1>9 DEF BanksInv

LEMMA ClimbMoves ==
  ASSUME Climb
  PROVE  \/ \E m \in Moves : /\ MoveGain(m[1], m[2]) > 0
                            /\ bank' = [s \in Sections |-> IF s \in m[1] THEN m[2] ELSE bank[s]]
         \/ \E p \in Swaps :
              /\ SwapGain(p[1], p[2]) > 0
              /\ bank' = [s \in Sections |-> IF s \in p[1] THEN BankOfUnit(p[2])
                                            ELSE IF s \in p[2] THEN BankOfUnit(p[1]) ELSE bank[s]]
<1> DEFINE moved(m) == [s \in m[1] |-> m[2]]
           swapped(p) == [s \in p[1] \cup p[2] |-> IF s \in p[1] THEN BankOfUnit(p[2]) ELSE BankOfUnit(p[1])]
           move(m) == [gain |-> MoveGain(m[1], m[2]), swap |-> FALSE, size |-> Size(m[1]), to |-> moved(m)]
           change(p) == [gain |-> SwapGain(p[1], p[2]), swap |-> TRUE, size |-> Size(p[1] \cup p[2]),
                         to |-> swapped(p)]
<1>1. PICK x \in BestSteps : bank' = [s \in Sections |-> IF s \in DOMAIN x.to THEN x.to[s] ELSE bank[s]]
  BY DEF Climb
<1>2. x.gain > 0 /\ ((\E m \in Moves : x = move(m)) \/ (\E p \in Swaps : x = change(p)))
  BY DEF BestSteps, Steps
<1>3. ASSUME NEW m \in Moves, x = move(m)
      PROVE  /\ MoveGain(m[1], m[2]) > 0
             /\ bank' = [s \in Sections |-> IF s \in m[1] THEN m[2] ELSE bank[s]]
  <2>1. x.to = moved(m) /\ x.gain = MoveGain(m[1], m[2])
    <3> HIDE DEF moved
    <3> QED
      BY <1>3
  <2> QED
    BY <1>1, <1>2, <2>1
<1>4. ASSUME NEW p \in Swaps, x = change(p)
      PROVE  /\ SwapGain(p[1], p[2]) > 0
             /\ bank' = [s \in Sections |-> IF s \in p[1] THEN BankOfUnit(p[2])
                                           ELSE IF s \in p[2] THEN BankOfUnit(p[1]) ELSE bank[s]]
  <2>1. x.to = swapped(p) /\ x.gain = SwapGain(p[1], p[2])
    <3> HIDE DEF swapped
    <3> QED
      BY <1>4
  <2> QED
    BY <1>1, <1>2, <2>1
<1> HIDE DEF move, change
<1> QED
  BY <1>2, <1>3, <1>4

(* The bank of a cluster is the bank of all its blocks.                    *)
LEMMA UnitBank ==
  ASSUME BanksInv, phase = "climb", NEW C \in clusters
  PROVE  /\ BankOfUnit(C) \in BlockBanks /\ BankOfUnit(C) \in Nat
         /\ \A s \in C : bank[s] = BankOfUnit(C)
<1>1. C \in SUBSET Blocks /\ C # {} /\ \A s, t \in C : bank[s] = bank[t]
  BY DEF BanksInv, ClimbInv
<1>2. (CHOOSE s \in C : TRUE) \in C
  BY <1>1
<1>3. Blocks \subseteq Sections /\ bank \in [Sections -> Nat]
  BY DEF BanksInv, LayoutInv, Blocks
<1> QED
  BY <1>1, <1>2, <1>3 DEF BankOfUnit, BlockBanks

(* A cluster is moved as a whole, so what is tied to it moves with it.     *)
LEMMA ClimbKeeps ==
  ASSUME BanksInv, Climb
  PROVE  BanksInv'
<1>1. phase = "climb" /\ UNCHANGED <<layout, mode, phase, refs, tables, clusters, bins, at, mapped>>
  BY DEF Climb
<1>2. phase \in Climbing /\ phase # "run" /\ mode # "identity"
  BY <1>1 DEF BanksInv, LayoutInv, Mirroring, Packing, Climbing
<1>3. /\ \A C \in clusters : C \in SUBSET Blocks /\ C # {} /\ \A s, t \in C : bank[s] = bank[t]
      /\ \A C, D \in clusters : C = D \/ C \cap D = {}
      /\ Blocks \subseteq UNION clusters
      /\ Blocks \subseteq Sections /\ bank \in [Sections -> Nat] /\ refs \subseteq Refs
  BY <1>1 DEF BanksInv, ClimbInv, LayoutInv, Blocks
<1>4. \A C \in clusters, r \in refs : Tight(r) => (r.from \in C <=> r.to \in C)
  BY <1>2 DEF BanksInv, WholeInv, Whole, Closed
<1>5. \A r \in refs : Tight(r) => bank[r.from] = bank[r.to]
  BY DEF BanksInv, RefsInv, SameBank
<1>6. \A r \in refs : r.from \in Sections /\ r.to \in Sections
  BY <1>3 DEF Refs
<1>7. /\ bank' \in [Sections -> Nat]
      /\ \A r \in refs : Tight(r) => bank'[r.from] = bank'[r.to]
      /\ \A C \in clusters : \A s, t \in C : bank'[s] = bank'[t]
  <2>1. ASSUME NEW m \in Moves, bank' = [s \in Sections |-> IF s \in m[1] THEN m[2] ELSE bank[s]]
        PROVE  <1>7!:
    <3>1. m[1] \in clusters /\ m[2] \in Nat
      BY <1>3 DEF Moves, BlockBanks
    <3> QED
      BY <1>3, <1>4, <1>5, <1>6, <2>1, <3>1
  <2>2. ASSUME NEW p \in Swaps,
               bank' = [s \in Sections |-> IF s \in p[1] THEN BankOfUnit(p[2])
                                          ELSE IF s \in p[2] THEN BankOfUnit(p[1]) ELSE bank[s]]
        PROVE  <1>7!:
    <3>1. p[1] \in clusters /\ p[2] \in clusters
      BY DEF Swaps
    <3>2. BankOfUnit(p[1]) \in Nat /\ BankOfUnit(p[2]) \in Nat
      BY <1>1, <3>1, UnitBank
    <3> QED
      BY <1>3, <1>4, <1>5, <1>6, <2>2, <3>1, <3>2
  <2> QED
    BY <2>1, <2>2, ClimbMoves
<1>8. LayoutInv'
  BY <1>1, <1>7 DEF BanksInv, LayoutInv, Refs, Sections, Mirroring, Packing, Climbing
<1>9. RefsInv'
  BY <1>1, <1>2, <1>7 DEF BanksInv, RefsInv, Tight, Known, SameBank, Banked, Sections, Kind, Climbing
<1>10. WholeInv'
  <2>1. \A C : Whole(C)' = Whole(C)
    BY <1>1 DEF Whole, Closed, Tight, Known
  <2> QED
    BY <1>1, <2>1 DEF BanksInv, WholeInv, Mirroring, Sections
<1>11. PlaceInv' /\ ClimbInv'
  BY <1>1, <1>3, <1>7 DEF BanksInv, PlaceInv, ClimbInv, Sections, Blocks, Kind
<1> QED
  BY <1>8, <1>9, <1>10, <1>11 DEF BanksInv

(* The bank that is loaded is the one the target has climbed to.           *)
LEMMA ClimbDoneKeeps ==
  ASSUME BanksInv, ClimbDone
  PROVE  BanksInv'
<1>1. /\ phase = "climb" /\ phase' = "run" /\ refs' = {Retargeted(r) : r \in refs}
      /\ UNCHANGED <<layout, mode, bank, tables, clusters, bins, at, mapped>>
  BY DEF ClimbDone
<1>2. ASSUME NEW r \in refs
      PROVE  /\ Retargeted(r) \in Refs
             /\ Tight(Retargeted(r)) => SameBank(Retargeted(r))
             /\ Known(Retargeted(r)) => Retargeted(r).load \in {Symbol, bank[Retargeted(r).to]}
  <2>1. r \in Refs /\ r.from \in Sections /\ r.to \in Sections /\ bank[r.to] \in Nat
    BY DEF BanksInv, LayoutInv, Refs
  <2>2. Tight(r) => SameBank(r)
    BY DEF BanksInv, RefsInv
  <2>3. Known(r) /\ r.load # Symbol => {r.from, r.to} \subseteq Blocks
    BY <1>1, EarlySections DEF Climbing
  <2>4. CASE Retargeted(r) = r /\ (Tight(r) \/ r.load = Symbol)
    BY <2>1, <2>2, <2>4 DEF Tight
  <2>5. CASE bank[r.from] = bank[r.to] /\ Retargeted(r) = [r EXCEPT !.how = "direct"]
    <3>1. /\ [r EXCEPT !.how = "direct"] \in Refs
          /\ [r EXCEPT !.how = "direct"].from = r.from /\ [r EXCEPT !.how = "direct"].to = r.to
          /\ [r EXCEPT !.how = "direct"].how = "direct"
      BY <2>1 DEF Refs, Hows
    <3>2. Retargeted(r) \in Refs /\ Retargeted(r).from = r.from /\ Retargeted(r).to = r.to
          /\ Retargeted(r).how = "direct"
      BY <2>5, <3>1, Zenon
    <3> QED
      BY <2>5, <3>2 DEF Known, SameBank
  <2>6. CASE Known(r) /\ Retargeted(r) = [r EXCEPT !.load = bank[r.to]]
    <3>1. /\ [r EXCEPT !.load = bank[r.to]] \in Refs
          /\ [r EXCEPT !.load = bank[r.to]].load = bank[r.to]
          /\ [r EXCEPT !.load = bank[r.to]].to = r.to
          /\ [r EXCEPT !.load = bank[r.to]].how = r.how
      BY <2>1 DEF Refs
    <3>2. Retargeted(r) \in Refs /\ Retargeted(r).load = bank[r.to] /\ Retargeted(r).to = r.to
          /\ Retargeted(r).how = r.how
      BY <2>6, <3>1, Zenon
    <3> QED
      BY <2>6, <3>2 DEF Known, Tight
  <2> QED
    BY <2>3, <2>4, <2>5, <2>6 DEF Retargeted, Tight
<1>3. \A t \in refs' : \E r \in refs : t = Retargeted(r)
  BY <1>1
<1>4. \A t \in refs' : /\ t \in Refs /\ (Tight(t) => SameBank(t))
                       /\ Known(t) => t.load \in {Symbol, bank[t.to]}
  <2> SUFFICES ASSUME NEW t \in refs'
               PROVE  /\ t \in Refs /\ (Tight(t) => SameBank(t))
                      /\ Known(t) => t.load \in {Symbol, bank[t.to]}
    OBVIOUS
  <2>1. PICK r \in refs : t = Retargeted(r)
    BY <1>3
  <2> QED
    BY <1>2, <2>1
<1>5. LayoutInv'
  BY <1>1, <1>4 DEF BanksInv, LayoutInv, Refs, Sections
<1>6. RefsInv'
  BY <1>1, <1>4 DEF RefsInv, Tight, Known, SameBank, Climbing
<1>7. WholeInv'
  BY <1>1 DEF BanksInv, WholeInv, Mirroring, Sections
<1>8. PlaceInv' /\ ClimbInv'
  BY <1>1 DEF BanksInv, PlaceInv, ClimbInv, Sections
<1> QED
  BY <1>5, <1>6, <1>7, <1>8 DEF BanksInv

-----------------------------------------------------------------------------
(* Execution.                                                              *)
LEMMA RunKeeps ==
  ASSUME BanksInv, Dispatch \/ Follow
  PROVE  BanksInv'
<1>1. phase = "run" /\ UNCHANGED <<layout, mode, phase, bank, refs, tables, clusters, bins>>
  BY DEF Dispatch, Follow
<1>2. at' \in Sections /\ mapped' = bank[at']
  <2>1. CASE Dispatch
    BY <2>1 DEF Dispatch
  <2>2. CASE Follow
    <3>1. at # 0
      BY <2>2 DEF Follow
    <3>2. PICK r \in refs :
            /\ r.from = at /\ at' = r.to
            /\ mapped' = IF Tight(r) THEN mapped ELSE IF r.load = Symbol THEN bank[r.to] ELSE r.load
      BY <2>2 DEF Follow
    <3>3. r.to \in Sections /\ mapped = bank[at]
      BY <3>1 DEF BanksInv, LayoutInv, Refs, PlaceInv
    <3>4. (Tight(r) => SameBank(r)) /\ (Known(r) => r.load \in {Symbol, bank[r.to]})
      BY <1>1 DEF BanksInv, RefsInv, Climbing
    <3> QED
      BY <3>2, <3>3, <3>4 DEF Tight, SameBank
  <2> QED
    BY <2>1, <2>2
<1>3. LayoutInv' /\ RefsInv'
  BY <1>1 DEF BanksInv, LayoutInv, RefsInv, Refs, Tight, Known, SameBank, Banked, Sections, Kind
<1>4. WholeInv'
  BY <1>1 DEF BanksInv, WholeInv, Mirroring, Sections
<1>5. PlaceInv' /\ ClimbInv'
  BY <1>1, <1>2 DEF BanksInv, PlaceInv, ClimbInv, Sections
<1> QED
  BY <1>3, <1>4, <1>5 DEF BanksInv

-----------------------------------------------------------------------------
(* How much lies in a bank.                                                *)

(* What the limit allows, or a part of an old bank.                        *)
SmallEnough(C) == Size(C) <= Limit \/ \E b : \A s \in C : layout.bank[s] = b

TablesInv ==
  /\ DOMAIN tables = {layout.bank[s] : s \in Banked}
  /\ \A b \in DOMAIN tables : IsFiniteSet(tables[b])

(* Nothing is lost on the way from the clusters to the bins.               *)
PackedInv ==
  mode # "identity" /\ phase \in {"merge", "fit", "finish"} =>
    /\ \A C \in clusters : SmallEnough(C)
    /\ \A i \in DOMAIN bins : SmallEnough(bins[i])
    /\ \A s \in Banked : (\E C \in clusters : s \in C) \/ (\E i \in DOMAIN bins : s \in bins[i])
    /\ phase = "finish" => clusters = {}

FilledInv == phase = "climb" => \A b \in BlockBanks : Used(b) <= Limit

FitInv == TablesInv /\ PackedInv /\ FilledInv /\ BanksFit

SizeOf ==
  [s \in Sections |-> IF Kind(s) = "mirror"
                      THEN IF tables[layout.bank[s]] = {} THEN 0 ELSE 1 + Cardinality(tables[layout.bank[s]])
                      ELSE layout.size[s]]

LEMMA Sizes ==
  ASSUME layout \in Layouts, TablesInv
  PROVE  /\ Limit \in Nat
         /\ \A C \in SUBSET Sections : NatOn(SizeOf, C) /\ Size(C) \in Nat
                                      /\ Size(C) = SumFunctionOnSet(SizeOf, C)
<1>1. IsFiniteSet(Sections) /\ layout.size \in [Sections -> Nat]
  BY RealLayout
<1>2. ASSUME NEW s \in Sections PROVE SizeOf[s] \in Nat
  <2>1. CASE Kind(s) = "mirror"
    <3>1. layout.bank[s] \in DOMAIN tables
      BY <2>1 DEF TablesInv, Banked
    <3>2. Cardinality(tables[layout.bank[s]]) \in Nat
      BY <3>1, FS_CardinalityType DEF TablesInv
    <3> QED
      BY <2>1, <3>2 DEF SizeOf
  <2> QED
    BY <1>1, <2>1 DEF SizeOf
<1>3. \A C \in SUBSET Sections : NatOn(SizeOf, C)
  BY <1>1, <1>2, FS_Subset DEF NatOn
<1>4. \A C : Size(C) = SumFunctionOnSet(SizeOf, C)
  BY DEF Size, SizeOf
<1> QED
  BY <1>3, <1>4, SumNat, LayoutsAreReal

LEMMA SizesOfParts ==
  ASSUME layout \in Layouts, TablesInv, NEW C \in SUBSET Sections, NEW D \in SUBSET Sections
  PROVE  /\ Size(C \cup D) <= Size(C) + Size(D)
         /\ C \subseteq D => Size(C) <= Size(D) /\ Size(D \ C) = Size(D) - Size(C)
<1>1. /\ NatOn(SizeOf, C) /\ NatOn(SizeOf, D)
      /\ Size(C) = SumFunctionOnSet(SizeOf, C) /\ Size(D) = SumFunctionOnSet(SizeOf, D)
      /\ Size(C \cup D) = SumFunctionOnSet(SizeOf, C \cup D)
      /\ Size(D \ C) = SumFunctionOnSet(SizeOf, D \ C)
  <2>1. C \cup D \in SUBSET Sections /\ D \ C \in SUBSET Sections
    OBVIOUS
  <2> QED
    BY <2>1, Sizes
<1> QED
  BY <1>1, SumCover, SumSubset

LEMMA FitInvInit ==
  ASSUME BanksInit
  PROVE  FitInv
<1>1. phase \in {"components", "mirror"}
  BY DEF BanksInit
<1>2. TablesInv
  BY FS_EmptySet DEF BanksInit, TablesInv
<1> QED
  BY <1>1, <1>2 DEF FitInv, PackedInv, FilledInv, BanksFit

(* A unit lies within one old bank, and no section is in none.             *)
LEMMA UnitsFit ==
  ASSUME BanksInv, phase = "bank8"
  PROVE  /\ \A C \in Units : SmallEnough(C)
         /\ \A s \in Banked : \E C \in Units : s \in C
<1>1. bank = layout.bank
  BY DEF BanksInv, LayoutInv, Climbing
<1>2. CASE mode = "profile"
  <2> DEFINE tied == {r \in refs : Tight(r)}
  <2>1. Units = Components(Banked, tied)
    BY <1>2 DEF Units
  <2>2. ASSUME NEW C \in Units PROVE SmallEnough(C)
    <3>1. PICK s \in Banked : C = {x \in Banked : \A D \in {E \in SUBSET Banked :
                                     Closed(E, {r \in tied : {r.from, r.to} \subseteq Banked})} : s \in D => x \in D}
      BY <2>1 DEF Components
    <3>2. s \in C /\ C \in SUBSET Banked
      BY <3>1
    <3> DEFINE E == {x \in Banked : bank[x] = bank[s]}
    <3>3. \A r \in tied : r.from \in Banked /\ r.to \in Banked => (r.from \in E <=> r.to \in E)
      BY DEF BanksInv, RefsInv, SameBank
    <3>4. s \in E /\ E \in SUBSET Banked /\ C \in Components(Banked, tied)
      BY <2>1, <3>2
    <3> HIDE DEF E, tied
    <3>5. C \subseteq E
      BY <3>2, <3>3, <3>4, ComponentInClosed
    <3>6. \A x \in C : layout.bank[x] = bank[s]
      BY <1>1, <3>5 DEF E
    <3> QED
      BY <3>6 DEF SmallEnough
  <2>3. ASSUME NEW s \in Banked PROVE \E C \in Units : s \in C
    BY <2>1, ComponentsCover
  <2> QED
    BY <2>2, <2>3
<1>3. CASE mode # "profile"
  <2>1. Units = {{s \in Banked : bank[s] = b} : b \in OldBanks}
    BY <1>3 DEF Units, OfOneBank
  <2>2. ASSUME NEW C \in Units PROVE SmallEnough(C)
    BY <1>1, <2>1 DEF SmallEnough
  <2>3. ASSUME NEW s \in Banked PROVE \E C \in Units : s \in C
    <3> DEFINE C == {x \in Banked : bank[x] = bank[s]}
    <3>1. bank[s] \in OldBanks
      BY DEF OldBanks
    <3>2. C \in Units /\ s \in C
      BY <2>1, <3>1
    <3> QED
      BY <3>2
  <2> QED
    BY <2>2, <2>3
<1> QED
  BY <1>2, <1>3

(* Sizes depend on the layout and the mirrored tables alone.               *)
LEMMA SizesStay ==
  ASSUME UNCHANGED <<layout, tables>>
  PROVE  /\ \A C : Size(C)' = Size(C) /\ SmallEnough(C)' = SmallEnough(C)
         /\ Banked' = Banked /\ Blocks' = Blocks /\ TablesInv' = TablesInv
<1>1. \A C : Size(C)' = Size(C)
  BY DEF Size, Sections, Kind
<1>2. \A C : SmallEnough(C)' = SmallEnough(C)
  BY <1>1 DEF SmallEnough
<1> QED
  BY <1>1, <1>2 DEF Banked, Blocks, TablesInv, Sections, Kind

LEMMA FitSame ==
  ASSUME FitInv, UNCHANGED <<layout, mode, phase, bank, tables, clusters, bins>>
  PROVE  FitInv'
<1>1. PackedInv'
  BY SizesStay DEF FitInv, PackedInv
<1>2. FilledInv'
  <2>1. \A b : Used(b)' = Used(b)
    BY SizesStay DEF Used
  <2> QED
    BY <2>1, SizesStay DEF FitInv, FilledInv, BlockBanks
<1>3. BanksFit'
  <2>1. /\ Banked' = Banked /\ OldBanks' = OldBanks /\ bank' = bank /\ mode' = mode /\ phase' = phase
        /\ layout' = layout /\ \A C : Size(C)' = Size(C)
    BY SizesStay DEF OldBanks
  <2>2. BanksFit
    BY DEF FitInv
  <2> QED
    BY <2>1, <2>2 DEF BanksFit
<1> QED
  BY <1>1, <1>2, <1>3, SizesStay DEF FitInv

LEMMA FitMirror ==
  ASSUME BanksInv, FitInv, MirrorTables
  PROVE  FitInv'
<1> DEFINE late == phase = "mirror again"
<1>1. /\ tables' = [b \in DOMAIN tables |-> tables[b] \cup NewTables(b, late)]
      /\ UNCHANGED <<layout, mode, bank, clusters, bins, at, mapped>>
      /\ phase' \in {"mirror again", "bank8"}
  BY DEF MirrorTables, Mirror
<1>2. IsFiniteSet(layout.sites)
  BY RealLayout DEF BanksInv, LayoutInv
<1>3. ASSUME NEW b PROVE IsFiniteSet(NewTables(b, late))
  <2> DEFINE based == [x \in SitesOf(b, late) |-> x.base]
  <2>1. IsFiniteSet(SitesOf(b, late))
    BY <1>2, FS_Subset DEF SitesOf
  <2>2. based \in Surjection(SitesOf(b, late), BasesOf(b, late))
    BY DEF Surjection, BasesOf
  <2>3. IsFiniteSet(BasesOf(b, late))
    BY <2>1, <2>2, FS_Surjection
  <2>4. NewTables(b, late) \subseteq BasesOf(b, late)
    BY DEF NewTables
  <2> QED
    BY <2>3, <2>4, FS_Subset
<1>4. TablesInv'
  <2>1. \A b \in DOMAIN tables : IsFiniteSet(tables[b] \cup NewTables(b, late))
    BY <1>3, FS_Union DEF FitInv, TablesInv
  <2> HIDE DEF late
  <2> QED
    BY <1>1, <2>1 DEF FitInv, TablesInv, Banked, Sections, Kind
<1> QED
  BY <1>1, <1>4 DEF FitInv, PackedInv, FilledInv, BanksFit

LEMMA FitSwitch ==
  ASSUME BanksInv, FitInv, FastBankSwitch
  PROVE  FitInv'
<1>1. /\ clusters' = Units /\ phase = "bank8" /\ phase' = (IF mode = "identity" THEN "finish" ELSE "merge")
      /\ UNCHANGED <<layout, mode, bank, tables, bins, at, mapped>>
  BY DEF FastBankSwitch
<1>2. DOMAIN bins = {}
  <2>1. bins = <<>>
    BY <1>1 DEF BanksInv, WholeInv
  <2> QED
    BY <2>1
<1>3. PackedInv'
  BY <1>1, <1>2, UnitsFit, SizesStay DEF PackedInv
<1> QED
  BY <1>1, <1>3, SizesStay DEF FitInv, FilledInv, BanksFit

LEMMA FitPack ==
  ASSUME BanksInv, FitInv, Merge \/ MergeDone \/ FirstFit \/ FitDone
  PROVE  FitInv'
<1>1. /\ UNCHANGED <<layout, mode, bank, refs, tables, at, mapped>>
      /\ phase \in {"merge", "fit"} /\ phase' \in {"merge", "fit", "finish"}
  BY DEF Merge, MergeDone, FirstFit, FitDone
<1>2. /\ layout \in Layouts /\ TablesInv
      /\ clusters \in SUBSET SUBSET Sections /\ bins \in Seq(SUBSET Sections)
  BY DEF BanksInv, LayoutInv, WholeInv, FitInv
<1>3. PackedInv'
  <2> SUFFICES ASSUME mode # "identity"
               PROVE  /\ \A C \in clusters' : SmallEnough(C)
                      /\ \A i \in DOMAIN bins' : SmallEnough(bins'[i])
                      /\ \A s \in Banked : \/ \E C \in clusters' : s \in C
                                           \/ \E i \in DOMAIN bins' : s \in bins'[i]
                      /\ phase' = "finish" => clusters' = {}
    BY <1>1, SizesStay DEF PackedInv
  <2>1. /\ \A C \in clusters : SmallEnough(C)
        /\ \A i \in DOMAIN bins : SmallEnough(bins[i])
        /\ \A s \in Banked : (\E C \in clusters : s \in C) \/ (\E i \in DOMAIN bins : s \in bins[i])
    BY <1>1 DEF FitInv, PackedInv
  <2>2. ASSUME NEW C \in SUBSET Sections, NEW D \in SUBSET Sections, Size(C) + Size(D) <= Limit
        PROVE  SmallEnough(C \cup D)
    <3>1. Size(C \cup D) <= Size(C) + Size(D)
      BY <1>2, SizesOfParts
    <3>2. Size(C) \in Nat /\ Size(D) \in Nat /\ Size(C \cup D) \in Nat /\ Limit \in Nat
      <4>1. C \cup D \in SUBSET Sections
        OBVIOUS
      <4> QED
        BY <1>2, <4>1, Sizes
    <3> QED
      BY <2>2, <3>1, <3>2 DEF SmallEnough
  <2>3. CASE Merge
    <3>1. PICK p \in Pairs : clusters' = (clusters \ {p[1], p[2]}) \cup {p[1] \cup p[2]}
      BY <2>3 DEF Merge
    <3>2. p[1] \in clusters /\ p[2] \in clusters /\ Size(p[1]) + Size(p[2]) <= Limit
      BY DEF Pairs, Fits
    <3>3. SmallEnough(p[1] \cup p[2])
      BY <1>2, <2>2, <3>2
    <3>4. \A C \in clusters : \E D \in clusters' : C \subseteq D
      BY <3>1
    <3>5. bins' = bins /\ phase' # "finish"
      BY <2>3 DEF Merge
    <3> QED
      BY <2>1, <3>1, <3>3, <3>4, <3>5
  <2>4. CASE FirstFit
    <3>1. PICK C \in clusters :
            /\ clusters' = clusters \ {C}
            /\ \/ bins' = Append(bins, C)
               \/ \E i \in DOMAIN bins : /\ Size(bins[i]) + Size(C) <= Limit
                                         /\ bins' = [bins EXCEPT ![i] = @ \cup C]
      BY <1>2, <2>4, FirstFitPlaces
    <3>2. phase' # "finish"
      BY <2>4 DEF FirstFit
    <3>3. /\ \A i \in DOMAIN bins' : SmallEnough(bins'[i])
          /\ \A i \in DOMAIN bins : i \in DOMAIN bins' /\ bins[i] \subseteq bins'[i]
          /\ \E i \in DOMAIN bins' : C \subseteq bins'[i]
      <4>1. CASE bins' = Append(bins, C)
        <5>1. /\ DOMAIN bins' = 1 .. Len(bins) + 1 /\ bins'[Len(bins) + 1] = C
              /\ \A i \in DOMAIN bins : bins'[i] = bins[i]
              /\ DOMAIN bins = 1 .. Len(bins) /\ Len(bins) \in Nat
          BY <1>2, <4>1
        <5> QED
          BY <2>1, <5>1
      <4>2. ASSUME NEW i \in DOMAIN bins, Size(bins[i]) + Size(C) <= Limit,
                   bins' = [bins EXCEPT ![i] = @ \cup C]
            PROVE  <3>3!:
        <5>1. SmallEnough(bins[i] \cup C)
          BY <1>2, <2>2, <4>2
        <5>2. DOMAIN bins' = DOMAIN bins /\ bins'[i] = bins[i] \cup C
              /\ \A j \in DOMAIN bins \ {i} : bins'[j] = bins[j]
          BY <1>2, <4>2
        <5> QED
          BY <2>1, <5>1, <5>2
      <4> QED
        BY <3>1, <4>1, <4>2
    <3>4. ASSUME NEW s \in Banked
          PROVE  (\E D \in clusters' : s \in D) \/ (\E i \in DOMAIN bins' : s \in bins'[i])
      BY <2>1, <3>1, <3>3
    <3> QED
      BY <2>1, <3>1, <3>2, <3>3, <3>4
  <2>5. CASE MergeDone \/ FitDone
    BY <2>1, <2>5 DEF MergeDone, FitDone
  <2> QED
    BY <2>3, <2>4, <2>5
<1> QED
  BY <1>1, <1>2, <1>3, SizesStay DEF FitInv, FilledInv, BanksFit

(* Every section gets the bank of a bin it is in.                          *)
LEMMA NewBanks ==
  ASSUME BanksInv, FitInv, phase = "finish"
  PROVE  /\ \A s \in Sections : NewBank(s) \in Nat
         /\ mode # "identity" =>
              \A s \in Banked : \E i \in DOMAIN bins : s \in bins[i] /\ NewBank(s) = Min(OldBanks) + i - 1
<1>1. bank \in [Sections -> Nat] /\ bins \in Seq(SUBSET Sections) /\ Banked \subseteq Sections
  BY DEF BanksInv, LayoutInv, WholeInv, Banked
<1>2. ASSUME NEW s \in Banked, mode # "identity"
      PROVE  \E i \in DOMAIN bins : s \in bins[i] /\ NewBank(s) = Min(OldBanks) + i - 1 /\ NewBank(s) \in Nat
  <2> DEFINE holding == {i \in DOMAIN bins : s \in bins[i]}
  <2>1. OldBanks \in SUBSET Nat /\ bank[s] \in OldBanks
    BY <1>1, <1>2 DEF OldBanks
  <2>2. Min(OldBanks) \in Nat
    BY <2>1, MinIsLeast
  <2>3. holding # {} /\ holding \in SUBSET Nat
    BY <1>1, <1>2 DEF FitInv, PackedInv
  <2>4. Min(holding) \in holding /\ Min(holding) \in Nat /\ Min(holding) >= 1
    <3>1. Min(holding) \in holding
      BY <2>3, MinIsLeast
    <3> QED
      BY <1>1, <3>1
  <2>5. NewBank(s) = Min(OldBanks) + Min(holding) - 1
    BY <1>2 DEF NewBank, Banked
  <2>6. Min(OldBanks) + Min(holding) - 1 \in Nat
    BY <2>2, <2>4
  <2> QED
    BY <2>4, <2>5, <2>6
<1>3. ASSUME NEW s \in Sections, s \notin Banked \/ mode = "identity"
      PROVE  NewBank(s) \in Nat
  BY <1>1, <1>3 DEF NewBank, Banked
<1> QED
  BY <1>2, <1>3

LEMMA FitFinish ==
  ASSUME BanksInv, FitInv, Finish
  PROVE  bank' \in [Sections -> Nat] /\ FitInv'
<1>1. /\ bank' = [s \in Sections |-> NewBank(s)]
      /\ phase = "finish" /\ phase' = "run"
      /\ UNCHANGED <<layout, mode, tables, clusters, bins, at, mapped>>
  BY DEF Finish
<1>2. bank' \in [Sections -> Nat]
  BY <1>1, NewBanks
<1>3. /\ layout \in Layouts /\ TablesInv /\ Banked \subseteq Sections
      /\ bins \in Seq(SUBSET Sections)
  BY DEF BanksInv, LayoutInv, WholeInv, FitInv, Banked
<1> DEFINE here(b) == {s \in Banked : bank'[s] = b}
           olds == {{s \in Banked : layout.bank[s] = c} : c \in {layout.bank[s] : s \in Banked}}
<1>4. ASSUME mode # "identity", NEW t \in Banked
      PROVE  Size(here(bank'[t])) <= Limit \/ \E B \in olds : here(bank'[t]) \subseteq B
  <2> DEFINE H == here(bank'[t])
  <2>1. PICK i \in DOMAIN bins : NewBank(t) = Min(OldBanks) + i - 1
    BY <1>4, <1>1, NewBanks
  <2>2. H \subseteq bins[i]
    <3> SUFFICES ASSUME NEW s \in H PROVE s \in bins[i]
      OBVIOUS
    <3>1. PICK j \in DOMAIN bins : s \in bins[j] /\ NewBank(s) = Min(OldBanks) + j - 1
      BY <1>4, <1>1, NewBanks
    <3>2. NewBank(s) = NewBank(t)
      BY <1>1, <1>3, <1>4
    <3>3. Min(OldBanks) \in Nat
      <4>1. OldBanks \in SUBSET Nat /\ bank[t] \in OldBanks
        BY <1>3 DEF OldBanks, BanksInv, LayoutInv
      <4> QED
        BY <4>1, MinIsLeast
    <3>4. i \in Nat /\ j \in Nat
      BY <1>3
    <3>5. i = j
      BY <2>1, <3>1, <3>2, <3>3, <3>4
    <3> QED
      BY <3>1, <3>5
  <2>3. SmallEnough(bins[i])
    BY <1>1, <1>4 DEF FitInv, PackedInv
  <2>4. CASE Size(bins[i]) <= Limit
    <3>1. H \in SUBSET Sections /\ bins[i] \in SUBSET Sections
      BY <1>3
    <3> HIDE DEF H
    <3>2. Size(H) <= Size(bins[i])
      BY <1>3, <2>2, <3>1, SizesOfParts
    <3>3. Size(H) \in Nat /\ Size(bins[i]) \in Nat /\ Limit \in Nat
      BY <1>3, <3>1, Sizes
    <3>4. Size(H) <= Limit
      BY <2>4, <3>2, <3>3
    <3> QED
      BY <3>4 DEF H
  <2>5. CASE \E b : \A s \in bins[i] : layout.bank[s] = b
    <3> DEFINE B == {s \in Banked : layout.bank[s] = layout.bank[t]}
    <3>1. t \in H
      BY <1>4
    <3>2. H \subseteq B
      BY <2>2, <2>5, <3>1
    <3>3. B \in olds
      BY <1>4
    <3> QED
      BY <3>2, <3>3
  <2> QED
    BY <2>3, <2>4, <2>5 DEF SmallEnough
<1>5. BanksFit'
  <2>1. OldBanks' = {bank'[t] : t \in Banked}
    BY <1>1, SizesStay DEF OldBanks
  <2> HIDE DEF here
  <2>2. ASSUME NEW b \in OldBanks', mode # "identity"
        PROVE  Size(here(b)) <= Limit \/ \E B \in olds : here(b) \subseteq B
    BY <1>4, <2>1, <2>2
  <2> QED
    BY <1>1, <2>2, SizesStay DEF BanksFit, here
<1>6. FitInv'
  BY <1>1, <1>3, <1>5, SizesStay DEF FitInv, PackedInv, FilledInv
<1> QED
  BY <1>2, <1>6

LEMMA FitStart ==
  ASSUME BanksInv, FitInv, StartClimb
  PROVE  FitInv'
<1>1. /\ UNCHANGED <<layout, mode, bank, refs, tables, bins, at, mapped>>
      /\ phase' = IF \E b \in BlockBanks : Used(b) > Limit THEN "refused" ELSE "climb"
  BY DEF StartClimb
<1>2. ASSUME NEW b \in BlockBanks, phase' = "climb" PROVE Used(b) <= Limit
  <2> DEFINE old == {s \in Blocks : bank[s] = b}
  <2>1. old \in SUBSET Sections
    BY DEF Blocks
  <2>2. Size(old) \in Nat /\ Limit \in Nat
    BY <2>1, Sizes DEF BanksInv, LayoutInv, FitInv
  <2>3. ~(Used(b) > Limit)
    BY <1>1, <1>2
  <2> QED
    BY <2>2, <2>3 DEF Used
<1>3. FilledInv'
  <2>1. \A b : Used(b)' = Used(b)
    BY <1>1, SizesStay DEF Used
  <2> QED
    BY <1>1, <1>2, <2>1, SizesStay DEF FilledInv, BlockBanks
<1> QED
  BY <1>1, <1>3, SizesStay DEF FitInv, PackedInv, BanksFit

(* A move or a swap leaves no bank above the limit.                        *)
LEMMA FitClimb ==
  ASSUME BanksInv, FitInv, Climb
  PROVE  FitInv'
<1>1. phase = "climb" /\ UNCHANGED <<layout, mode, phase, refs, tables, clusters, bins, at, mapped>>
  BY DEF Climb
<1>2. /\ layout \in Layouts /\ TablesInv /\ Blocks \subseteq Sections /\ Limit \in Nat
      /\ \A b \in BlockBanks : Used(b) <= Limit
  BY <1>1, LayoutsAreReal DEF BanksInv, LayoutInv, FitInv, FilledInv, Blocks
<1> DEFINE old(b) == {s \in Blocks : bank[s] = b}
           new(b) == {s \in Blocks : bank'[s] = b}
<1>3. \A C \in SUBSET Sections : Size(C) \in Nat
  BY <1>2, Sizes
<1>4. ASSUME NEW b \in BlockBanks, NEW C \in SUBSET old(b) PROVE Size(C) <= Limit
  <2>1. old(b) \in SUBSET Sections /\ Used(b) = Size(old(b))
    BY <1>2 DEF Used
  <2> HIDE DEF old
  <2>2. Size(C) <= Size(old(b)) /\ C \in SUBSET Sections
    BY <1>2, <2>1, SizesOfParts
  <2>3. Size(old(b)) \in Nat /\ Size(C) \in Nat
    BY <1>3, <2>1, <2>2
  <2> QED
    BY <1>2, <2>1, <2>2, <2>3
<1>5. ASSUME NEW b \in BlockBanks, NEW C \in SUBSET Sections, NEW D \in SUBSET old(b),
             Used(b) + Size(C) <= Limit + Size(D), new(b) \subseteq (old(b) \ D) \cup C
      PROVE  Size(new(b)) <= Limit
  <2> DEFINE kept == old(b) \ D
  <2>1. old(b) \in SUBSET Sections /\ kept \in SUBSET Sections /\ D \in SUBSET Sections
        /\ kept \cup C \in SUBSET Sections /\ new(b) \in SUBSET Sections /\ Used(b) = Size(old(b))
    BY <1>2 DEF Used
  <2> HIDE DEF old, new
  <2>2. Size(kept) = Size(old(b)) - Size(D)
    BY <1>2, <2>1, SizesOfParts
  <2> HIDE DEF kept
  <2>3. Size(kept \cup C) <= Size(kept) + Size(C) /\ Size(new(b)) <= Size(kept \cup C)
    <3>1. new(b) \subseteq kept \cup C
      BY <1>5 DEF kept
    <3> QED
      BY <1>2, <2>1, <3>1, SizesOfParts
  <2>4. /\ Size(old(b)) \in Nat /\ Size(kept) \in Nat /\ Size(D) \in Nat /\ Size(C) \in Nat
        /\ Size(kept \cup C) \in Nat /\ Size(new(b)) \in Nat
    BY <1>3, <2>1
  <2> QED
    BY <1>2, <1>5, <2>1, <2>2, <2>3, <2>4
<1>6. ASSUME NEW t \in Blocks PROVE Size(new(bank'[t])) <= Limit
  <2> DEFINE b == bank'[t]
  <2>1. t \in Sections /\ t \in new(b)
    BY <1>2
  <2>2. ASSUME NEW m \in Moves, bank' = [s \in Sections |-> IF s \in m[1] THEN m[2] ELSE bank[s]]
        PROVE  Size(new(b)) <= Limit
    <3>1. /\ m[1] \in clusters /\ m[2] \in BlockBanks /\ Used(m[2]) + Size(m[1]) <= Limit
      BY DEF Moves
    <3>2. m[1] \in SUBSET Blocks
      BY <1>1, <3>1 DEF BanksInv, ClimbInv
    <3>3. CASE b = m[2]
      <4>1. new(b) \subseteq (old(b) \ {}) \cup m[1]
        BY <1>2, <2>2, <3>3
      <4>2. Size({}) \in Nat /\ Used(b) \in Nat /\ Size(m[1]) \in Nat /\ m[1] \in SUBSET Sections
        <5>1. {} \in SUBSET Sections /\ old(b) \in SUBSET Sections /\ m[1] \in SUBSET Sections
          BY <1>2, <3>2
        <5> QED
          BY <1>3, <5>1 DEF Used
      <4> HIDE DEF old, new, b
      <4>3. Used(b) + Size(m[1]) <= Limit + Size({})
        BY <1>2, <3>1, <3>3, <4>2
      <4> QED
        BY <1>5, <3>1, <3>3, <4>1, <4>2, <4>3
    <3>4. CASE b # m[2]
      <4>1. new(b) \subseteq old(b)
        BY <1>2, <2>2, <3>4
      <4>2. b \in BlockBanks
        BY <2>1, <4>1 DEF BlockBanks
      <4> HIDE DEF old, new, b
      <4> QED
        BY <1>4, <4>1, <4>2
    <3> QED
      BY <3>3, <3>4
  <2>3. ASSUME NEW p \in Swaps,
               bank' = [s \in Sections |-> IF s \in p[1] THEN BankOfUnit(p[2])
                                          ELSE IF s \in p[2] THEN BankOfUnit(p[1]) ELSE bank[s]]
        PROVE  Size(new(b)) <= Limit
    <3> DEFINE a1 == BankOfUnit(p[1])
               a2 == BankOfUnit(p[2])
    <3>1. /\ p[1] \in clusters /\ p[2] \in clusters /\ a1 # a2
          /\ Used(a1) + Size(p[2]) <= Limit + Size(p[1])
          /\ Used(a2) + Size(p[1]) <= Limit + Size(p[2])
      BY DEF Swaps
    <3>2. p[1] \in SUBSET Blocks /\ p[2] \in SUBSET Blocks
      BY <1>1, <3>1 DEF BanksInv, ClimbInv
    <3>3. /\ a1 \in BlockBanks /\ a2 \in BlockBanks
          /\ \A s \in p[1] : bank[s] = a1
          /\ \A s \in p[2] : bank[s] = a2
      BY <1>1, <3>1, UnitBank
    <3> HIDE DEF a1, a2
    <3>4. bank' = [s \in Sections |-> IF s \in p[1] THEN a2 ELSE IF s \in p[2] THEN a1 ELSE bank[s]]
      BY <2>3 DEF a1, a2
    <3>5. p[1] \in SUBSET old(a1) /\ p[2] \in SUBSET old(a2)
          /\ p[1] \in SUBSET Sections /\ p[2] \in SUBSET Sections
      BY <1>2, <3>2, <3>3
    <3>6. CASE b = a2
      <4>1. new(a2) \subseteq (old(a2) \ p[2]) \cup p[1]
        BY <1>2, <3>1, <3>3, <3>4
      <4> HIDE DEF old, new
      <4>2. Size(new(a2)) <= Limit
        BY <1>5, <3>1, <3>3, <3>5, <4>1
      <4> QED
        BY <3>6, <4>2
    <3>7. CASE b = a1
      <4>1. new(a1) \subseteq (old(a1) \ p[1]) \cup p[2]
        BY <1>2, <3>1, <3>3, <3>4
      <4> HIDE DEF old, new
      <4>2. Size(new(a1)) <= Limit
        BY <1>5, <3>1, <3>3, <3>5, <4>1
      <4> QED
        BY <3>7, <4>2
    <3>8. CASE b # a1 /\ b # a2
      <4>1. new(b) \subseteq old(b)
        BY <1>2, <3>4, <3>8
      <4>2. b \in BlockBanks
        BY <2>1, <4>1 DEF BlockBanks
      <4> HIDE DEF old, new, b
      <4> QED
        BY <1>4, <4>1, <4>2
    <3> QED
      BY <3>6, <3>7, <3>8
  <2> QED
    BY <2>2, <2>3, ClimbMoves
<1>7. FilledInv'
  <2>1. \A b : Used(b)' = Size(new(b))
    BY <1>1, SizesStay DEF Used
  <2>2. BlockBanks' = {bank'[t] : t \in Blocks}
    BY <1>1, SizesStay DEF BlockBanks
  <2> HIDE DEF new
  <2> QED
    BY <1>6, <2>1, <2>2 DEF FilledInv
<1> QED
  BY <1>1, <1>7, SizesStay DEF FitInv, PackedInv, BanksFit

LEMMA FitClimbDone ==
  ASSUME BanksInv, FitInv, ClimbDone
  PROVE  FitInv'
<1>1. /\ phase = "climb" /\ phase' = "run"
      /\ UNCHANGED <<layout, mode, bank, tables, clusters, bins, at, mapped>>
  BY DEF ClimbDone
<1>2. Blocks = Banked
  BY <1>1, EarlySections DEF Climbing
<1>3. \A b \in OldBanks : Size({s \in Banked : bank[s] = b}) <= Limit
  BY <1>1, <1>2 DEF FitInv, FilledInv, BlockBanks, OldBanks, Used
<1>4. BanksFit'
  <2>1. OldBanks' = OldBanks /\ \A b : {s \in Banked : bank[s] = b}' = {s \in Banked : bank[s] = b}
    BY <1>1, SizesStay DEF OldBanks
  <2> QED
    BY <1>1, <1>3, <2>1, SizesStay DEF BanksFit
<1> QED
  BY <1>1, <1>4, SizesStay DEF FitInv, PackedInv, FilledInv

-----------------------------------------------------------------------------
(* Climbing gains.                                                         *)

(* Disjoint sets: the sum of their sizes is the size of their union.       *)
LEMMA SumOfSizes ==
  ASSUME NEW part, NEW S, IsFiniteSet(S), \A x \in S : IsFiniteSet(part[x]),
         \A x, y \in S : x = y \/ part[x] \cap part[y] = {}
  PROVE  SumFunctionOnSet([x \in S |-> Cardinality(part[x])], S) = Cardinality(UNION {part[x] : x \in S})
<1> DEFINE f == [x \in S |-> Cardinality(part[x])]
           all(s) == UNION {part[x] : x \in s}
           Bad == {s \in SUBSET S : SumFunctionOnSet(f, s) # Cardinality(all(s))}
<1> SUFFICES ASSUME Bad # {} PROVE FALSE
  OBVIOUS
<1>1. \A s \in SUBSET S : IsFiniteSet(s) /\ Cardinality(s) \in Nat
  BY FS_Subset, FS_CardinalityType
<1>2. PICK s \in Bad : \A t \in Bad : Cardinality(t) >= Cardinality(s)
  <2>1. \A t \in Bad : IsFiniteSet(t)
    BY <1>1
  <2> HIDE DEF Bad
  <2> QED
    BY <2>1, SmallestSet
<1>3. s # {}
  <2> SUFFICES ASSUME s = {} PROVE FALSE
    OBVIOUS
  <2>1. all(s) = {}
    OBVIOUS
  <2> QED
    BY <1>2, <2>1, SumEmpty, FS_EmptySet
<1> DEFINE z == One(s)
           r == s \ {z}
<1>4. z \in s /\ z \in S /\ SumFunctionOnSet(f, s) = f[z] + SumFunctionOnSet(f, r)
  BY <1>1, <1>2, <1>3, SumFirst
<1>5. SumFunctionOnSet(f, r) = Cardinality(all(r))
  <2>1. Cardinality(r) = Cardinality(s) - 1 /\ Cardinality(s) \in Nat
    BY <1>1, <1>4, FS_RemoveElement
  <2>2. r \in SUBSET S /\ r \notin Bad
    BY <1>2, <2>1
  <2> QED
    BY <2>2
<1>6. IsFiniteSet(all(r)) /\ IsFiniteSet(part[z])
  <2>1. IsFiniteSet({part[x] : x \in r})
    <3> DEFINE g == [x \in r |-> part[x]]
    <3>1. g \in Surjection(r, {part[x] : x \in r})
      BY DEF Surjection
    <3>2. IsFiniteSet(r)
      BY <1>1
    <3> QED
      BY <3>1, <3>2, FS_Surjection
  <2>2. \A T \in {part[x] : x \in r} : IsFiniteSet(T)
    OBVIOUS
  <2> QED
    BY <1>4, <2>1, <2>2, FS_UNION
<1>7. all(s) = part[z] \cup all(r) /\ part[z] \cap all(r) = {}
  BY <1>4
<1>8. f[z] = Cardinality(part[z])
  BY <1>4
<1> HIDE DEF f, all, z, r
<1>9. Cardinality(all(s)) = Cardinality(part[z]) + Cardinality(all(r))
  <2>1. Cardinality(all(s)) = Cardinality(part[z] \cup all(r))
    BY <1>7, Zenon
  <2>2. Cardinality(part[z] \cap all(r)) = 0
    BY <1>7, FS_EmptySet
  <2>3. Cardinality(part[z]) \in Nat /\ Cardinality(all(r)) \in Nat
    BY <1>6, FS_CardinalityType
  <2>4. Cardinality(part[z] \cup all(r))
          = Cardinality(part[z]) + Cardinality(all(r)) - Cardinality(part[z] \cap all(r))
    BY <1>6, FS_Union
  <2> QED
    BY <2>1, <2>2, <2>3, <2>4
<1> QED
  BY <1>2, <1>4, <1>5, <1>8, <1>9

(* The references that may be made local.                                  *)
Loads == {r \in refs : Known(r) /\ r.load # Symbol}

(* Those from a cluster to the rest of a bank, or back.                    *)
Ties(C, b) ==
  {r \in Loads : \/ r.from \in C /\ r.to \notin C /\ bank[r.to] = b
                 \/ r.to \in C /\ r.from \notin C /\ bank[r.from] = b}

Joins(r, C, D) == \/ r.from \in C /\ r.to \in D
                  \/ r.from \in D /\ r.to \in C

LEMMA LoadsInBlocks ==
  ASSUME BanksInv, phase = "climb"
  PROVE  /\ IsFiniteSet(Loads) /\ mode = "climb"
         /\ \A r \in Loads : /\ r.from \in Blocks /\ r.to \in Blocks
                             /\ r.from \in Sections /\ r.to \in Sections
         /\ \A C, D, r : r \in Between(C, D) <=> r \in Loads /\ Joins(r, C, D)
<1>1. /\ mode = "climb" /\ layout \in Layouts /\ refs = layout.refs /\ Blocks \subseteq Sections
      /\ \A r \in refs : Known(r) /\ r.load # Symbol => r.from \in Blocks /\ r.to \in Blocks
  BY EarlySections DEF Climbing
<1>2. IsFiniteSet(Loads)
  <2>1. IsFiniteSet(refs)
    BY <1>1, RealLayout
  <2> QED
    BY <2>1, FS_Subset DEF Loads
<1> QED
  BY <1>1, <1>2 DEF Loads, Between, Joins

LEMMA ConnCounts ==
  ASSUME BanksInv, phase = "climb", NEW C \in clusters, NEW b
  PROVE  Conn(C, b) = Cardinality(Ties(C, b))
<1> DEFINE part == [D \in clusters |-> IF D # C /\ BankOfUnit(D) = b THEN Between(C, D) ELSE {}]
           count == [D \in clusters |-> IF D # C /\ BankOfUnit(D) = b THEN Cardinality(Between(C, D)) ELSE 0]
<1>1. /\ \A D \in clusters : D \in SUBSET Blocks
      /\ \A D, E \in clusters : D = E \/ D \cap E = {}
      /\ Blocks \subseteq UNION clusters
  BY DEF BanksInv, ClimbInv
<1>2. /\ IsFiniteSet(Loads)
      /\ \A r \in Loads : r.from \in Blocks /\ r.to \in Blocks
      /\ \A D, r : r \in Between(C, D) <=> r \in Loads /\ Joins(r, C, D)
  BY LoadsInBlocks
<1>3. IsFiniteSet(clusters)
  <2>1. IsFiniteSet(SUBSET Sections)
    BY RealLayout, FS_SUBSET DEF BanksInv, LayoutInv
  <2> QED
    BY <2>1, FS_Subset DEF BanksInv, WholeInv
<1>4. \A D \in clusters : IsFiniteSet(part[D])
  <2>1. \A D \in clusters : part[D] \in SUBSET Loads
    BY <1>2
  <2> HIDE DEF part
  <2> QED
    BY <1>2, <2>1, FS_Subset
<1>5. ASSUME NEW D \in clusters, NEW E \in clusters, D # E
      PROVE  part[D] \cap part[E] = {}
  <2> SUFFICES ASSUME D # C, E # C PROVE Between(C, D) \cap Between(C, E) = {}
    OBVIOUS
  <2>1. C \cap D = {} /\ C \cap E = {} /\ D \cap E = {}
    BY <1>1, <1>5
  <2> QED
    BY <1>2, <2>1 DEF Joins
<1>6. count = [D \in clusters |-> Cardinality(part[D])]
  BY FS_EmptySet
<1>7. UNION {part[D] : D \in clusters} = Ties(C, b)
  <2>1. ASSUME NEW D \in clusters, NEW r \in part[D] PROVE r \in Ties(C, b)
    <3>1. D # C /\ BankOfUnit(D) = b /\ r \in Between(C, D)
      BY <2>1
    <3>2. C \cap D = {} /\ \A s \in D : bank[s] = b
      BY <1>1, <3>1, UnitBank
    <3>3. r \in Loads /\ Joins(r, C, D)
      <4> HIDE DEF part
      <4> QED
        BY <1>2, <3>1
    <3> QED
      BY <3>1, <3>2, <3>3 DEF Ties, Joins
  <2>2. ASSUME NEW r \in Ties(C, b) PROVE \E D \in clusters : r \in part[D]
    <3> DEFINE other == IF r.from \in C THEN r.to ELSE r.from
    <3>1. /\ r \in Loads /\ other \in Blocks /\ other \notin C /\ bank[other] = b
          /\ \/ r.from \in C /\ r.to = other
             \/ r.to \in C /\ r.from = other
      BY <1>2 DEF Ties
    <3> HIDE DEF other
    <3>2. PICK D \in clusters : other \in D
      BY <1>1, <3>1
    <3>3. D # C /\ BankOfUnit(D) = b
      BY <3>1, <3>2, UnitBank
    <3>4. r \in Between(C, D)
      BY <1>2, <3>1, <3>2 DEF Joins
    <3>5. part[D] = Between(C, D)
      BY <3>3
    <3> QED
      BY <3>4, <3>5
  <2> HIDE DEF part
  <2> QED
    BY <2>1, <2>2
<1>8. DOMAIN count = clusters /\ Conn(C, b) = SumFunction(count)
  BY DEF Conn
<1> HIDE DEF part, count
<1>9. SumFunctionOnSet([D \in clusters |-> Cardinality(part[D])], clusters)
        = Cardinality(UNION {part[D] : D \in clusters})
  BY <1>3, <1>4, <1>5, SumOfSizes
<1>10. Conn(C, b) = SumFunctionOnSet(count, clusters)
  BY <1>8, Zenon DEF SumFunction
<1> QED
  BY <1>6, <1>7, <1>9, <1>10, Zenon

LEMMA ConnNat ==
  ASSUME BanksInv, phase = "climb"
  PROVE  /\ \A C \in clusters : \A b : Conn(C, b) \in Nat
         /\ \A C, D : Cardinality(Between(C, D)) \in Nat
<1>1. \A C, b : IsFiniteSet(Ties(C, b)) /\ Cardinality(Ties(C, b)) \in Nat
  <2>1. \A C, b : Ties(C, b) \subseteq Loads
    BY DEF Ties
  <2> QED
    BY <2>1, LoadsInBlocks, FS_Subset, FS_CardinalityType
<1>2. \A C, D : Cardinality(Between(C, D)) \in Nat
  <2>1. \A C, D : Between(C, D) \subseteq Loads
    BY LoadsInBlocks
  <2> QED
    BY <2>1, LoadsInBlocks, FS_Subset, FS_CardinalityType
<1> QED
  BY <1>1, <1>2, ConnCounts

LEMMA Exchanged ==
  ASSUME NEW L, NEW X, NEW Y, IsFiniteSet(L), IsFiniteSet(Y), X \subseteq L, Y \cap L = {}
  PROVE  Cardinality((L \ X) \cup Y) = Cardinality(L) - Cardinality(X) + Cardinality(Y)
<1>1. /\ IsFiniteSet(L \ X) /\ Cardinality(L \ X) = Cardinality(L) - Cardinality(L \cap X)
      /\ L \cap X = X /\ IsFiniteSet(X)
  BY FS_Difference, FS_Subset
<1>2. (L \ X) \cap Y = {} /\ Cardinality({}) = 0
  BY FS_EmptySet
<1>3. Cardinality((L \ X) \cup Y) = Cardinality(L \ X) + Cardinality(Y) - Cardinality((L \ X) \cap Y)
  BY <1>1, FS_Union
<1>4. Cardinality(L \cap X) = Cardinality(X) /\ Cardinality((L \ X) \cap Y) = 0
  BY <1>1, <1>2, Zenon
<1>5. Cardinality(L) \in Nat /\ Cardinality(X) \in Nat /\ Cardinality(Y) \in Nat
  BY <1>1, FS_CardinalityType
<1> QED
  BY <1>1, <1>3, <1>4, <1>5

Local(where) == {r \in Loads : where[r.from] = where[r.to]}

LEMMA MoveGains ==
  ASSUME BanksInv, phase = "climb", NEW C \in clusters, NEW b, b # BankOfUnit(C),
         NEW new, new = [s \in Sections |-> IF s \in C THEN b ELSE bank[s]]
  PROVE  Cardinality(Local(new)) = Cardinality(Local(bank)) + MoveGain(C, b)
<1> DEFINE a == BankOfUnit(C)
           L == Local(bank)
           X == Ties(C, a)
           Y == Ties(C, b)
<1>1. /\ IsFiniteSet(Loads) /\ \A r \in Loads : r.from \in Sections /\ r.to \in Sections
      /\ \A s \in C : bank[s] = a
  BY LoadsInBlocks, UnitBank
<1>2. IsFiniteSet(L) /\ IsFiniteSet(X) /\ IsFiniteSet(Y)
  BY <1>1, FS_Subset DEF Local, Ties
<1>3. X \subseteq L /\ Y \cap L = {}
  BY <1>1 DEF Local, Ties
<1>4. Local(new) = (L \ X) \cup Y
  <2>1. ASSUME NEW r \in Loads
        PROVE  (new[r.from] = new[r.to]) <=> ((bank[r.from] = bank[r.to] /\ r \notin X) \/ r \in Y)
    <3>1. /\ new[r.from] = IF r.from \in C THEN b ELSE bank[r.from]
          /\ new[r.to] = IF r.to \in C THEN b ELSE bank[r.to]
      BY <1>1
    <3> HIDE DEF a
    <3> QED
      BY <1>1, <3>1 DEF Ties
  <2>2. X \subseteq Loads /\ Y \subseteq Loads
    BY DEF Ties
  <2> HIDE DEF X, Y
  <2> QED
    BY <2>1, <2>2 DEF Local
<1>5. Conn(C, a) = Cardinality(X) /\ Conn(C, b) = Cardinality(Y)
  BY ConnCounts
<1>6. MoveGain(C, b) = Cardinality(Y) - Cardinality(X)
  BY <1>5 DEF MoveGain
<1> HIDE DEF a, L, X, Y
<1>7. Cardinality(Local(new)) = Cardinality(L) - Cardinality(X) + Cardinality(Y)
  BY <1>2, <1>3, <1>4, Exchanged
<1>8. Cardinality(L) \in Nat /\ Cardinality(X) \in Nat /\ Cardinality(Y) \in Nat
  BY <1>2, FS_CardinalityType
<1>9. Cardinality(Local(new)) = Cardinality(L) + MoveGain(C, b)
  BY <1>6, <1>7, <1>8
<1> QED
  BY <1>9 DEF L

LEMMA SwapGains ==
  ASSUME BanksInv, phase = "climb", NEW C \in clusters, NEW D \in clusters,
         BankOfUnit(C) # BankOfUnit(D),
         NEW new, new = [s \in Sections |-> IF s \in C THEN BankOfUnit(D)
                                           ELSE IF s \in D THEN BankOfUnit(C) ELSE bank[s]]
  PROVE  Cardinality(Local(new)) = Cardinality(Local(bank)) + SwapGain(C, D)
<1> DEFINE a == BankOfUnit(C)
           b == BankOfUnit(D)
           L == Local(bank)
           M == Between(C, D)
           X1 == Ties(C, a)
           X2 == Ties(D, b)
           Y1 == Ties(C, b)
           Y2 == Ties(D, a)
<1>1. /\ IsFiniteSet(Loads) /\ \A r \in Loads : r.from \in Sections /\ r.to \in Sections
      /\ \A r : r \in M <=> r \in Loads /\ Joins(r, C, D)
  BY LoadsInBlocks
<1>2. (\A s \in C : bank[s] = a) /\ (\A s \in D : bank[s] = b) /\ a # b /\ C \cap D = {}
  BY UnitBank DEF BanksInv, ClimbInv
<1>3. /\ IsFiniteSet(L) /\ IsFiniteSet(M) /\ IsFiniteSet(X1) /\ IsFiniteSet(X2)
      /\ IsFiniteSet(Y1) /\ IsFiniteSet(Y2)
  BY <1>1, FS_Subset DEF Local, Ties
<1>4. /\ Conn(C, a) = Cardinality(X1) /\ Conn(D, b) = Cardinality(X2)
      /\ Conn(C, b) = Cardinality(Y1) /\ Conn(D, a) = Cardinality(Y2)
  BY ConnCounts
<1>5. SwapGain(C, D) = Conn(C, b) + Conn(D, a) - 2 * Cardinality(M) - Conn(C, a) - Conn(D, b)
  <2>1. /\ Conn(C, a) \in Nat /\ Conn(D, b) \in Nat /\ Conn(C, b) \in Nat /\ Conn(D, a) \in Nat
        /\ Cardinality(M) \in Nat
    BY ConnNat
  <2> QED
    BY <2>1 DEF SwapGain, SwapAfter, SwapAfterBoth
<1>6. new = [s \in Sections |-> IF s \in C THEN b ELSE IF s \in D THEN a ELSE bank[s]]
  OBVIOUS
<1> HIDE DEF a, b, M
<1>7. X1 \cup X2 \subseteq L /\ X1 \cap X2 = {}
  <2>1. ASSUME NEW r \in X1 PROVE r \in L /\ r \notin X2
    BY <1>1, <1>2, <2>1 DEF Local, Ties
  <2>2. ASSUME NEW r \in X2 PROVE r \in L
    BY <1>1, <1>2, <2>2 DEF Local, Ties
  <2> HIDE DEF L, X1, X2
  <2> QED
    BY <2>1, <2>2
<1>8. M \subseteq Y1 /\ M \subseteq Y2 /\ Y1 \cap Y2 \subseteq M
  BY <1>1, <1>2 DEF Ties, Joins
<1> DEFINE X == X1 \cup X2
           Y == (Y1 \ M) \cup (Y2 \ M)
<1>9. Y \cap L = {}
  <2>1. ASSUME NEW r \in Y1 PROVE r \notin L
    BY <1>2, <2>1 DEF Local, Ties
  <2>2. ASSUME NEW r \in Y2 PROVE r \notin L
    BY <1>2, <2>2 DEF Local, Ties
  <2> HIDE DEF L, Y1, Y2
  <2> QED
    BY <2>1, <2>2
<1>10. Local(new) = (L \ X) \cup Y
  <2>1. ASSUME NEW r \in Loads
        PROVE  (new[r.from] = new[r.to]) <=> ((bank[r.from] = bank[r.to] /\ r \notin X) \/ r \in Y)
    <3>1. /\ new[r.from] = IF r.from \in C THEN b ELSE IF r.from \in D THEN a ELSE bank[r.from]
          /\ new[r.to] = IF r.to \in C THEN b ELSE IF r.to \in D THEN a ELSE bank[r.to]
      BY <1>1, <1>6
    <3>2. r \in M <=> Joins(r, C, D)
      BY <1>1
    <3>3. /\ r \in X <=> \/ r.from \in C /\ r.to \notin C /\ bank[r.to] = a
                         \/ r.to \in C /\ r.from \notin C /\ bank[r.from] = a
                         \/ r.from \in D /\ r.to \notin D /\ bank[r.to] = b
                         \/ r.to \in D /\ r.from \notin D /\ bank[r.from] = b
          /\ r \in Y <=> /\ r \notin M
                         /\ \/ r.from \in C /\ r.to \notin C /\ bank[r.to] = b
                            \/ r.to \in C /\ r.from \notin C /\ bank[r.from] = b
                            \/ r.from \in D /\ r.to \notin D /\ bank[r.to] = a
                            \/ r.to \in D /\ r.from \notin D /\ bank[r.from] = a
      BY DEF Ties
    <3> HIDE DEF X, Y
    <3> QED
      BY <1>2, <3>1, <3>2, <3>3 DEF Joins
  <2>2. X \subseteq Loads /\ Y \subseteq Loads
    BY DEF Ties
  <2> HIDE DEF X, Y
  <2> QED
    BY <2>1, <2>2 DEF Local
<1> HIDE DEF L, X1, X2, Y1, Y2
<1>11. /\ Cardinality(L) \in Nat /\ Cardinality(M) \in Nat /\ Cardinality(X1) \in Nat
       /\ Cardinality(X2) \in Nat /\ Cardinality(Y1) \in Nat /\ Cardinality(Y2) \in Nat
  BY <1>3, FS_CardinalityType
<1>12. IsFiniteSet(X) /\ Cardinality(X) = Cardinality(X1) + Cardinality(X2)
  <2>1. Cardinality(X1 \cap X2) = 0
    BY <1>7, FS_EmptySet
  <2>2. IsFiniteSet(X1 \cup X2)
        /\ Cardinality(X1 \cup X2) = Cardinality(X1) + Cardinality(X2) - Cardinality(X1 \cap X2)
    BY <1>3, FS_Union
  <2> QED
    BY <1>11, <2>1, <2>2
<1>13. IsFiniteSet(Y) /\ Cardinality(Y) = Cardinality(Y1) + Cardinality(Y2) - 2 * Cardinality(M)
  <2>1. /\ IsFiniteSet(Y1 \ M) /\ Cardinality(Y1 \ M) = Cardinality(Y1) - Cardinality(M)
        /\ IsFiniteSet(Y2 \ M) /\ Cardinality(Y2 \ M) = Cardinality(Y2) - Cardinality(M)
    <3>1. Y1 \cap M = M /\ Y2 \cap M = M
      BY <1>8
    <3>2. /\ IsFiniteSet(Y1 \ M) /\ Cardinality(Y1 \ M) = Cardinality(Y1) - Cardinality(Y1 \cap M)
          /\ IsFiniteSet(Y2 \ M) /\ Cardinality(Y2 \ M) = Cardinality(Y2) - Cardinality(Y2 \cap M)
      BY <1>3, FS_Difference
    <3> QED
      BY <3>1, <3>2, Zenon
  <2>2. (Y1 \ M) \cap (Y2 \ M) = {}
    BY <1>8
  <2>3. Cardinality((Y1 \ M) \cap (Y2 \ M)) = 0
    BY <2>2, FS_EmptySet
  <2>4. IsFiniteSet((Y1 \ M) \cup (Y2 \ M))
        /\ Cardinality((Y1 \ M) \cup (Y2 \ M))
             = Cardinality(Y1 \ M) + Cardinality(Y2 \ M) - Cardinality((Y1 \ M) \cap (Y2 \ M))
    BY <2>1, FS_Union
  <2> QED
    BY <1>11, <2>1, <2>3, <2>4
<1> HIDE DEF X, Y
<1>14. X \subseteq L
  BY <1>7 DEF X
<1>15. Cardinality(Local(new)) = Cardinality(L) - Cardinality(X) + Cardinality(Y)
  BY <1>3, <1>9, <1>10, <1>13, <1>14, Exchanged
<1>16. Cardinality(Local(new)) = Cardinality(L) + SwapGain(C, D)
  BY <1>4, <1>5, <1>11, <1>12, <1>13, <1>15
<1> QED
  BY <1>16 DEF L

LEMMA ClimbGainsRefs ==
  ASSUME BanksInv, Climb
  PROVE  LocalRefs' > LocalRefs
<1>1. phase = "climb" /\ refs' = refs
  BY DEF Climb
<1>2. LocalRefs = Cardinality(Local(bank)) /\ LocalRefs' = Cardinality(Local(bank'))
  <2>1. {r \in refs : Known(r) /\ r.load # Symbol /\ bank[r.from] = bank[r.to]} = Local(bank)
    BY DEF Local, Loads
  <2>2. {r \in refs : Known(r) /\ r.load # Symbol /\ bank'[r.from] = bank'[r.to]} = Local(bank')
    BY DEF Local, Loads
  <2> QED
    BY <1>1, <2>1, <2>2, Zenon DEF LocalRefs, Known
<1>3. Cardinality(Local(bank)) \in Nat
  <2>1. IsFiniteSet(Loads)
    BY <1>1, LoadsInBlocks
  <2> QED
    BY <2>1, FS_Subset, FS_CardinalityType DEF Local
<1>4. CASE \E m \in Moves : /\ MoveGain(m[1], m[2]) > 0
                            /\ bank' = [s \in Sections |-> IF s \in m[1] THEN m[2] ELSE bank[s]]
  <2>1. PICK m \in Moves : /\ MoveGain(m[1], m[2]) > 0
                           /\ bank' = [s \in Sections |-> IF s \in m[1] THEN m[2] ELSE bank[s]]
    BY <1>4
  <2>2. m[1] \in clusters /\ m[2] # BankOfUnit(m[1])
    BY DEF Moves
  <2>3. Cardinality(Local(bank')) = Cardinality(Local(bank)) + MoveGain(m[1], m[2])
    BY <1>1, <2>1, <2>2, MoveGains
  <2>4. MoveGain(m[1], m[2]) \in Int
    BY <1>1, <2>2, ConnNat DEF MoveGain
  <2> QED
    BY <1>2, <1>3, <2>1, <2>3, <2>4
<1>5. CASE \E p \in Swaps :
             /\ SwapGain(p[1], p[2]) > 0
             /\ bank' = [s \in Sections |-> IF s \in p[1] THEN BankOfUnit(p[2])
                                           ELSE IF s \in p[2] THEN BankOfUnit(p[1]) ELSE bank[s]]
  <2>1. PICK p \in Swaps :
          /\ SwapGain(p[1], p[2]) > 0
          /\ bank' = [s \in Sections |-> IF s \in p[1] THEN BankOfUnit(p[2])
                                        ELSE IF s \in p[2] THEN BankOfUnit(p[1]) ELSE bank[s]]
    BY <1>5
  <2>2. p[1] \in clusters /\ p[2] \in clusters /\ BankOfUnit(p[1]) # BankOfUnit(p[2])
    BY DEF Swaps
  <2>3. Cardinality(Local(bank')) = Cardinality(Local(bank)) + SwapGain(p[1], p[2])
    BY <1>1, <2>1, <2>2, SwapGains
  <2>4. SwapGain(p[1], p[2]) \in Int
    <3>1. Cardinality(Between(p[1], p[2])) \in Nat
      BY <1>1, ConnNat
    <3> QED
      BY <1>1, <2>2, <3>1, ConnNat DEF SwapGain, SwapAfter, SwapAfterBoth
  <2> QED
    BY <1>2, <1>3, <2>1, <2>3, <2>4
<1> QED
  BY <1>4, <1>5, ClimbMoves

-----------------------------------------------------------------------------
LEMMA BanksIndInit ==
  ASSUME BanksInit
  PROVE  BanksInv /\ FitInv
BY BanksInvInit, FitInvInit

LEMMA BanksIndNext ==
  ASSUME BanksInv /\ FitInv, [BanksNext]_bankVars
  PROVE  (BanksInv /\ FitInv)'
<1>1. CASE MirrorTables
  BY <1>1, MirrorKeeps, FitMirror
<1>2. CASE FastBankSwitch
  BY <1>2, SwitchKeeps, FitSwitch
<1>3. CASE Merge \/ MergeDone \/ FirstFit \/ FitDone
  BY <1>3, PackKeeps, FitPack
<1>4. CASE Finish
  BY <1>4, FinishKeeps, FitFinish
<1>5. CASE StartClimb
  BY <1>5, StartKeeps, FitStart
<1>6. CASE Climb
  BY <1>6, ClimbKeeps, FitClimb
<1>7. CASE ClimbDone
  BY <1>7, ClimbDoneKeeps, FitClimbDone
<1>8. CASE Dispatch \/ Follow
  <2>1. UNCHANGED <<layout, mode, phase, bank, tables, clusters, bins>>
    BY <1>8 DEF Dispatch, Follow
  <2> QED
    BY <1>8, <2>1, RunKeeps, FitSame
<1>9. CASE UNCHANGED bankVars
  <2>1. UNCHANGED <<layout, mode, phase, bank, tables, clusters, bins>>
    BY <1>9 DEF bankVars
  <2>2. LayoutInv' /\ RefsInv'
    BY <1>9 DEF bankVars, BanksInv, LayoutInv, RefsInv, Refs, Tight, Known, SameBank, Banked, Sections, Kind
  <2>3. WholeInv'
    <3>1. \A C : Whole(C)' = Whole(C)
      BY <1>9 DEF bankVars, Whole, Closed, Tight, Known
    <3> QED
      BY <1>9, <3>1 DEF bankVars, BanksInv, WholeInv, Sections
  <2>4. PlaceInv' /\ ClimbInv'
    BY <1>9 DEF bankVars, BanksInv, PlaceInv, ClimbInv, Sections, Blocks, Kind
  <2> QED
    BY <2>1, <2>2, <2>3, <2>4, FitSame DEF BanksInv
<1> QED
  BY <1>1, <1>2, <1>3, <1>4, <1>5, <1>6, <1>7, <1>8, <1>9 DEF BanksNext, Refused

(* However the sections have been moved, a transfer arrives with the bank  *)
(* of its target mapped, and what is read or called without a bank switch  *)
(* lies in the bank that is mapped.                                        *)
THEOREM TransfersAlwaysLand == BanksSpec => []TransfersLand
<1>1. BanksInv => TransfersLand
  BY DEF BanksInv, RefsInv, PlaceInv, TransfersLand, Tight, Known, SameBank
<1> QED
  BY <1>1, BanksIndInit, BanksIndNext, PTL DEF BanksSpec

(* No bank is filled above the limit: what is larger lay in one bank       *)
(* before.                                                                 *)
THEOREM BanksAlwaysFit == BanksSpec => []BanksFit
<1>1. FitInv => BanksFit
  BY DEF FitInv
<1> QED
  BY <1>1, BanksIndInit, BanksIndNext, PTL DEF BanksSpec

(* Every move and every swap makes more references local to their bank, so *)
(* there are no more of them than there are references.                    *)
THEOREM ClimbingGains == BanksSpec => ClimbGains
<1>1. ASSUME BanksInv /\ FitInv, [BanksNext]_bankVars
      PROVE  [phase = "climb" /\ bank' # bank => LocalRefs' > LocalRefs]_<<phase, bank, refs>>
  <2> SUFFICES ASSUME phase = "climb", bank' # bank PROVE LocalRefs' > LocalRefs
    OBVIOUS
  <2>1. Climb
    BY <1>1 DEF BanksNext, bankVars, Refused, MirrorTables, FastBankSwitch, Merge, MergeDone, FirstFit, FitDone,
                Finish, StartClimb, ClimbDone, Dispatch, Follow
  <2> QED
    BY <1>1, <2>1, ClimbGainsRefs
<1> QED
  BY <1>1, BanksIndInit, BanksIndNext, PTL DEF BanksSpec, ClimbGains

-----------------------------------------------------------------------------
(* Native switches. The states a call and its dispatcher go through are    *)
(* those that Execute makes one after the other.                           *)
CpuState(a, nz, c, y, sp, st, zp, p) ==
  [a |-> a, nz |-> nz, c |-> c, y |-> y, sp |-> sp, stack |-> st, zp |-> zp, pc |-> p]

Trace(states, n) ==
  /\ states[0] = before
  /\ \A i \in 1 .. n : states[i] = Execute(states[i - 1], Dispatcher[i])

(* n instructions of the called routine have been run. Only those with an  *)
(* effect count as instructions of the dispatcher.                         *)
SwitchInv ==
  /\ site \in Sites /\ before \in CallStates
  /\ \E n \in 0 .. Len(Called) :
       /\ rest = [i \in 1 .. Len(Called) - n |-> Called[i + n]]
       /\ Documented => \E states : Trace(states, Effects(n)) /\ cpu = states[Effects(n)]

LEMMA ByteArithmetic ==
  ASSUME NEW x \in 0 .. Byte - 1
  PROVE  /\ (x + Byte - 1) % Byte \in 0 .. Byte - 1
         /\ (x + Byte - 1) % Byte # x
         /\ (((x + Byte - 1) % Byte) + 1) % Byte = x
         /\ x % Byte = x
<1>1. Byte \in Nat \ {0} /\ Byte >= 2 /\ x \in Nat
  BY SwitchAssumption
<1>2. CASE x = 0
  <2>1. x + Byte - 1 = Byte * 0 + (Byte - 1) /\ Byte - 1 \in 0 .. Byte - 1
    BY <1>1, <1>2
  <2>2. (x + Byte - 1) % Byte = Byte - 1
    BY <1>1, <2>1, DividedBy
  <2>3. Byte - 1 + 1 = Byte * 1 + 0 /\ 0 \in 0 .. Byte - 1 /\ 0 = Byte * 0 + 0
    BY <1>1
  <2>4. (Byte - 1 + 1) % Byte = 0 /\ 0 % Byte = 0
    BY <1>1, <2>3, DividedBy
  <2> QED
    BY <1>1, <1>2, <2>2, <2>4
<1>3. CASE x # 0
  <2>1. x + Byte - 1 = Byte * 1 + (x - 1) /\ x - 1 \in 0 .. Byte - 1
    BY <1>1, <1>3
  <2>2. (x + Byte - 1) % Byte = x - 1
    BY <1>1, <2>1, DividedBy
  <2>3. x - 1 + 1 = x /\ x = Byte * 0 + x
    BY <1>1
  <2>4. x % Byte = x
    BY <1>1, <2>3, DividedBy
  <2> QED
    BY <1>1, <1>3, <2>1, <2>2, <2>3, <2>4
<1> QED
  BY <1>2, <1>3

LEMMA WordBytes ==
  ASSUME NEW w \in 0 .. Byte * Byte - 1
  PROVE  /\ Low(w) \in 0 .. Byte - 1 /\ High(w) \in 0 .. Byte - 1
         /\ Word(Low(w), High(w)) = w
<1>1. Byte \in Nat \ {0} /\ Byte >= 2 /\ Byte * Byte \in Nat /\ w \in Nat /\ w < Byte * Byte
  BY SwitchAssumption
<1>2. w \div Byte \in Nat /\ w % Byte \in 0 .. Byte - 1 /\ w = Byte * (w \div Byte) + (w % Byte)
  BY <1>1, Divided
<1>3. w \div Byte <= Byte - 1
  <2> DEFINE q == w \div Byte
  <2>1. SUFFICES ASSUME q >= Byte PROVE FALSE
    BY <1>1, <1>2
  <2>2. q \in Nat /\ w >= Byte * q
    BY <1>1, <1>2
  <2> HIDE DEF q
  <2>3. q - Byte \in Nat /\ Byte * (q - Byte) \in Nat /\ Byte * q = Byte * Byte + Byte * (q - Byte)
    BY <1>1, <2>1, <2>2
  <2> QED
    BY <1>1, <2>2, <2>3
<1> QED
  BY <1>1, <1>2, <1>3 DEF Low, High, Word

(* Where the switch is taken: the case is one of the table, and A is small *)
(* enough for ASL to lose nothing.                                         *)
LEMMA TakenCase ==
  ASSUME site \in Sites, NEW a \in 0 .. Byte - 1, Specialized, a < Len(Targets)
  PROVE  /\ a + 1 \in DOMAIN site.words /\ Targets[a + 1] = site.words[a + 1]
         /\ 2 * a + 2 <= Byte - 1 /\ a \div Half = 0 /\ (2 * a) % Byte = 2 * a
<1> DEFINE known(n) == \A i \in 1 .. n : site.words[i] \in site.labels
           T == {n \in 0 .. Len(site.words) : n <= Half /\ known(n)}
           m == Max(T)
<1>1. site.words \in Seq(0 .. Byte * Byte - 1) /\ Len(site.words) \in Nat
  BY SwitchAssumption DEF IsSite
<1>2. m \in T
  <2>1. T \in SUBSET (0 .. Len(site.words)) /\ 0 \in T
    <3>1. Half \in Nat
      BY SwitchAssumption, Divided DEF Half
    <3> QED
      BY <1>1, <3>1
  <2> HIDE DEF T
  <2> QED
    BY <1>1, <2>1, MaxIsGreatest
<1>3. m \in 0 .. Len(site.words) /\ m \in Nat
  BY <1>1, <1>2
<1>4. Targets = SubSeq(site.words, 1, m)
  BY DEF Targets
<1> HIDE DEF m
<1>5. Len(Targets) = m /\ \A i \in 1 .. m : Targets[i] = site.words[i]
  BY <1>1, <1>3, <1>4
<1>6. Half \in Nat /\ 2 * Half <= Byte /\ Byte \in Nat \ {0}
  <2>1. Byte \in Nat /\ Byte >= 2 /\ 2 \in Nat \ {0}
    BY SwitchAssumption
  <2>2. Byte \div 2 \in Nat /\ Byte % 2 \in 0 .. 2 - 1 /\ Byte = 2 * (Byte \div 2) + (Byte % 2)
    BY <2>1, Divided
  <2> QED
    BY <2>1, <2>2 DEF Half
<1>7. a \in Nat /\ a < m /\ m <= Half - 1 /\ a < Half
  BY <1>3, <1>5, <1>6 DEF Specialized
<1>8. a + 1 \in DOMAIN site.words /\ Targets[a + 1] = site.words[a + 1]
  <2>1. a + 1 \in 1 .. m /\ a + 1 \in 1 .. Len(site.words)
    BY <1>3, <1>7
  <2>2. DOMAIN site.words = 1 .. Len(site.words)
    BY <1>1
  <2> QED
    BY <1>5, <2>1, <2>2
<1>9. 2 * a + 2 <= Byte - 1
  BY <1>3, <1>6, <1>7
<1>10. a \div Half = 0
  <2>1. a = Half * 0 + a /\ a \in 0 .. Half - 1 /\ Half \in Nat \ {0}
    BY <1>6, <1>7
  <2> QED
    BY <2>1, DividedBy
<1>11. (2 * a) % Byte = 2 * a
  <2>1. 2 * a = Byte * 0 + 2 * a /\ 2 * a \in 0 .. Byte - 1
    BY <1>6, <1>7, <1>9
  <2> QED
    BY <1>6, <2>1, DividedBy
<1> QED
  BY <1>8, <1>9, <1>10, <1>11

(* The two bytes of the word the case selects, as the dispatcher reads     *)
(* them through its base pointer.                                          *)
LEMMA TableReads ==
  ASSUME site \in Sites, NEW a \in Nat, a + 1 \in DOMAIN site.words
  PROVE  /\ TableByte(Word(Low(site.ret), High(site.ret)) + (2 * a + 1)) = Low(site.words[a + 1])
         /\ TableByte(Word(Low(site.ret), High(site.ret)) + (2 * a + 2)) = High(site.words[a + 1])
<1>1. site.ret \in 0 .. Byte * Byte - 1
  BY SwitchAssumption DEF IsSite
<1>2. Word(Low(site.ret), High(site.ret)) = site.ret /\ site.ret \in Nat
  BY <1>1, WordBytes
<1>3. site.ret + (2 * a + 1) - site.ret - 1 = 2 * a /\ site.ret + (2 * a + 2) - site.ret - 1 = 2 * a + 1
  BY <1>2
<1>4. /\ (2 * a) \div 2 = a /\ (2 * a) % 2 = 0
      /\ (2 * a + 1) \div 2 = a /\ (2 * a + 1) % 2 = 1
  <2>1. /\ 2 \in Nat \ {0} /\ 0 \in 0 .. 2 - 1 /\ 1 \in 0 .. 2 - 1
        /\ 2 * a \in Nat /\ 2 * a + 1 \in Nat /\ 2 * a = 2 * a + 0
    OBVIOUS
  <2> QED
    BY <2>1, DividedBy
<1> QED
  BY <1>2, <1>3, <1>4 DEF TableByte

(* What each instruction makes of a state.                                 *)
LEMMA CpuFields ==
  ASSUME NEW a, NEW nz, NEW c, NEW y, NEW sp, NEW st, NEW zp, NEW p
  PROVE  LET s == CpuState(a, nz, c, y, sp, st, zp, p)
         IN s.a = a /\ s.nz = nz /\ s.c = c /\ s.y = y /\ s.sp = sp /\ s.stack = st /\ s.zp = zp /\ s.pc = p
BY DEF CpuState

LEMMA CpuLoad ==
  ASSUME NEW a, NEW nz, NEW c, NEW y, NEW sp, NEW st, NEW zp, NEW p, NEW v
  PROVE  Load(CpuState(a, nz, c, y, sp, st, zp, p), v) = CpuState(v, v, c, y, sp, st, zp, p)
<1> DEFINE s == CpuState(a, nz, c, y, sp, st, zp, p)
           t == CpuState(v, nz, c, y, sp, st, zp, p)
<1>1. [s EXCEPT !.a = v] = t
  BY DEF CpuState
<1>2. [t EXCEPT !.nz = v] = CpuState(v, v, c, y, sp, st, zp, p)
  BY DEF CpuState
<1> HIDE DEF s, t
<1>3. Load(s, v) = CpuState(v, v, c, y, sp, st, zp, p)
  BY <1>1, <1>2 DEF Load
<1> QED
  BY <1>3 DEF s

Indexed(s, v) == [s EXCEPT !.y = v, !.nz = v]
Stored(memory, x, v) == [memory EXCEPT ![x] = v]

LEMMA CpuIndex ==
  ASSUME NEW a, NEW nz, NEW c, NEW y, NEW sp, NEW st, NEW zp, NEW p, NEW v
  PROVE  Indexed(CpuState(a, nz, c, y, sp, st, zp, p), v) = CpuState(a, v, c, v, sp, st, zp, p)
<1> DEFINE s == CpuState(a, nz, c, y, sp, st, zp, p)
           t == CpuState(a, nz, c, v, sp, st, zp, p)
<1>1. [s EXCEPT !.y = v] = t
  BY DEF CpuState
<1>2. [t EXCEPT !.nz = v] = CpuState(a, v, c, v, sp, st, zp, p)
  BY DEF CpuState
<1> HIDE DEF s, t
<1>3. Indexed(s, v) = CpuState(a, v, c, v, sp, st, zp, p)
  BY <1>1, <1>2 DEF Indexed
<1> QED
  BY <1>3 DEF s

LEMMA CpuPush ==
  ASSUME NEW a, NEW nz, NEW c, NEW y, NEW sp, NEW st, NEW zp, NEW p, NEW v
  PROVE  Push(CpuState(a, nz, c, y, sp, st, zp, p), v) =
           CpuState(a, nz, c, y, (sp + Byte - 1) % Byte, Stored(st, sp, v), zp, p)
<1> DEFINE d == (sp + Byte - 1) % Byte
           m == Stored(st, sp, v)
           s == CpuState(a, nz, c, y, sp, st, zp, p)
           t == CpuState(a, nz, c, y, sp, m, zp, p)
<1> HIDE DEF d, m
<1>1. s.sp = sp /\ s.stack = st
  BY CpuFields
<1>2. [s EXCEPT !.stack = m] = t
  BY DEF CpuState
<1>3. [t EXCEPT !.sp = d] = CpuState(a, nz, c, y, d, m, zp, p)
  BY DEF CpuState
<1> HIDE DEF s, t
<1>4. Push(s, v) = CpuState(a, nz, c, y, d, m, zp, p)
  BY <1>1, <1>2, <1>3 DEF Push, Stored, d, m
<1> QED
  BY <1>4 DEF s, d, m

LEMMA RunsJsr ==
  ASSUME NEW a, NEW nz, NEW c, NEW y, NEW sp, NEW st, NEW zp, NEW p
  PROVE  Execute(CpuState(a, nz, c, y, sp, st, zp, p), "jsr") =
           CpuState(a, nz, c, y, (((sp + Byte - 1) % Byte) + Byte - 1) % Byte,
             Stored(Stored(st, sp, High(site.ret)), (sp + Byte - 1) % Byte, Low(site.ret)), zp, p)
<1> DEFINE s == CpuState(a, nz, c, y, sp, st, zp, p)
           hi == High(site.ret)
           lo == Low(site.ret)
           d == (sp + Byte - 1) % Byte
           m == Stored(st, sp, hi)
           t == CpuState(a, nz, c, y, d, m, zp, p)
<1> HIDE DEF hi, lo, d, m
<1>1. Push(s, hi) = t
  BY CpuPush DEF d, m
<1>2. Push(t, lo) = CpuState(a, nz, c, y, (d + Byte - 1) % Byte, Stored(m, d, lo), zp, p)
  BY CpuPush
<1> HIDE DEF s, t
<1>3. Execute(s, "jsr") = CpuState(a, nz, c, y, (d + Byte - 1) % Byte, Stored(m, d, lo), zp, p)
  BY <1>1, <1>2 DEF Execute, hi, lo
<1> QED
  BY <1>3 DEF s, hi, lo, d, m

LEMMA RunsAsl ==
  ASSUME NEW a, NEW nz, NEW c, NEW y, NEW sp, NEW st, NEW zp, NEW p
  PROVE  Execute(CpuState(a, nz, c, y, sp, st, zp, p), "asl") =
           CpuState((2 * a) % Byte, (2 * a) % Byte, a \div Half, y, sp, st, zp, p)
<1> DEFINE s == CpuState(a, nz, c, y, sp, st, zp, p)
           e == (2 * a) % Byte
           f == a \div Half
           t == CpuState(e, e, c, y, sp, st, zp, p)
<1> HIDE DEF e, f
<1>1. s.a = a
  BY CpuFields
<1>2. Load(s, e) = t
  BY CpuLoad
<1>3. [t EXCEPT !.c = f] = CpuState(e, e, f, y, sp, st, zp, p)
  BY DEF CpuState
<1> HIDE DEF s, t
<1>4. Execute(s, "asl") = CpuState(e, e, f, y, sp, st, zp, p)
  BY <1>1, <1>2, <1>3 DEF Execute, e, f
<1> QED
  BY <1>4 DEF s, e, f

LEMMA RunsTay ==
  ASSUME NEW a, NEW nz, NEW c, NEW y, NEW sp, NEW st, NEW zp, NEW p
  PROVE  Execute(CpuState(a, nz, c, y, sp, st, zp, p), "tay") =
           CpuState(a, a, c, a, sp, st, zp, p)
<1> DEFINE s == CpuState(a, nz, c, y, sp, st, zp, p)
<1>1. s.a = a
  BY CpuFields
<1>2. Indexed(s, a) = CpuState(a, a, c, a, sp, st, zp, p)
  BY CpuIndex
<1> HIDE DEF s
<1>3. Execute(s, "tay") = CpuState(a, a, c, a, sp, st, zp, p)
  BY <1>1, <1>2 DEF Execute, Indexed
<1> QED
  BY <1>3 DEF s

LEMMA RunsPla ==
  ASSUME NEW a, NEW nz, NEW c, NEW y, NEW sp, NEW st, NEW zp, NEW p
  PROVE  Execute(CpuState(a, nz, c, y, sp, st, zp, p), "pla") =
           CpuState(st[(sp + 1) % Byte], st[(sp + 1) % Byte], c, y, (sp + 1) % Byte, st, zp, p)
<1> DEFINE s == CpuState(a, nz, c, y, sp, st, zp, p)
           u == (sp + 1) % Byte
           b == st[u]
           t == CpuState(a, nz, c, y, u, st, zp, p)
<1> HIDE DEF u, b
<1>1. s.sp = sp /\ s.stack = st
  BY CpuFields
<1>2. [s EXCEPT !.sp = u] = t
  BY DEF CpuState
<1>3. Load(t, b) = CpuState(b, b, c, y, u, st, zp, p)
  BY CpuLoad
<1> HIDE DEF s, t
<1>4. Execute(s, "pla") = CpuState(b, b, c, y, u, st, zp, p)
  BY <1>1, <1>2, <1>3 DEF Execute, Pull, u, b
<1> QED
  BY <1>4 DEF s, u, b

LEMMA RunsStaBase ==
  ASSUME NEW a, NEW nz, NEW c, NEW y, NEW sp, NEW st, NEW zp, NEW p
  PROVE  Execute(CpuState(a, nz, c, y, sp, st, zp, p), "sta_base") =
           CpuState(a, nz, c, y, sp, st, Stored(zp, site.base, a), p)
<1> DEFINE s == CpuState(a, nz, c, y, sp, st, zp, p)
           z == Stored(zp, site.base, a)
<1> HIDE DEF z
<1>1. s.a = a /\ s.zp = zp
  BY CpuFields
<1>2. [s EXCEPT !.zp = z] = CpuState(a, nz, c, y, sp, st, z, p)
  BY DEF CpuState
<1> HIDE DEF s
<1>3. Execute(s, "sta_base") = CpuState(a, nz, c, y, sp, st, z, p)
  BY <1>1, <1>2 DEF Execute, Stored, z
<1> QED
  BY <1>3 DEF s, z

LEMMA RunsStaBase1 ==
  ASSUME NEW a, NEW nz, NEW c, NEW y, NEW sp, NEW st, NEW zp, NEW p
  PROVE  Execute(CpuState(a, nz, c, y, sp, st, zp, p), "sta_base1") =
           CpuState(a, nz, c, y, sp, st, Stored(zp, site.base + 1, a), p)
<1> DEFINE s == CpuState(a, nz, c, y, sp, st, zp, p)
           z == Stored(zp, site.base + 1, a)
<1> HIDE DEF z
<1>1. s.a = a /\ s.zp = zp
  BY CpuFields
<1>2. [s EXCEPT !.zp = z] = CpuState(a, nz, c, y, sp, st, z, p)
  BY DEF CpuState
<1> HIDE DEF s
<1>3. Execute(s, "sta_base1") = CpuState(a, nz, c, y, sp, st, z, p)
  BY <1>1, <1>2 DEF Execute, Stored, z
<1> QED
  BY <1>3 DEF s, z

LEMMA RunsStaPtr ==
  ASSUME NEW a, NEW nz, NEW c, NEW y, NEW sp, NEW st, NEW zp, NEW p
  PROVE  Execute(CpuState(a, nz, c, y, sp, st, zp, p), "sta_ptr") =
           CpuState(a, nz, c, y, sp, st, Stored(zp, site.pointer, a), p)
<1> DEFINE s == CpuState(a, nz, c, y, sp, st, zp, p)
           z == Stored(zp, site.pointer, a)
<1> HIDE DEF z
<1>1. s.a = a /\ s.zp = zp
  BY CpuFields
<1>2. [s EXCEPT !.zp = z] = CpuState(a, nz, c, y, sp, st, z, p)
  BY DEF CpuState
<1> HIDE DEF s
<1>3. Execute(s, "sta_ptr") = CpuState(a, nz, c, y, sp, st, z, p)
  BY <1>1, <1>2 DEF Execute, Stored, z
<1> QED
  BY <1>3 DEF s, z

LEMMA RunsStaPtr1 ==
  ASSUME NEW a, NEW nz, NEW c, NEW y, NEW sp, NEW st, NEW zp, NEW p
  PROVE  Execute(CpuState(a, nz, c, y, sp, st, zp, p), "sta_ptr1") =
           CpuState(a, nz, c, y, sp, st, Stored(zp, site.pointer + 1, a), p)
<1> DEFINE s == CpuState(a, nz, c, y, sp, st, zp, p)
           z == Stored(zp, site.pointer + 1, a)
<1> HIDE DEF z
<1>1. s.a = a /\ s.zp = zp
  BY CpuFields
<1>2. [s EXCEPT !.zp = z] = CpuState(a, nz, c, y, sp, st, z, p)
  BY DEF CpuState
<1> HIDE DEF s
<1>3. Execute(s, "sta_ptr1") = CpuState(a, nz, c, y, sp, st, z, p)
  BY <1>1, <1>2 DEF Execute, Stored, z
<1> QED
  BY <1>3 DEF s, z

LEMMA RunsIny ==
  ASSUME NEW a, NEW nz, NEW c, NEW y, NEW sp, NEW st, NEW zp, NEW p
  PROVE  Execute(CpuState(a, nz, c, y, sp, st, zp, p), "iny") =
           CpuState(a, (y + 1) % Byte, c, (y + 1) % Byte, sp, st, zp, p)
<1> DEFINE s == CpuState(a, nz, c, y, sp, st, zp, p)
           i == (y + 1) % Byte
<1> HIDE DEF i
<1>1. s.y = y
  BY CpuFields
<1>2. Indexed(s, i) = CpuState(a, i, c, i, sp, st, zp, p)
  BY CpuIndex
<1> HIDE DEF s
<1>3. Execute(s, "iny") = CpuState(a, i, c, i, sp, st, zp, p)
  BY <1>1, <1>2 DEF Execute, Indexed, i
<1> QED
  BY <1>3 DEF s, i

LEMMA RunsLda ==
  ASSUME NEW a, NEW nz, NEW c, NEW y, NEW sp, NEW st, NEW zp, NEW p
  PROVE  Execute(CpuState(a, nz, c, y, sp, st, zp, p), "lda") =
           CpuState(TableByte(Word(zp[site.base], zp[site.base + 1]) + y),
             TableByte(Word(zp[site.base], zp[site.base + 1]) + y), c, y, sp, st, zp, p)
<1> DEFINE s == CpuState(a, nz, c, y, sp, st, zp, p)
           v == TableByte(Word(zp[site.base], zp[site.base + 1]) + y)
<1> HIDE DEF v
<1>1. s.y = y /\ s.zp = zp
  BY CpuFields
<1>2. Load(s, v) = CpuState(v, v, c, y, sp, st, zp, p)
  BY CpuLoad
<1> HIDE DEF s
<1>3. Execute(s, "lda") = CpuState(v, v, c, y, sp, st, zp, p)
  BY <1>1, <1>2 DEF Execute, Indirect, v
<1> QED
  BY <1>3 DEF s, v

LEMMA RunsJmp ==
  ASSUME NEW a, NEW nz, NEW c, NEW y, NEW sp, NEW st, NEW zp, NEW p
  PROVE  Execute(CpuState(a, nz, c, y, sp, st, zp, p), "jmp") =
           CpuState(a, nz, c, y, sp, st, zp, Word(zp[site.pointer], zp[site.pointer + 1]))
<1> DEFINE s == CpuState(a, nz, c, y, sp, st, zp, p)
           w == Word(zp[site.pointer], zp[site.pointer + 1])
<1> HIDE DEF w
<1>1. s.zp = zp
  BY CpuFields
<1>2. [s EXCEPT !.pc = w] = CpuState(a, nz, c, y, sp, st, zp, w)
  BY DEF CpuState
<1> HIDE DEF s
<1>3. Execute(s, "jmp") = CpuState(a, nz, c, y, sp, st, zp, w)
  BY <1>1, <1>2 DEF Execute, w
<1> QED
  BY <1>3 DEF s, w

(* The fourteen states of a call whose switch is taken.                    *)
LEMMA RunOfTheDispatcher ==
  ASSUME site \in Sites, before \in CallStates, NEW states, Trace(states, 14), Taken(before)
  PROVE  states[14] = Switched(before)
<1> DEFINE A == before.a
           P == before.sp
           P1 == (P + Byte - 1) % Byte
           P2 == (P1 + Byte - 1) % Byte
           L == Low(site.ret)
           H == High(site.ret)
           st0 == before.stack
           st == Stored(Stored(st0, P, H), P1, L)
           w == site.words[A + 1]
           lw == Low(w)
           hw == High(w)
           e == 2 * A
           c == 0
           y1 == 2 * A + 1
           y2 == 2 * A + 2
           n0 == before.nz
           c0 == before.c
           y0 == before.y
           z0 == before.zp
           z1 == Stored(z0, site.base, L)
           z2 == Stored(z1, site.base + 1, H)
           z3 == Stored(z2, site.pointer, lw)
           z4 == Stored(z3, site.pointer + 1, hw)
           pc == before.pc
           s0 == states[0]
           s1 == states[1]
           s2 == states[2]
           s3 == states[3]
           s4 == states[4]
           s5 == states[5]
           s6 == states[6]
           s7 == states[7]
           s8 == states[8]
           s9 == states[9]
           s10 == states[10]
           s11 == states[11]
           s12 == states[12]
           s13 == states[13]
           s14 == states[14]
<1>1. /\ before = CpuState(A, n0, c0, y0, P, st0, z0, pc)
      /\ A \in 0 .. Byte - 1 /\ P \in 0 .. Byte - 1 /\ A \in Nat
      /\ st0 \in [0 .. Byte - 1 -> 0 .. Byte - 1] /\ z0 \in [0 .. Byte - 1 -> 0 .. Byte - 1]
  <2>1. before \in States /\ Byte \in Nat
    BY SwitchAssumption
  <2>2. before = [a |-> before.a, nz |-> before.nz, c |-> before.c, y |-> before.y, sp |-> before.sp,
                  stack |-> before.stack, zp |-> before.zp, pc |-> before.pc]
    BY <2>1 DEF States
  <2>3. /\ A \in 0 .. Byte - 1 /\ P \in 0 .. Byte - 1
        /\ st0 \in [0 .. Byte - 1 -> 0 .. Byte - 1] /\ z0 \in [0 .. Byte - 1 -> 0 .. Byte - 1]
    BY <2>1 DEF States
  <2>4. A \in Nat
    BY <2>1, <2>3
  <2> QED
    BY <2>2, <2>3, <2>4 DEF CpuState
<1>2. /\ A + 1 \in DOMAIN site.words /\ Targets[A + 1] = w
      /\ 2 * A + 2 <= Byte - 1 /\ A \div Half = 0 /\ (2 * A) % Byte = 2 * A
  BY <1>1, TakenCase DEF Taken
<1>3. /\ site.ret \in 0 .. Byte * Byte - 1 /\ w \in 0 .. Byte * Byte - 1
      /\ site.base \in 0 .. Byte - 2 /\ site.pointer \in 0 .. Byte - 2
      /\ {site.base, site.base + 1} \cap {site.pointer, site.pointer + 1} = {}
      /\ Byte \in Nat /\ Byte >= 2
  BY <1>2, SwitchAssumption DEF IsSite
<1>4. /\ L \in 0 .. Byte - 1 /\ H \in 0 .. Byte - 1 /\ Word(L, H) = site.ret
      /\ Low(w) \in 0 .. Byte - 1 /\ High(w) \in 0 .. Byte - 1 /\ Word(Low(w), High(w)) = w
  BY <1>3, WordBytes
<1>5. /\ P1 \in 0 .. Byte - 1 /\ P1 # P /\ P2 \in 0 .. Byte - 1
      /\ (P2 + 1) % Byte = P1 /\ (P1 + 1) % Byte = P
  BY <1>1, ByteArithmetic
<1>6. st[P1] = L /\ st[P] = H
  BY <1>1, <1>5 DEF Stored
<1>7. /\ z2[site.base] = L /\ z2[site.base + 1] = H
      /\ z3[site.base] = L /\ z3[site.base + 1] = H
      /\ z4[site.pointer] = Low(w) /\ z4[site.pointer + 1] = High(w)
  <2>1. /\ site.base \in 0 .. Byte - 1 /\ site.base + 1 \in 0 .. Byte - 1
        /\ site.pointer \in 0 .. Byte - 1 /\ site.pointer + 1 \in 0 .. Byte - 1
        /\ site.base # site.base + 1 /\ site.pointer # site.pointer + 1
        /\ site.base # site.pointer /\ site.base # site.pointer + 1
        /\ site.base + 1 # site.pointer /\ site.base + 1 # site.pointer + 1
    <3> DEFINE b == site.base
               q == site.pointer
    <3>1. b \in 0 .. Byte - 2 /\ q \in 0 .. Byte - 2 /\ Byte \in Nat /\ Byte >= 2
      BY <1>3
    <3>2. {b, b + 1} \cap {q, q + 1} = {}
      BY <1>3
    <3> HIDE DEF b, q
    <3>3. b # q /\ b # q + 1 /\ b + 1 # q /\ b + 1 # q + 1
      BY <3>2
    <3>4. /\ b \in 0 .. Byte - 1 /\ b + 1 \in 0 .. Byte - 1 /\ b # b + 1
          /\ q \in 0 .. Byte - 1 /\ q + 1 \in 0 .. Byte - 1 /\ q # q + 1
      BY <3>1
    <3> QED
      BY <3>3, <3>4 DEF b, q
  <2>2. DOMAIN z0 = 0 .. Byte - 1
    BY <1>1
  <2> HIDE DEF z0
  <2> QED
    BY <2>1, <2>2 DEF Stored
<1>8. /\ (2 * A + 1) % Byte = 2 * A + 1 /\ (2 * A + 1 + 1) % Byte = 2 * A + 2
  <2>1. 2 * A + 1 \in 0 .. Byte - 1 /\ 2 * A + 2 \in 0 .. Byte - 1 /\ 2 * A + 1 + 1 = 2 * A + 2
    <3>1. A \in Nat /\ Byte \in Nat /\ 2 * A + 2 <= Byte - 1
      BY <1>1, <1>2, <1>3
    <3> HIDE DEF A
    <3> QED
      BY <3>1
  <2>2. (2 * A + 1) % Byte = 2 * A + 1 /\ (2 * A + 2) % Byte = 2 * A + 2
    BY <2>1, ByteArithmetic
  <2> QED
    BY <2>1, <2>2
<1>9. /\ TableByte(Word(L, H) + (2 * A + 1)) = Low(w)
      /\ TableByte(Word(L, H) + (2 * A + 2)) = High(w)
  BY <1>1, <1>2, TableReads
<1>10. /\ Dispatcher[1] = "jsr" /\ Dispatcher[2] = "asl" /\ Dispatcher[3] = "tay" /\ Dispatcher[4] = "pla"
       /\ Dispatcher[5] = "sta_base" /\ Dispatcher[6] = "pla" /\ Dispatcher[7] = "sta_base1"
       /\ Dispatcher[8] = "iny" /\ Dispatcher[9] = "lda" /\ Dispatcher[10] = "sta_ptr"
       /\ Dispatcher[11] = "iny" /\ Dispatcher[12] = "lda" /\ Dispatcher[13] = "sta_ptr1"
       /\ Dispatcher[14] = "jmp"
  BY DEF Dispatcher
<1>11. /\ s0 = before
       /\ s1 = Execute(s0, "jsr") /\ s2 = Execute(s1, "asl") /\ s3 = Execute(s2, "tay")
       /\ s4 = Execute(s3, "pla") /\ s5 = Execute(s4, "sta_base") /\ s6 = Execute(s5, "pla")
       /\ s7 = Execute(s6, "sta_base1") /\ s8 = Execute(s7, "iny") /\ s9 = Execute(s8, "lda")
       /\ s10 = Execute(s9, "sta_ptr") /\ s11 = Execute(s10, "iny") /\ s12 = Execute(s11, "lda")
       /\ s13 = Execute(s12, "sta_ptr1") /\ s14 = Execute(s13, "jmp")
  <2>1. \A i \in 1 .. 14 : states[i] = Execute(states[i - 1], Dispatcher[i])
    BY DEF Trace
  <2>2. states[0] = before
    BY DEF Trace
  <2> QED
    BY ONLY <2>1, <2>2, <1>10
<1>12. (2 * A) % Byte = e /\ A \div Half = c
  BY <1>2
<1>13. (e + 1) % Byte = y1
  BY <1>8
<1>14. (y1 + 1) % Byte = y2
  BY <1>8
<1>15. TableByte(Word(z2[site.base], z2[site.base + 1]) + y1) = lw
  BY <1>7, <1>9
<1>16. TableByte(Word(z3[site.base], z3[site.base + 1]) + y2) = hw
  BY <1>7, <1>9
<1>17. Word(z4[site.pointer], z4[site.pointer + 1]) = w
  BY <1>4, <1>7
<1>18. s0 = CpuState(A, n0, c0, y0, P, st0, z0, pc)
  BY <1>1, <1>11
<1>19. (P2 + 1) % Byte = P1
  BY <1>5
<1>20. (P1 + 1) % Byte = P
  BY <1>5
<1> HIDE DEF A, P, P1, P2, L, H, st0, st, w, lw, hw, e, c, y1, y2, n0, c0, y0, z0, z1, z2, z3, z4, pc,
             s0, s1, s2, s3, s4, s5, s6, s7, s8, s9, s10, s11, s12, s13, s14
<1>21. s1 = CpuState(A, n0, c0, y0, P2, st, z0, pc)
  <2>1. s1 = Execute(s0, "jsr")
    BY <1>11
  <2> QED
    BY <2>1, <1>18, RunsJsr DEF P1, P2, L, H, st
<1>22. s2 = CpuState(e, e, c, y0, P2, st, z0, pc)
  <2>1. s2 = Execute(s1, "asl")
    BY <1>11
  <2> QED
    BY <2>1, <1>12, <1>21, RunsAsl
<1>23. s3 = CpuState(e, e, c, e, P2, st, z0, pc)
  <2>1. s3 = Execute(s2, "tay")
    BY <1>11
  <2> QED
    BY <2>1, <1>22, RunsTay
<1>24. s4 = CpuState(L, L, c, e, P1, st, z0, pc)
  <2>1. s4 = Execute(s3, "pla")
    BY <1>11
  <2> QED
    BY <2>1, <1>6, <1>19, <1>23, RunsPla
<1>25. s5 = CpuState(L, L, c, e, P1, st, z1, pc)
  <2>1. s5 = Execute(s4, "sta_base")
    BY <1>11
  <2> QED
    BY <2>1, <1>24, RunsStaBase DEF z1
<1>26. s6 = CpuState(H, H, c, e, P, st, z1, pc)
  <2>1. s6 = Execute(s5, "pla")
    BY <1>11
  <2> QED
    BY <2>1, <1>6, <1>20, <1>25, RunsPla
<1>27. s7 = CpuState(H, H, c, e, P, st, z2, pc)
  <2>1. s7 = Execute(s6, "sta_base1")
    BY <1>11
  <2> QED
    BY <2>1, <1>26, RunsStaBase1 DEF z2
<1>28. s8 = CpuState(H, y1, c, y1, P, st, z2, pc)
  <2>1. s8 = Execute(s7, "iny")
    BY <1>11
  <2> QED
    BY <2>1, <1>13, <1>27, RunsIny
<1>29. s9 = CpuState(lw, lw, c, y1, P, st, z2, pc)
  <2>1. s9 = Execute(s8, "lda")
    BY <1>11
  <2> QED
    BY <2>1, <1>15, <1>28, RunsLda
<1>30. s10 = CpuState(lw, lw, c, y1, P, st, z3, pc)
  <2>1. s10 = Execute(s9, "sta_ptr")
    BY <1>11
  <2> QED
    BY <2>1, <1>29, RunsStaPtr DEF z3
<1>31. s11 = CpuState(lw, y2, c, y2, P, st, z3, pc)
  <2>1. s11 = Execute(s10, "iny")
    BY <1>11
  <2> QED
    BY <2>1, <1>14, <1>30, RunsIny
<1>32. s12 = CpuState(hw, hw, c, y2, P, st, z3, pc)
  <2>1. s12 = Execute(s11, "lda")
    BY <1>11
  <2> QED
    BY <2>1, <1>16, <1>31, RunsLda
<1>33. s13 = CpuState(hw, hw, c, y2, P, st, z4, pc)
  <2>1. s13 = Execute(s12, "sta_ptr1")
    BY <1>11
  <2> QED
    BY <2>1, <1>32, RunsStaPtr1 DEF z4
<1>34. s14 = CpuState(hw, hw, c, y2, P, st, z4, w)
  <2>1. s14 = Execute(s13, "jmp")
    BY <1>11
  <2> QED
    BY <2>1, <1>17, <1>33, RunsJmp
<1> QED
  BY <1>2, <1>34 DEF Switched, SwitchY, CpuState, Stored, A, P, P1, L, H, st0, st, lw, hw, e, c, y2, z0, z1, z2, z3, z4, s14

(* The called routine, and how its instructions with an effect are counted. *)
LEMMA CalledIsSeq ==
  ASSUME site \in Sites
  PROVE  Called \in Seq({"jsr"} \cup Instructions) /\ Len(Called) \in Nat /\ DOMAIN Called = 1 .. Len(Called)
<1>1. site.body \in Seq(Instructions)
  BY SwitchAssumption DEF IsSite
<1>2. site.body \in Seq({"jsr"} \cup Instructions) /\ <<"jsr">> \in Seq({"jsr"} \cup Instructions)
  <2> DEFINE I == Instructions
  <2>1. site.body \in Seq(I)
    BY <1>1
  <2> HIDE DEF I
  <2>2. site.body \in Seq({"jsr"} \cup I) /\ <<"jsr">> \in Seq({"jsr"} \cup I)
    BY <2>1
  <2> QED
    BY <2>2 DEF I
<1> QED
  BY <1>2 DEF Called

LEMMA EffectsCount ==
  ASSUME NEW n \in Nat
  PROVE  /\ Effects(0) = 0 /\ Effects(n) \in Nat
         /\ Called[n + 1] = "nop" => Effects(n + 1) = Effects(n)
         /\ Called[n + 1] # "nop" => Effects(n + 1) = Effects(n) + 1
<1> DEFINE S(k) == {i \in 1 .. k : Called[i] # "nop"}
<1>1. IsFiniteSet(S(n)) /\ Cardinality(S(n)) \in Nat
  <2>1. IsFiniteSet(1 .. n) /\ S(n) \subseteq 1 .. n
    BY FS_Interval
  <2> QED
    BY <2>1, FS_Subset, FS_CardinalityType
<1>2. S(0) = {}
  OBVIOUS
<1>3. 1 .. n + 1 = (1 .. n) \cup {n + 1} /\ n + 1 \notin 1 .. n
  OBVIOUS
<1>4. CASE Called[n + 1] = "nop"
  <2>1. S(n + 1) = S(n)
    BY <1>3, <1>4
  <2> QED
    BY <1>1, <1>2, <1>4, <2>1, FS_EmptySet DEF Effects
<1>5. CASE Called[n + 1] # "nop"
  <2>1. S(n + 1) = S(n) \cup {n + 1} /\ n + 1 \notin S(n)
    BY <1>3, <1>5
  <2>2. Cardinality(S(n + 1)) = Cardinality(S(n)) + 1
    BY <1>1, <2>1, FS_AddElement
  <2> QED
    BY <1>1, <1>2, <1>5, <2>2, FS_EmptySet DEF Effects
<1> QED
  BY <1>4, <1>5

(* specialize_inline_dispatchers.py: where the pass replaces the call of a *)
(* dispatcher of the documented shape, with anything that has no effect    *)
(* between its instructions, the native switch leaves the state that the   *)
(* call and the dispatcher would, whatever the table, the case and the     *)
(* state in which the call is reached.                                     *)
THEOREM SwitchesAreExact == SwitchSpec => []SwitchExact
<1>1. SwitchInit => SwitchInv
  <2> SUFFICES ASSUME SwitchInit PROVE SwitchInv
    OBVIOUS
  <2> DEFINE states == [i \in 0 .. 0 |-> before]
             N == Len(Called)
  <2>1. Called \in Seq({"jsr"} \cup Instructions) /\ N \in Nat /\ DOMAIN Called = 1 .. N
    BY CalledIsSeq DEF SwitchInit
  <2>2. rest = [i \in 1 .. N - 0 |-> Called[i + 0]]
    <3> HIDE DEF N
    <3>1. Called = [i \in 1 .. N |-> Called[i]]
      BY <2>1
    <3>2. [i \in 1 .. N |-> Called[i]] = [i \in 1 .. N - 0 |-> Called[i + 0]]
      BY <2>1
    <3> QED
      BY <3>1, <3>2 DEF SwitchInit
  <2>3. Effects(0) = 0 /\ 0 \in 0 .. N
    BY <2>1, EffectsCount
  <2>4. Trace(states, Effects(0)) /\ cpu = states[Effects(0)]
    BY <2>3 DEF SwitchInit, Trace
  <2> HIDE DEF states
  <2> QED
    BY <2>2, <2>3, <2>4 DEF SwitchInit, SwitchInv
<1>2. SwitchInv /\ [SwitchNext]_switchVars => SwitchInv'
  <2> SUFFICES ASSUME SwitchInv, [SwitchNext]_switchVars PROVE SwitchInv'
    OBVIOUS
  <2>1. CASE UNCHANGED switchVars
    <3>1. site' = site /\ before' = before /\ cpu' = cpu /\ rest' = rest
      BY <2>1 DEF switchVars
    <3>2. \A s, i : Execute(s, i)' = Execute(s, i)
      BY <3>1 DEF Execute, Push, Pull, Load, Indirect, TableByte
    <3>3. \A s, n : Trace(s, n)' <=> Trace(s, n)
      BY <3>1, <3>2 DEF Trace
    <3>4. Called' = Called
      BY <3>1 DEF Called
    <3>5. (Documented' <=> Documented) /\ \A n : Effects(n)' = Effects(n)
      BY <3>4 DEF Documented, Effects
    <3> QED
      BY <3>1, <3>3, <3>4, <3>5 DEF SwitchInv
  <2>2. CASE Step
    <3> DEFINE N == Len(Called)
    <3>1. Called \in Seq({"jsr"} \cup Instructions) /\ N \in Nat /\ DOMAIN Called = 1 .. N
      BY CalledIsSeq DEF SwitchInv
    <3>2. PICK n \in 0 .. N :
            /\ rest = [i \in 1 .. N - n |-> Called[i + n]]
            /\ Documented => \E states : Trace(states, Effects(n)) /\ cpu = states[Effects(n)]
      BY DEF SwitchInv
    <3> HIDE DEF N
    <3>3. n \in Nat /\ n < N /\ n + 1 \in 0 .. N /\ n + 1 \in DOMAIN Called
      BY <2>2, <3>1, <3>2 DEF Step
    <3>4. rest' = [i \in 1 .. N - (n + 1) |-> Called[i + (n + 1)]]
      BY <2>2, <3>1, <3>2, <3>3 DEF Step
    <3>5. cpu' = Execute(cpu, Called[n + 1])
      BY <2>2, <3>1, <3>2, <3>3 DEF Step
    <3>6. site' = site /\ before' = before
      BY <2>2 DEF Step
    <3>7. \A s, i : Execute(s, i)' = Execute(s, i)
      BY <3>6 DEF Execute, Push, Pull, Load, Indirect, TableByte
    <3>8. \A s, k : Trace(s, k)' <=> Trace(s, k)
      BY <3>6, <3>7 DEF Trace
    <3>9. Called' = Called
      BY <3>6 DEF Called
    <3>10. (Documented' <=> Documented) /\ \A k : Effects(k)' = Effects(k)
      BY <3>9 DEF Documented, Effects
    <3>11. ASSUME Documented
           PROVE  \E t : Trace(t, Effects(n + 1)) /\ cpu' = t[Effects(n + 1)]
      <4> DEFINE e == Effects(n)
      <4>1. PICK states : Trace(states, e) /\ cpu = states[e]
        BY <3>2, <3>11
      <4>2. e \in Nat
        BY <3>3, EffectsCount
      <4>3. CASE Called[n + 1] = "nop"
        <5>1. Execute(cpu, "nop") = cpu
          BY DEF Execute
        <5>2. Effects(n + 1) = e
          BY <3>3, <4>3, EffectsCount
        <5> HIDE DEF e
        <5> QED
          BY <3>5, <4>1, <4>3, <5>1, <5>2
      <4>4. CASE Called[n + 1] # "nop"
        <5>1. Effects(n + 1) = e + 1
          BY <3>3, <4>4, EffectsCount
        <5>2. Called[n + 1] = Dispatcher[e + 1]
          BY <3>3, <3>11, <4>4, <5>1 DEF Documented
        <5> HIDE DEF e
        <5> DEFINE next == [i \in 0 .. e + 1 |-> IF i <= e THEN states[i] ELSE cpu']
        <5>3. next[0] = before
          BY <4>1, <4>2 DEF Trace
        <5>4. ASSUME NEW i \in 1 .. e PROVE next[i] = Execute(next[i - 1], Dispatcher[i])
          <6>1. next[i] = states[i] /\ next[i - 1] = states[i - 1]
            BY <4>2
          <6>2. states[i] = Execute(states[i - 1], Dispatcher[i])
            BY <4>1 DEF Trace
          <6> HIDE DEF next
          <6> QED
            BY <6>1, <6>2
        <5>5. next[e + 1] = cpu' /\ next[e + 1 - 1] = states[e]
          BY <4>2
        <5> HIDE DEF next
        <5>6. ASSUME NEW i \in 1 .. e + 1 PROVE i \in 1 .. e \/ i = e + 1
          BY <4>2
        <5>7. cpu' = Execute(states[e], Dispatcher[e + 1])
          BY <3>5, <4>1, <5>2
        <5>8. next[0] = before /\ \A i \in 1 .. e + 1 : next[i] = Execute(next[i - 1], Dispatcher[i])
          <6>1. ASSUME NEW i \in 1 .. e + 1, i = e + 1 PROVE next[i] = Execute(next[i - 1], Dispatcher[i])
            BY <4>2, <5>5, <5>7, <6>1
          <6> QED
            BY <5>3, <5>4, <5>6, <6>1
        <5>9. PICK t : t = next
          OBVIOUS
        <5>10. Trace(t, e + 1)
          BY <5>8, <5>9 DEF Trace
        <5>11. cpu' = t[e + 1]
          BY <5>5, <5>9
        <5> QED
          BY <5>1, <5>10, <5>11
      <4> QED
        BY <4>3, <4>4
    <3>12. Documented' => \E t : Trace(t, Effects(n + 1))' /\ cpu' = t[Effects(n + 1)']
      BY <3>8, <3>10, <3>11
    <3> QED
      BY <3>3, <3>4, <3>6, <3>9, <3>12 DEF SwitchInv, N
  <2> QED
    BY <2>1, <2>2 DEF SwitchNext, Done
<1>3. SwitchInv => SwitchExact
  <2> SUFFICES ASSUME SwitchInv, rest = <<>>, Documented, Taken(before) PROVE cpu = Switched(before)
    BY DEF SwitchExact
  <2> DEFINE N == Len(Called)
  <2>1. N \in Nat
    BY CalledIsSeq DEF SwitchInv
  <2>2. PICK n \in 0 .. N :
          /\ rest = [i \in 1 .. N - n |-> Called[i + n]]
          /\ \E s : Trace(s, Effects(n)) /\ cpu = s[Effects(n)]
    BY DEF SwitchInv
  <2> HIDE DEF N
  <2>3. n = N
    BY <2>1, <2>2
  <2>4. Effects(n) = 14
    BY <2>3 DEF Documented, Dispatcher, N
  <2>5. PICK states : Trace(states, 14) /\ cpu = states[14]
    BY <2>2, <2>4
  <2> QED
    BY <2>5, RunOfTheDispatcher DEF SwitchInv
<1> QED
  BY <1>1, <1>2, <1>3, PTL DEF SwitchSpec

=============================================================================
