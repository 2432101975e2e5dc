----------------------------- MODULE ShortJumps -----------------------------
(* tools/widen_generated_jumps.py: the last pass decides for every jump to *)
(* a generated label whether the two-byte JR reaches it. It counts three   *)
(* bytes for every instruction in between, whatever its real size.         *)
EXTENDS Integers, Sequences, FiniteSets, FiniteSetsExt, Functions

CONSTANTS
  Texts,     \* see IsText
  JrRange      \* stands for 128: JR goes from -JrRange to JrRange - 1

VARIABLES
  text,      \* the lines as they were; never changes
  out,       \* the lines as rewritten so far
  line       \* the next line to look at

textVars == <<text, out, line>>

(* kind: "label", "section", "insn" of 1 to 3 bytes, "data" (directives,   *)
(* macros, anonymous labels) of any size, or "jr" and "jp" to a label.     *)
MaxSize == 3
RealSize(l) ==
  CASE l.kind = "jr" -> 2
    [] l.kind = "jp" -> 3
    [] l.kind \in {"label", "section"} -> 0
    [] OTHER -> l.size

IsText(t) ==
  /\ t \in Seq([kind : {"label", "section", "insn", "data", "jr", "jp"}, size : Nat, to : Nat])
  /\ \A i \in DOMAIN t : t[i].kind = "insn" => t[i].size \in 1..MaxSize

ASSUME TextsAreReal == JrRange \in Nat /\ \A t \in Texts : IsText(t)

SectionOf(i) == Cardinality({j \in 1..i : text[j].kind = "section"})

(* The last line with the label counts, as for a Python dictionary.        *)
LabelLines(name) == {i \in DOMAIN text : text[i].kind = "label" /\ text[i].to = name}

(* 0 where nothing is known of the size: Unknown(i).                       *)
MaxBytes(l) == IF l.kind \in {"label", "section", "data"} THEN 0 ELSE MaxSize
Unknown(l) == l.kind = "data"

Inside(i, t) == IF t > i THEN (i + 1)..(t - 1) ELSE (t + 1)..(i - 1)
Total(S) == SumFunctionOnSet([j \in DOMAIN text |-> MaxBytes(text[j])], S)

(* Mutant of Reaches: the JR itself is not counted when it goes back.      *)
ReachesLoosely(i, t) ==
  IF t > i THEN Total(Inside(i, t)) <= JrRange - 1 ELSE Total(Inside(i, t)) <= JrRange

Reaches(i, t) ==
  IF t > i THEN Total(Inside(i, t)) <= JrRange - 1 ELSE Total(Inside(i, t)) + 2 <= JrRange

ProvablyInRange(i, name) ==
  /\ LabelLines(name) # {}
  /\ LET t == Max(LabelLines(name))
     IN /\ SectionOf(t) = SectionOf(i) /\ SectionOf(i) > 0 /\ t # i
        /\ \A j \in Inside(i, t) : ~Unknown(text[j])
        /\ Reaches(i, t)

IsJump(l) == l.kind \in {"jr", "jp"}

Normalize ==
  /\ line \in DOMAIN text
  /\ out' = IF IsJump(text[line])
            THEN [out EXCEPT ![line].kind =
                    IF ProvablyInRange(line, text[line].to) THEN "jr" ELSE "jp"]
            ELSE out
  /\ line' = line + 1
  /\ UNCHANGED text

Finished == line = Len(text) + 1 /\ UNCHANGED textVars

TextInit ==
  /\ text \in Texts
  /\ out = text
  /\ line = 1

TextNext == Normalize \/ Finished

TextSpec == TextInit /\ [][TextNext]_textVars

-----------------------------------------------------------------------------
(* widen_generated_jumps.py:22: every JR that is left reaches its label,   *)
(* with the bytes that lie between them once all jumps have been rewritten. *)
JumpsReach ==
  line = Len(text) + 1 =>
    \A i \in DOMAIN out : out[i].kind = "jr" =>
      \E t \in LabelLines(out[i].to) :
        LET bytes == SumFunctionOnSet([j \in DOMAIN out |-> RealSize(out[j])], Inside(i, t))
        IN /\ SectionOf(t) = SectionOf(i)
           /\ IF t > i THEN bytes <= JrRange - 1 ELSE bytes + 2 <= JrRange

=============================================================================
