------------------------------ MODULE Returns ------------------------------
(* The passes that put guarded jumps before the dispatcher where a dynamic *)
(* 6502 address has likely values: tools/fast_leaf_rts_dispatch.py,        *)
(* fast_subroutine_rts_dispatch.py with its wrapper _inline,               *)
(* defer_subroutine_rts_increment.py, fast_rti_dispatch.py and             *)
(* guard_indirect_dispatch.py.                                             *)
(*                                                                         *)
(* A program maps the address of each translated block to its last         *)
(* instruction. The passes look for the returns each RTS may take and      *)
(* build guards; then the program is run with its 6502 stack.              *)
EXTENDS Naturals, Sequences, FiniteSets, SequencesExt, FiniteSetsExt

CONSTANTS
  PageSize,    \* stands for 256
  NumPages,
  Programs,    \* see IsProgram
  LeafReturns, MaxReturns,   \* guards per leaf and per other RTS
  BankBudget, MaxPerBank,    \* of one run of the subroutine pass
  MaxTargets,  \* guards of RTI and of JMP (ptr)
  MaxDepth     \* return addresses on the stack

VARIABLES
  code,        \* the program; never changes
  todo,        \* passes still to come
  weights,     \* of each RTS and return, once the walk is done
  sites,       \* what follows each RTS, RTI and JMP (ptr)
  pc,          \* block about to run; 0 when the run has left the program
  stack,       \* 6502 stack: addresses, and what put them there
  active,      \* an NMI is being served
  strayed,     \* the run has left the paths of plain calls and returns
  taken        \* the last dynamic transfer: where it should go and did go

returnVars == <<code, todo, weights, sites, pc, stack, active, strayed, taken>>

Addresses == 1..(PageSize * NumPages - 1)
Wrap(a) == a % (PageSize * NumPages)
Hi(a) == a \div PageSize
Lo(a) == a % PageSize

(* op: the last instruction. to: its static targets. next: the block after *)
(* it, 0 if there is none. "switch": a JSR that specialize_inline_dispatch *)
(* has turned into a switch over to. "drop" and "poke": the block pulls an *)
(* address off the stack, or rewrites the one on top, and falls through.   *)
Block(op, to, next) == [op |-> op, to |-> to, next |-> next]

Labels == DOMAIN code.block
Op(b) == code.block[b].op
To(b) == code.block[b].to
NextOf(b) == code.block[b].next

Falls == {"fall", "drop", "poke"}

(* chain: the blocks that run on into the private _trace entry of the next *)
(* one (of the target, for a JMP). polls: blocks that begin with a poll.   *)
(* table: the words of the table behind JMP (ptr).                         *)
IsProgram(p) ==
  /\ DOMAIN p.block \subseteq Addresses
  /\ {p.entry, p.nmi} \subseteq DOMAIN p.block \cup {0}
  /\ \A b \in p.chain : p.block[b].op \in Falls \cup {"branch", "jmp"}
  /\ \A b \in DOMAIN p.block :
       /\ p.block[b].to \cup {p.block[b].next} \subseteq Addresses \cup {0}
       /\ p.block[b].op \in {"jmp", "jsr"} => Cardinality(p.block[b].to) = 1
  /\ p.polls \subseteq DOMAIN p.block
  /\ p.table \in Seq(Nat)

ASSUME ReturnsAssumption ==
  /\ {PageSize, NumPages} \subseteq Nat \ {0}
  /\ {LeafReturns, MaxReturns, MaxTargets} \subseteq Nat
  /\ \A p \in Programs : IsProgram(p)

-----------------------------------------------------------------------------
(* Which returns can an RTS take? A walk over the blocks of a subroutine.  *)

Chained(b) == b \in code.chain
Follower(b) == IF Op(b) = "jmp" THEN To(b) ELSE {NextOf(b)}

(* Labels named in the text after the last instruction of the block.       *)
TailTargets(b) ==
  Labels \cap
    (CASE Op(b) \in {"jsr", "switch"} -> To(b)
       [] Op(b) = "jmp" -> IF Chained(b) THEN {} ELSE To(b)
       [] Op(b) = "branch" -> To(b) \cup (IF Chained(b) THEN {} ELSE {NextOf(b)})
       [] Op(b) \in Falls -> IF Chained(b) THEN {} ELSE {NextOf(b)}
       [] OTHER -> {})

TraceFallthrough(b) == IF Chained(b) THEN Labels \cap Follower(b) ELSE {}

(* The walk without the wrapper; a mutant of Successors.                   *)
BaseSuccessors(b) ==
  IF Op(b) \in {"rts", "rti", "ind"} THEN {}
  ELSE IF Op(b) \in {"jsr", "switch"} THEN Labels \cap {NextOf(b)}
  ELSE TailTargets(b)

Successors(b) ==
  IF Op(b) = "switch" THEN TailTargets(b)
  ELSE BaseSuccessors(b) \cup TraceFallthrough(b)

(* All that the walk comes to from entry: the least set closed under it.   *)
Walked(entry) ==
  LET closed == {bs \in SUBSET Labels : entry \in bs /\ \A c \in bs : Successors(c) \subseteq bs}
  IN {b \in Labels : \A bs \in closed : b \in bs}
ReachableRts(entry) == {b \in Walked(entry) : Op(b) = "rts"}

(* JSR sites of the target that come back to ret.                          *)
Calls(target, ret) ==
  Cardinality({b \in Labels : /\ Op(b) \in {"jsr", "switch"}
                              /\ TailTargets(b) = {target}
                              /\ NextOf(b) = ret /\ ret \in Labels})

ReturnsOfLeaf(r) == {ret \in Labels : Calls(r, ret) > 0}

(* For every RTS, the calls that can come back to ret through it.          *)
RtsReturnWeight ==
  LET reach == [e \in Labels |-> ReachableRts(e)]
  IN [r \in {b \in Labels : Op(b) = "rts"} |->
        [ret \in Labels |->
           SumFunctionOnSet([e \in Labels |-> Calls(e, ret)], {e \in Labels : r \in reach[e]})]]

RtsWeight(r, ret) == weights[r][ret]
ReturnsOf(r) == {ret \in Labels : RtsWeight(r, ret) > 0}

(* The heaviest n, heaviest first; at equal weight the lower address.      *)
Rank(S, w, t) == Cardinality({u \in S : w[u] > w[t] \/ (w[u] = w[t] /\ u < t)})
Best(S, w, n) ==
  [i \in 1..(IF Cardinality(S) < n THEN Cardinality(S) ELSE n) |->
     CHOOSE t \in S : Rank(S, w, t) = i - 1]

-----------------------------------------------------------------------------
(* Guards. A site is a sequence of stages; a stage compares HL with its    *)
(* groups, high byte first. inc: the stage comes after the increment of    *)
(* RTS. lastInc: the increment stands before the dispatcher at the end.    *)

Arm(lo, to) == [lo |-> lo, to |-> to]

Groups(S, w) ==
  LET highs == {Hi(t) : t \in S}
      of(h) == {t \in S : Hi(t) = h}
      order == Best(highs, [h \in highs |-> SumFunctionOnSet(w, of(h))], Cardinality(S))
      arms(h) == LET ts == Best(of(h), w, Cardinality(S))
                 IN [i \in DOMAIN ts |-> Arm(Lo(ts[i]), ts[i])]
  IN [i \in DOMAIN order |-> [hi |-> order[i], arms |-> arms(order[i])]]

Generic(b) == [stages |-> <<>>, lastInc |-> Op(b) = "rts"]

AddStage(site, groups) ==
  [stages |-> Append(site.stages, [inc |-> site.lastInc, groups |-> groups]), lastInc |-> FALSE]

(* One-block leaves: each guard compares the stacked address, ret - 1.     *)
LeafSite(b) ==
  LET order == Best(ReturnsOfLeaf(b), [ret \in Labels |-> Calls(b, ret)], LeafReturns)
      raw(ret) == Wrap(ret + PageSize * NumPages - 1)
  IN [stages |-> <<[inc |-> FALSE,
                    groups |-> [i \in DOMAIN order |->
                                  [hi |-> Hi(raw(order[i])),
                                   arms |-> <<Arm(Lo(raw(order[i])), order[i])>>]]]>>,
      lastInc |-> TRUE]

LeafPass ==
  [b \in DOMAIN sites |->
     IF Op(b) = "rts" /\ Cardinality(ReturnsOfLeaf(b)) \in 1..LeafReturns
     THEN LeafSite(b) ELSE sites[b]]

(* The pass takes any RTS that still increments and then dispatches, the   *)
(* fallback of a leaf included, while its bank has budget left.            *)
Candidates == {b \in DOMAIN sites : sites[b].lastInc /\ ReturnsOf(b) # {}}
Chosen(b) == Best(ReturnsOf(b), weights[b], MaxReturns)
Covered(b) == MapThenSumSet(LAMBDA ret : RtsWeight(b, ret), ToSet(Chosen(b)))

(* Three bytes per instruction; the jump that was there is counted off.    *)
Extra(b) ==
  LET same == {ret \in ToSet(Chosen(b)) : code.bank[ret] = code.bank[b]}
  IN 3 * (3 * Cardinality({Hi(ret) : ret \in ToSet(Chosen(b))})
          + 6 * Len(Chosen(b)) - 2 * Cardinality(same))

WithinBudget ==
  LET order == SetToSortSeq(Candidates, LAMBDA b, c :
                 Covered(b) > Covered(c) \/ (Covered(b) = Covered(c) /\ b < c))
      ofBank(taking, b) == {c \in taking : code.bank[c] = code.bank[b]}
      take(taking, b) ==
        IF \/ Cardinality(ofBank(taking, b)) >= MaxPerBank
           \/ MapThenSumSet(Extra, ofBank(taking, b)) + Extra(b) > BankBudget
        THEN taking ELSE taking \cup {b}
  IN Candidates \cap FoldLeft(take, {}, order)

SubPass ==
  [b \in DOMAIN sites |->
     IF b \in WithinBudget
     THEN AddStage(sites[b], Groups(ToSet(Chosen(b)), weights[b]))
     ELSE sites[b]]

(* The increment moves behind the guards, which then compare low bytes one *)
(* lower; not where that would borrow from the high byte.                  *)
Lowered(stage) ==
  [inc |-> FALSE,
   groups |-> [i \in DOMAIN stage.groups |->
     [stage.groups[i] EXCEPT !.arms =
        [j \in DOMAIN stage.groups[i].arms |->
           [stage.groups[i].arms[j] EXCEPT !.lo = (@ + PageSize - 1) % PageSize]]]]]

(* Mutant of Borrows: every site is deferred.                              *)
NeverBorrows(stage) == FALSE

Borrows(stage) ==
  \E i \in DOMAIN stage.groups : \E j \in DOMAIN stage.groups[i].arms :
    stage.groups[i].arms[j].lo = 0

DeferPass ==
  [b \in DOMAIN sites |->
     LET st == sites[b].stages
     IN IF st # <<>> /\ Last(st).inc /\ ~Borrows(Last(st))
        THEN [stages |-> Append(Front(st), Lowered(Last(st))), lastInc |-> TRUE]
        ELSE sites[b]]

(* References to a poll point count one, five when they come from the same *)
(* block or a later one.                                                   *)
References(t) == {b \in Labels : t \in TailTargets(b)}
PollScore(t) ==
  1 + Cardinality(References(t)) + 4 * Cardinality({b \in References(t) : t <= b})

RtiPass ==
  LET score == [t \in code.polls |-> PollScore(t)]
      best == Best(code.polls, score, MaxTargets)
  IN [b \in DOMAIN sites |->
        IF Op(b) = "rti" /\ best # <<>>
        THEN AddStage(sites[b], Groups(ToSet(best), score)) ELSE sites[b]]

(* A table may begin with words that are no labels; the first one after a  *)
(* label ends it.                                                          *)
TableTargets ==
  LET hits == {i \in DOMAIN code.table : code.table[i] \in Labels}
      inTable(i) == \A j \in 1..i : code.table[j] \notin Labels =>
                                      \A k \in hits : k > j
  IN {i \in hits : inTable(i)}

(* How often a word comes, then its references; at equal weight the one    *)
(* that the table has first.                                               *)
TargetWeight(t) ==
  1024 * Cardinality({i \in TableTargets : code.table[i] = t}) + Cardinality(References(t))
TargetRank(t) ==
  (Len(code.table) + 1) * TargetWeight(t) - Min({i \in TableTargets : code.table[i] = t})

IndirectPass ==
  LET rank == [t \in {code.table[i] : i \in TableTargets} |-> TargetRank(t)]
      best == Best(DOMAIN rank, rank, MaxTargets)
  IN [b \in DOMAIN sites |->
        IF Op(b) = "ind" /\ best # <<>>
        THEN AddStage(sites[b], Groups(ToSet(best), rank)) ELSE sites[b]]

Pipeline == <<"leaf", "walk", "sub", "defer", "rti", "ind">>

(* The first half of the subroutine pass.                                  *)
Walk ==
  /\ todo # <<>> /\ Head(todo) = "walk"
  /\ weights' = RtsReturnWeight
  /\ todo' = Tail(todo)
  /\ UNCHANGED <<code, sites, pc, stack, active, strayed, taken>>

RunPass ==
  /\ todo # <<>> /\ Head(todo) # "walk"
  /\ sites' = CASE Head(todo) = "leaf" -> LeafPass
                [] Head(todo) = "sub" -> SubPass
                [] Head(todo) = "defer" -> DeferPass
                [] Head(todo) = "rti" -> RtiPass
                [] Head(todo) = "ind" -> IndirectPass
  /\ todo' = Tail(todo)
  /\ UNCHANGED <<code, weights, pc, stack, active, strayed, taken>>

-----------------------------------------------------------------------------
(* Execution.                                                              *)

(* Where HL = a goes through a site: the first arm that matches in a group *)
(* whose high byte matches, else the dispatcher. No group and no arm is    *)
(* without a label of its own.                                             *)
HlAt(stage, a) == IF stage.inc THEN Wrap(a + 1) ELSE a
Matches(stage, g, j, a) ==
  /\ g \in DOMAIN stage.groups
  /\ j \in DOMAIN stage.groups[g].arms
  /\ stage.groups[g].hi = Hi(HlAt(stage, a))
  /\ stage.groups[g].arms[j].lo = Lo(HlAt(stage, a))
Earlier(x, y) ==
  \/ x[1] < y[1]
  \/ x[1] = y[1] /\ x[2] < y[2]
  \/ x[1] = y[1] /\ x[2] = y[2] /\ x[3] < y[3]
Incremented(site) == site.lastInc \/ \E i \in DOMAIN site.stages : site.stages[i].inc

Through(site, a) ==
  LET hits == {x \in (DOMAIN site.stages) \X (1..Cardinality(Labels)) \X (1..Cardinality(Labels)) :
                 Matches(site.stages[x[1]], x[2], x[3], a)}
      first == CHOOSE x \in hits : \A y \in hits : ~Earlier(y, x)
  IN IF hits # {} THEN site.stages[first[1]].groups[first[2]].arms[first[3]].to
     ELSE IF Incremented(site) THEN Wrap(a + 1) ELSE a

Running == todo = <<>> /\ pc # 0
Continue(b) == pc' = IF b \in Labels THEN b ELSE 0
Pushed(a, by) == [addr |-> a, by |-> by]
Nowhere == [at |-> 0, want |-> 0, got |-> 0]
Dynamic(a, want) ==
  /\ taken' = [at |-> pc, want |-> want, got |-> Through(sites[pc], a)]
  /\ Continue(taken'.got)

Goto ==
  /\ Running /\ Op(pc) \in {"branch", "jmp", "fall"}
  /\ \E b \in (IF Op(pc) = "fall" THEN {} ELSE To(pc))
                \cup (IF Op(pc) = "jmp" THEN {} ELSE {NextOf(pc)}) : Continue(b)
  /\ UNCHANGED <<code, todo, weights, sites, stack, active, strayed, taken>>

Jsr ==
  /\ Running /\ Op(pc) = "jsr" /\ Len(stack) < MaxDepth
  /\ stack' = Append(stack, Pushed(Wrap(NextOf(pc) + PageSize * NumPages - 1), "jsr"))
  /\ \E b \in To(pc) : Continue(b)
  /\ UNCHANGED <<code, todo, weights, sites, active, strayed, taken>>

(* The case is one of the targets, or the dispatcher of the game reads a   *)
(* word from behind the table.                                             *)
Switch ==
  /\ Running /\ Op(pc) = "switch"
  /\ \/ \E b \in To(pc) : Continue(b) /\ UNCHANGED strayed
     \/ \E b \in Addresses : Continue(b) /\ strayed' = TRUE
  /\ UNCHANGED <<code, todo, weights, sites, stack, active, taken>>

Drop ==
  /\ Running /\ Op(pc) = "drop"
  /\ stack' = IF stack = <<>> THEN <<>> ELSE Front(stack)
  /\ strayed' = TRUE
  /\ Continue(NextOf(pc))
  /\ UNCHANGED <<code, todo, weights, sites, active, taken>>

Poke ==
  /\ Running /\ Op(pc) = "poke"
  /\ \E a \in Addresses :
       stack' = Append(IF stack = <<>> THEN <<>> ELSE Front(stack), Pushed(a, "poke"))
  /\ strayed' = TRUE
  /\ Continue(NextOf(pc))
  /\ UNCHANGED <<code, todo, weights, sites, active, taken>>

(* The stack pointer wraps: a pop from an empty stack takes what lies      *)
(* there. RTS expects the address of a JSR, RTI that of an interrupt.      *)
Pop(a, by) ==
  IF stack = <<>> THEN strayed' = TRUE /\ a \in Addresses /\ UNCHANGED stack
  ELSE /\ a = Last(stack).addr
       /\ stack' = Front(stack)
       /\ strayed' = (strayed \/ Last(stack).by # by)

Rts ==
  /\ Running /\ Op(pc) = "rts"
  /\ \E a \in Addresses \cup {0} : Pop(a, "jsr") /\ Dynamic(a, Wrap(a + 1))
  /\ UNCHANGED <<code, todo, weights, sites, active>>

Rti ==
  /\ Running /\ Op(pc) = "rti"
  /\ \E a \in Addresses \cup {0} : Pop(a, "nmi") /\ Dynamic(a, a)
  /\ active' = FALSE
  /\ UNCHANGED <<code, todo, weights, sites>>

(* The walk stops here, so the run strays from it.                         *)
JmpIndirect ==
  /\ Running /\ Op(pc) = "ind"
  /\ \E a \in Addresses : Dynamic(a, a)
  /\ strayed' = TRUE
  /\ UNCHANGED <<code, todo, weights, sites, stack, active>>

(* A poll delivers an NMI: the block is run again after the RTI.           *)
Interrupt ==
  /\ Running /\ pc \in code.polls /\ ~active /\ Len(stack) < MaxDepth
  /\ code.nmi # 0
  /\ stack' = Append(stack, Pushed(pc, "nmi"))
  /\ active' = TRUE
  /\ Continue(code.nmi)
  /\ UNCHANGED <<code, todo, weights, sites, strayed, taken>>

Stopped ==
  /\ todo = <<>>
  /\ pc = 0 \/ (pc # 0 /\ Op(pc) = "jsr" /\ Len(stack) = MaxDepth)
  /\ UNCHANGED returnVars

ReturnsInit ==
  /\ code \in Programs
  /\ todo = Pipeline
  /\ weights = <<>>
  /\ sites = [b \in {a \in Labels : Op(a) \in {"rts", "rti", "ind"}} |-> Generic(b)]
  /\ pc = code.entry
  /\ stack = <<>>
  /\ active = FALSE
  /\ strayed = FALSE
  /\ taken = Nowhere

ReturnsNext ==
  \/ Walk \/ RunPass \/ Goto \/ Jsr \/ Switch \/ Drop \/ Poke \/ Rts \/ Rti
  \/ JmpIndirect \/ Interrupt \/ Stopped

ReturnsSpec == ReturnsInit /\ [][ReturnsNext]_returnVars

-----------------------------------------------------------------------------
(* Properties.                                                             *)

(* Whatever address the program finds on its stack or behind its pointer,  *)
(* guards or not, control goes where the 6502 would go.                    *)
TransfersExact == taken.got = taken.want

(* fast_subroutine_rts_dispatch.py:8: the walk from the targets of JSR     *)
(* finds every return a program takes that leaves the stack alone: no RTS  *)
(* misses a candidate because of how blocks are laid out.                  *)
ReturnsFound ==
  taken.at # 0 /\ ~strayed /\ Op(taken.at) = "rts" /\ taken.got \in Labels =>
    taken.got \in ReturnsOf(taken.at)

=============================================================================
