# TLA+ models of nes2gbc

nes2gbc translates a NES program into a Game Boy Color ROM: a Rust recompiler
turns 6502 code into LR35902 assembly, Python passes rewrite that assembly, and
a runtime in assembly stands in for the NES hardware while the result runs. All
paths below are relative to the repository; `runtime/cpu.asm:1027` is a line.

## 1. Inventory

### The runtime (`runtime/`)

| part | state | operations | interacts with |
|---|---|---|---|
| NMI delivery and frame pacing (`cpu.asm`, `main.asm`, `io.asm:211-233`) | `nes_host_vblank_pending`, `nes_nmi_active`, the `nes_pace_*` cells, the snapshot | `nes_poll_nmi_hl`, `nes_pace_take_snapshot`, `nes_rti_pop_hl`, `nes_gbc_vblank_isr` | everything that is published at a VBlank |
| nametable staging (`ppu.asm`, `video.asm`, `cpu.asm`) | nametable bytes, queue, pointer, duplicate bitmap, overflow | `nes_ppu_write_data`, `nes_ppu_stage_nametable_hl`, flush, retire | pacing: the flush and the retirement run in the VBlank handler |
| PPU registers and raster split (`ppu.asm`) | scroll pairs, pair count, `nes_split_*` | `$2000`, `$2001`, `$2005`, `$2006` | the handlers read the split; a snapshot copies it |
| OAM projection and page ping-pong (`video.asm`, `cpu.asm`, `input.asm`) | live, pace and DMA page, stale flag, shadow ready | project, resolve, DMA, snapshot | pacing takes the live page away |
| horizontal stitch (`video.asm`, `main.asm`) | `nes_hstitch_*` | hidden preparation, update, column refresh | it withholds host frames; PPUMASK and staging depend on it |
| vertical seam, single scroll, LCDC (`video.asm`) | `nes_seam_*`, LCDC, LYC | apply, rearm, STAT handler | main thread and both interrupts write LCDC |
| palette and attributes (`video.asm`) | palette shadow and its dirty flag | `$3F00` writes, sync | pacing snapshots the shadow |
| input and follow camera (`input.asm`) | strobe, shift register, view position | `$4016`, OAM DMA, follow | the view moves scroll and sprites |
| 6502 state, lazy flags, bus (`cpu.asm`) | P and the deferred flag results | ALU, stack, `nes_materialize_p` | the NMI pushes P |
| dispatch cache and code banks (`cpu.asm`, `generated.asm`) | tags, banks, targets | lookup, fill | every indirect jump |
| APU (`apu.asm`) | channels, frame sequencer | `$4000-$4017`, tick at VBlank | called by the VBlank handler |
| diagnostics, profiler (`main.asm`, `profile.asm`) | counters | | none |

### The recompiler (`src/`) and the passes (`tools/`)

CFG discovery (`cfg.rs`) finds the blocks, the IR (`ir.rs`) describes them,
superblock planning (`superblock.rs`) chains them, register residency
(`state_superblock.rs`) keeps NES registers in host registers across a chain,
the emitter (`lr35902.rs`) writes assembly and the driver (`recompile.rs`) packs
it into banks. About fifty passes in `tools/` then rewrite the assembly. Each is
sequential; its hazard is that a rewrite changes what the program does on a path
nobody ran.

| group of passes | state | operations | correct when |
|---|---|---|---|
| flag passes (`dead_terminal_*`, `dead_global_zn`, `lazy_overflow_updates`, `dead_overflow`, `dead_hram_state_global`) | live flags or cells per block or line | sweep to a fixpoint, remove stores | no reader finds a stale shadow |
| arithmetic rewrites (`peephole_generated`, `hot_alu_generated`, `shrink_compare_generated`, `cheap_carry_materialize`, `sbc_carry_capture`, `final_peephole`) | the text of a block | replace one sequence by another | shadows and branches are the 6502's |
| register caches (`cache_*_in_blocks`, `cache_bc_windows`) | free registers, gain per cell | choose, seed, rewrite loads | a cached load is the cell's value |
| dispatch and returns (`fast_*_dispatch`, `guard_indirect_dispatch`, `defer_subroutine_rts_increment`, `specialize_inline_dispatchers`) | return weights, guards | walk, rank, put guards before the dispatcher | control goes where the 6502 goes |
| polls (`elide_nmi_internal_polls`, `direct_nmi_dispatch`) | two reachable sets | remove polls, link the vector | mainline code keeps its polls |
| banks and jumps (`mirror_indexed_prg_tables`, `repack_code_banks*`, `fast_code_bank_switch`, `widen_generated_jumps`) | section to bank, jump sizes | mirror, merge, climb, widen | the bank of a target is mapped, a bank fits, a JR reaches |
| loop replacements and text peepholes | the text | match and replace | the code sequence is equal |

### What is hard here

The runtime is concurrent although it has one CPU: the VBlank interrupt is
enabled while translated code and the runtime routines it calls run, none of
those routines masks it, and it reads and writes their cells. A NES frame may
take several host frames; the next NES NMI may start before the last frame was
shown. Who owns a change that the player has not seen, the live cells or the
snapshot, depends on flags that are set one by one. `PROJECT.json` lists the
hazards by line.

Correctness, part by part: *pacing* shows completed frames only, loses no change,
never runs faster than the host, and gives back the display; *staging* loses no
write and never walks outside the queue; *split and stitch* go live complete;
*OAM* never DMAs a stale or half-projected page; *lazy flags* equal the 6502's;
*dispatch* reaches the block of the PC; *recompiler and passes* preserve what the
program does, and fit the banks.

## 2. Modules

| module | what it is |
|---|---|
| `AtomicFrames` | the promise: the display moves from one completed frame to a later one, all channels at once |
| `FramePacing` | poll, early start, snapshot, RTI, credit, the VBlank handler, the hidden stitch preparation, PPUMASK |
| `NmiRate` | `FramePacing` with a history variable relating NMI starts to VBlanks |
| `NametableStaging` | the `$2007` queue, composed with `FramePacing`, whose VBlank actions flush and retire it |
| `OamPages` | the two sprite pages, composed with `FramePacing`, whose channel "sprites" they implement |
| `RemovedStores` | the variables that `DeadFlags` and `DeadHram` share |
| `DeadFlags` | the passes that remove dead flag publications, by liveness over blocks |
| `DeadHram` | the one that removes stores to HRAM cells, by liveness over lines |
| `BlockCache` | the passes that keep a NES cell in a spare host register |
| `HostAlu` | emitted arithmetic and the passes that shorten it, next to a reference 6502 |
| `Returns` | guards before the dispatcher at RTS, RTI and `JMP (ptr)` |
| `InlineSwitch` | a call to a table dispatcher that becomes a native switch |
| `NmiPolls` | which blocks poll for the VBlank, and which polls go |
| `CodeBanks` | mirrored tables, bank switches, both repackers |
| `ShortJumps` | JR or JP |
| `MCFramePacing`, `MCNmiRate`, `MCNametableStaging` | small instances for TLC |
| `MCRegisterPasses`, `MCTransfers` | small programs for the modules of the passes, one module per behaviour |
| `MCNmiPolls` | programs with superblocks and RTS tables, for the run `polls` |
| `MCBlockCache` | blocks of a superblock that keeps X in B, for the run `carried_register` |
| `FramePacingProofs` | theorems about `FramePacing` |
| `RefinementProofs` | that it implements `AtomicFrames`, and the theorem about `NmiRate` |
| `StagingProofs`, `OamPagesProofs` | theorems about `NametableStaging` and `OamPages` |
| `RemovedStoresProofs` | theorems about `DeadFlags` and `DeadHram` |
| `TransfersProofs` | theorems about `ShortJumps`, `CodeBanks` and `InlineSwitch` |
| `ReturnsProofs` | theorems about `Returns` |
| `Arithmetic` | lemmas about least elements, division and sums over sets |

### How the models of the runtime correspond to the code

`pc` says where the main thread is. A runtime routine is split at every access
to a cell that the VBlank handler reads or writes too, so `pc = "arm"` is the
point between two stores of `nes_rti_pop_hl`. Everything the handler does is one
action (`VBlankCommit`, `VBlankSkip`, `VBlankHold`), since the main thread does
not run until it returns. The handler lets STAT nest, but STAT only touches the
raster, which is not in these modules. `Tail` is the end all three paths share.

| model | code |
|---|---|
| `Poll`, `CheckArmed`, `Consume`, `Activate`/`Drop`, `NormalStart`/`EarlyStart` | `nes_poll_nmi_hl`, `runtime/cpu.asm:1027` |
| `CopySnapshot` ... `SetEarly` | `nes_pace_take_snapshot`, `runtime/cpu.asm:1279`, and its caller |
| `Rti` ... `SetPending` | `nes_rti_pop_hl`, `runtime/cpu.asm:993` |
| `WriteMask`, `DecideMask`, `PublishMask`, `DeferMask` | `$2001`, `runtime/ppu.asm:176` |
| `FirstHiddenChange` | `$2007` with rendering off, `runtime/ppu.asm:546` |
| `FrameDirty`, `FrameData`, `Paced`, `Running` | swap and inheritance at the head of `nes_gbc_vblank_isr`, `runtime/main.asm:126` |
| `PrepHolds`, `PrepPasses` | `nes_gbc_prepare_initial_hstitch_hidden_step`, `runtime/main.asm:576` |
| `CommitWith`, `SkipWith`, `HoldWith`, `Tail` | the rest of the handler |
| `Stage` ... `StorePtrHi` | `nes_ppu_stage_nametable_hl`, `runtime/ppu.asm:634` |
| `SnapshotPage`, `Resolved`, `CommitPage` | page handover, `runtime/cpu.asm:1279-1304` and `1420`, and the sprites of a commit, `runtime/main.asm:320` |
| `Retire` | `nes_pace_retire_flushed_queue`, `runtime/cpu.asm:1345` |

Abstractions. What a frame looks like is a function from channels to values: a
channel is one publishable thing with a cell and a dirty flag. A queue entry is
an address; its two bytes are one cell of the model. `CopySnapshot` copies all
cells in one step; an interrupt inside the copy is in the window `"copy"`, with
the step not yet taken. The grace for a retired split is nondeterministic
(`SplitAfterGrace`), and so is the rebuild test of `$2001`. Outside an NMI a
write to a deferred channel belongs to the frame completed last (`FlagDeferred`).
An RTI while no NMI runs is not modelled. `OamPages` refines one channel: its
virtual OAM is `live["sprites"]`, a page holds one set of sprites or is half
projected (`Torn`), and `HardwareShowsFrame` says that the hardware holds what the
channel shows. Sprites are written by NMI code only there; a game that also writes
them from mainline code can have a half projected page copied to the hardware.

`done` (last completed frame), `slack` (VBlanks minus starts) and `dropped`
(addresses whose last write found the queue full) are history variables: no guard
reads them.

### How the models of the passes correspond to the code

A pass reads a text and writes a text, so a module of the passes has three parts.
The *program* is a small abstract text: a block is the list of what its
instructions do to the things the pass looks at. The *pass* is an action that
computes what the Python code computes: the same order of passes as the Makefile,
the same sweeps, rankings, limits and refusals. Then the rewritten program is
*executed*, every branch both ways, and the properties are about that execution,
never about the shape of the text. The definitions of the execution stand for the
6502, the LR35902 and the assembler; the map calls them external.

| model | code (`tools/`) | execution |
|---|---|---|
| `DeadFlags`: `Sweep`, `Optimize` | `dead_terminal_zn.py` and its three companions, `dead_global_zn.py`, `lazy_overflow_updates.py` | a removed publication makes its flag stale; polls, PHP, branches and code behind dynamic exits read |
| `DeadHram`: `Analyse`, `RemoveStores` | `dead_hram_state_global.py`: work list, anonymous labels, calls, bank switches | a removed store makes the cell stale |
| `BlockCache`: `RunPass` | `cache_xy_`, `cache_hot_zp_`, `cache_a_`, `cache_de_in_blocks.py`, `cache_bc_windows.py` | per register: the emitter's value, a cell's present value, or neither |
| `HostAlu`: `RunPass` | the ten passes its header names, on the sequences of `src/lr35902.rs` and `src/state_superblock.rs` | host code beside the 6502, all values of a 4-value byte |
| `Returns`: `Walk`, `RunPass` | `fast_leaf_rts_`, `fast_subroutine_rts_`, `fast_rti_dispatch.py`, `defer_subroutine_rts_increment.py`, `guard_indirect_dispatch.py` | stack, interrupts, code that drops or overwrites return addresses |
| `InlineSwitch`: `StrictDispatcher`, `Switched` | `specialize_inline_dispatchers.py` | the call and the routine instruction by instruction, and the switch |
| `NmiPolls`: `Emit`, `Elide`, `LinkVector` | `src/superblock.rs`, `src/state_superblock.rs`, `elide_nmi_internal_polls.py`, `direct_nmi_dispatch.py` | an NMI at any poll |
| `CodeBanks`: `MirrorTables` ... `ClimbDone` | `mirror_indexed_prg_tables.py`, `fast_code_bank_switch.py`, `repack_code_banks_final.py`, `repack_code_banks.py` | section and mapped bank |
| `ShortJumps`: `Normalize` | `widen_generated_jumps.py` | real distances |

What the emitter guarantees and a pass relies on is a predicate on programs, and
the instances hold only such programs: `IsProgram` (`DeadFlags`, `Returns`,
`NmiPolls`), `IsBlock` (`BlockCache`: a register is set before it is used or carried
on, an index computation is marked, and a temporary in D or E lives across at most one
access of a cell; X in B and Y in C may live across any number of them and be carried
from block to block, as `state_superblock.rs:666-686` and `888-910` do), `IsLayout` and
`IsEarly` (`CodeBanks`), `IsText` (`ShortJumps`).

Four assumptions are not guaranteed by anything in the repository:

* `CarriedIsNamed` (`register_passes`): a block that carries B or C on to the next one
  names it. Without it `NativeValuesKept` fails: run `carried_register`.
* `ShortLived` (`register_passes`, only for the order that ends in
  `cache_bc_windows.py`): between two neighbouring uses of a value in B or C no cell is
  touched twice. Without it `NativeValuesKept` fails as well, section 4.
* `IsSite` (`InlineSwitch`): base and pointer are four different cells and neither
  pair wraps in the zero page. With a base of `$FF` the dispatcher would wrap to `$00`
  and the switch writes `$C100`.
* `Documented` (`InlineSwitch`): what the recogniser skips over in the called routine
  has no effect on registers, flags or the four cells, and both INYs are there. The
  recogniser, `strict_dispatcher`, is modelled as it is: it takes the first match of
  each piece within 48 bytes, with any bytes between the pieces, and never looks for an
  INY. `SwitchExact` is about those accepted calls that are `Documented`; what happens
  to the others is in section 4.

Abstractions. A byte has 4 values where arithmetic is computed, which keeps a
sign, a carry and an overflow; addresses have a page of 4 or 8. An instruction
that neither reads nor writes what a pass tracks is left out. `code`, `prog`,
`block` and the like never change: they hold the program of the behaviour.
`stale`, `holds`, `acc`, `strayed` and `taken` are what the execution knows of it.

### Closed windows

`ClosedWindows` is the set of program points at which the VBlank is assumed not
to hit. With the empty set several things the comments promise are false; three
of the violation runs show it. The table gives the windows each property needs.
Each window is a few instructions long, but nothing in the code closes it.

| property | needs these closed |
|---|---|
| `StartsWithinVBlanks`, `TypeOK`, `StitchGoesLiveComplete`, `HeldFrameStaysOwed`, `PreparationEnds` | none |
| `NoLostChange`, `NoLostMask`, `RefinesAtomicFrames`, `EventuallyShown` | `start` `copy` `clean` `valid` (from `nes_nmi_active = 1` to `nes_pace_snap_valid = 1` of an early start) |
| `EarlyStartAtIdle` | `complete` (inside RTI) and `activate` (inside the poll) |
| `HardwareShowsFrame`, `SnapshotPageKept`, `PagesTypeOK` | `start` `copy` `clean` `valid`, which the module takes as one step |
| `EarlyHasNoCredit` | `start` to `early` (from `nes_nmi_active = 1` to `nes_pace_early = 1`) |
| `NoLostWrite`, `RetireInOrder`, `EntriesWritten` | `complete`, `start` to `valid`, `bitWrite`, `ptrLoRead`, `entry`, `ptrLoWrite`, `ptrHiWrite` |

## 3. Runs

| run | instance | shows |
|---|---|---|
| `pacing_generic` | one deferred channel, two values, two poll points, slack up to 3, eight windows closed | `StartsWithinVBlanks` (its theorem closes no window), `NoLostChange`, `NoLostMask`, `EarlyStartAtIdle`, `EarlyHasNoCredit`, and that pacing implements `AtomicFrames` |
| `stitch` | the hidden preparation in 2 steps, no window closed, fairness | `TypeOK`, `StitchGoesLiveComplete`, `HeldFrameStaysOwed`, `PreparationEnds` |
| `staging` | two addresses in one bitmap byte, two tiles, a queue of 3 entries | `StagingTypeOK` (the end of the queue included), `NoLostWrite`, `RetireInOrder`, `EntriesWritten` |
| `oam` | two sets of sprites, one poll point, the windows of a snapshot closed, fairness | `PagesTypeOK`, `HardwareShowsFrame`, `SnapshotPageKept`, `EventuallyShown` |
| `register_passes` | small programs of `DeadFlags`, `DeadHram`, `BlockCache`, `HostAlu` | `NoStaleFlag`, `NoStaleFlagGlobally`, `LivenessIsPaths`; `NoStaleCell`, `AnonymousLabels`, `WorkListComplete`; `CachedLoadsRight`, `NativeValuesKept`, `AccumulatorRight`; `ShadowsRight`, `BranchesRight` |
| `transfers` | small programs of `Returns`, `CodeBanks`, `ShortJumps`, `InlineSwitch`, `NmiPolls` | `TransfersExact`, `ReturnsFound`; `TransfersLand`, `BanksFit`, `ClimbGains`; `JumpsReach`; `SwitchExact`; `MainlinePolls` |
| `lost_change` | as `pacing_generic`, no window closed | `NoLostChange` is violated |
| `early_anywhere` | no window closed | `EarlyStartAtIdle` is violated |
| `staging_bitmap` | as `staging`, `bitWrite` open | `NoLostWrite` is violated |
| `staging_overflow` | three addresses, a queue of 2 entries | `AllOrNothing` is violated |
| `polls` | six blocks in one bank, superblocks, an RTS over a table | `MainlinePolls` is violated |
| `carried_register` | blocks of three lines of a superblock, the order of the Makefile | `NativeValuesKept` is violated |

Why these bounds are enough. Channels do not interact: a hand-over treats every
flag alike, so one deferred channel beside the mask covers the pair that matters
(one that is deferred, one that may be published at once), and two values tell a
shown one from one not shown. Two poll points tell the idle loop from anything
else. The preparation needs one step that is not the last, hence 2 of the code's
8. Two addresses in one bitmap byte are the only way one address affects the bit
of another; a page of three entries is the smallest whose pointer carries and in
which a prefix of one can be retired under two later entries. The queue of three
overflows because retirement clears whole bitmap bytes, which lets an address in
twice. The sprites of up to three frames are around at a time (shown, in the snapshot,
being drawn), but values are only copied: no guard compares them, so a set in the
wrong place shows in the instance that gives it one value and every other set the
other.
No counter but `slack` and `steps` grows, and both have a bound named in the module.

For the passes a bound is a size of program. Liveness of flags needs three
blocks: one whose publication may go, one that does not define the flag, one that
reads it, with loops and dynamic exits among them. `DeadHram` takes every text of
four lines with a store in it: a store, a branch around, a kill, a reader.
`BlockCache` takes every block of five lines over the kinds one pass can tell
apart (a seed, a disturbance, a reuse, and one line around each), and every first block
and continuation of a superblock with X in B over loads, stores, `[hl]`, and settings
and uses of B. `HostAlu` takes
every two operations before a branch, and triples with an operation between a
producer of the carry and its consumer that some pass rewrites or that publishes P;
every start value of A, operand, carry and overflow. `Returns` has two calls, two
subroutines, a shared exit and a return on a page boundary, so that guards have two
candidates, two high bytes and a borrow; limits of 2 make every ranking and
budget bite. `CodeBanks` has layouts that fit, layouts that just do not, and shared
tables. `ShortJumps` takes every text of six lines with a label and a jump.
`InlineSwitch` takes all tables of three words with words that are no code, and one
too long, in a byte of 8 and with three states at the call; and routines with up to
three more instructions, of which its 23 bytes hold two, with an INY more or less, or
with an `INC` of the base in its place. `NmiPolls` takes six blocks: mainline code, a subroutine both sides call,
and the handler.

Symmetry is used in safety runs only (poll points, addresses, tiles).

Fairness (`Fairness`, and `PagesFairness` for the same steps with the pages).
`SF_vars(VBlank)`: the interrupt is requested every host frame and
stays latched, so it is taken when enabled again and again. `WF_vars(Continue)`:
the main thread leaves a runtime routine it has entered, since none of them
loops on state of another. `SF_vars(Rti)`: a NES NMI handler returns; a game
whose handler does not return would stop on the NES as well. Nothing is assumed
of `Poll` or of the game's register writes. `EventuallyShown` is checked for the
sprites, over pacing and pages together; there only NMI code writes the channel, so a
write by mainline code is in safety runs only. The runs of the passes state safety
only, apart from `ClimbGains`, which bounds the climb; they assume no fairness.

## 4. What the violations say

`lost_change`: a VBlank inside an early start sees an NMI running and no valid
snapshot. It publishes nothing and leaves a credit. The RTI spends the credit,
the next start is early again, and its snapshot overwrites the first one, which
nobody has published. `early_anywhere`: a VBlank inside the poll or inside the
RTI leaves an event without the armed flag next to an unpublished frame, so the
early start does not wait for the idle loop. `staging_bitmap`: the write-back of a
bitmap byte sets the bits which a retirement just cleared. These three need an
interrupt within a few instructions and would be seen as a rare glitch on the screen. `staging_overflow`
needs no interrupt at the wrong place: a NMI that changes more bytes than the
queue holds is published in part, and the rest of it never is.

`carried_register` is about two passes. `cache_xy_in_blocks.py:45` and
`cache_hot_zp_in_blocks.py:39` take a private continuation (`nes_XXXX_trace`) for a
block of its own, and B or C for free when its text does not name them. The superblock
emitter keeps X in B and Y in C across such blocks (`state_superblock.rs:1413`), named
or not; the docstring of `cache_a_in_blocks.py` (10-15) says so and excludes them. A
continuation with three loads of one zero-page byte is enough: the pass seeds B with
it, and the next block of the superblock takes it for X.

`polls` is about the recompiler as well. The pass takes for the successors of a block the
labels named after the last instruction in its text. A superblock is one block in
the text: a branch out of its middle is no successor, and neither are the targets
of an RTS that takes its address from a table. A block which mainline code reaches
only that way and which the NMI handler reaches too loses its poll; a mainline
loop through it then never sees a VBlank. In programs without either, the run
`transfers` shows that every mainline poll stays.

### What the models showed about the passes besides

These are no divergences from a statement of the repository, but a reader who
changes the passes should know them.

* `sbc_carry_capture.py` scans past later stores of `nes_c_shadow`; this is right
  only because `dead_hram_state_global.py` ran before. Its pattern for `cp` also
  matches `cpl`.
* `dead_global_zn.py` (not in the pipeline) does not look at side exits to private
  trace labels, hence the second conjunct of `NoStaleFlagGlobally`.
* `cache_bc_windows.py` (not in the pipeline) tells a register that is in use for
  long by comments (`has_long_lived_cache`, 56-60), and those of the superblock emitter
  are not among them. It then splits a block at the lines that name the register
  (135-142) and seeds it in between: of `ld b, a`, two loads of one byte, `ld a, b`, the
  last finds the byte instead of X. `NativeValuesKept` fails when `ShortLived` is dropped
  from `MCRegisterPasses`.
* `strict_dispatcher` (`specialize_inline_dispatchers.py:89-138`) accepts more than the
  "strict dispatcher shape above" of its docstring (18). A routine that moves the base
  (`INC base`, or `CLC`, `LDA base`, `ADC #1`, `STA base`) and has one INY, one without an
  INY, or one with a third INY is accepted; the switch still leaves Y at twice the case
  plus 2 and the base at the return address, and reads the table from there.
  `SwitchExact` fails for exactly these when `Documented` is dropped from it.
* `fast_subroutine_rts_dispatch.py` also rewrites the generic end behind the guards
  of a leaf, which its comment at line 331 excludes. Control still goes right.
* `mirror_indexed_prg_tables.py` promises four tables per bank; a second run may
  add four more. `BanksFit` is about the banks after repacking.
* `fast_code_bank_switch.py` keeps `XOR A` by its docstring (line 9); the helper
  drops it (88-90).
* The profile mode of the last repacker may end with more banks than it began with;
  `repack_code_banks.py` refuses a layout that does not fit (`Refused`).
* Addresses a program pushes for an RTS (`cfg.rs`) are not seen from reset by
  `nmi_exclusive_blocks`, and an RTS with unknown targets does not make it give up,
  as an unresolved `JMP (ptr)` does.
* The native switch of `specialize_inline_dispatchers.py` does not pass the poll at
  the head of the dispatcher.

## 5. Proofs

Checked by TLAPS for every value of the constants; assumptions are the `ASSUME`s
of `FramePacing` and `NmiRate` and those named below.

* `TypeCorrectness`: `Spec => []TypeOK`. `TypeOK` bounds the preparation counter
  and is not inductive alone: a step from `nes_hstitch_valid = 2` with a counter
  already at the end would leave the type. `PrepConsistent` relates the two. The
  invariant is stated without the program counter (`CellsOK`): the modules composed
  with `FramePacing` have program points of their own, and use it as it is.
* `StitchIsAtomic`: `Spec => StitchGoesLiveComplete`, an action property, from the
  same invariant: every action but the VBlank leaves `nes_hstitch_valid` alone, and
  the commit is the only one that sets it to 1 from anything but 3.
* `HeldFramesStayOwed`: `Spec => HeldFrameStaysOwed`, for every title and with no
  window closed. The commit is told apart from the other VBlanks by what it leaves
  in `nes_hstitch_valid`.
* `AtMostOneStartPerVBlank`: `RateSpec => []StartsWithinVBlanks` for
  `SlackCap >= 3`. The invariant `RateInv` counts the rights to a start that are
  outstanding (an event, a credit, a poll under way, an RTI between spending the
  credit and setting the event) and says each is paid for by a VBlank
  (`RightsPaid`). It holds with no window closed. With a `SlackCap` of 2 the
  saturating count forgets a VBlank that is still owed.
* `EarlyStartsAtIdle`: for titles without the preparation and with `complete` and
  `activate` closed. `IdleInv`: an event next to an unpublished
  frame is armed, and a poll that has consumed it stands at the idle PC.
* `NoChangeIsLost`: for titles without the preparation and with the four windows of
  the table closed. `LossInv` has two parts. `SnapshotInv`: while a snapshot is
  valid, or an early NMI runs that no VBlank has met, there is no event, no usable
  credit and no poll under way, so nothing can start the early NMI that would
  overwrite it. `OwedInv`: a change the snapshot answers for is in it, or was made
  again and is flagged in the live cells.
* `NoMaskIsLost`: the same for PPUMASK, under the same proviso. `MaskInv` adds to
  `SnapshotInv` that a snapshot waits only while `nes_pace_early` is set
  (`WaitsForEarly`), so a mask that goes out at once cannot be overwritten by an
  older one from a snapshot.
* `EarlyNMIsHaveNoCredit`: with `published` and `early` closed as well. Then an early
  NMI which no VBlank has met has its snapshot (`EarlyHasSnapshot`), and
  `SnapshotInv` says that there is no usable credit beside a snapshot.
* `PacingIsAtomic`: `Spec => RefinesAtomicFrames`, under the proviso of
  `NoChangeIsLost`. `FrameInv` says where the last completed frame is: in the cells
  between two NMIs (but for the one mainline code is writing) and up to an early
  start's copy, and after that in what the snapshot will make of the display. A
  write, its flag, the activation, the RTI and the VBlank map to `Draw`, `Settle`,
  `Begin`, `Finish` and `Publish` or a stutter; every other step stutters.
* `PagesTypeCorrectness`, `SpritesOfTheFrame`, `SnapshotKeepsItsPage`
  (`OamPagesProofs`): the three invariants of `OamPages`. `PagesInv` says who owns a
  page: a projection is put off only beside a snapshot with sprites, and then the
  pace page holds them and is not the live one (`OwnerInv`); and what the display
  gets next: a page that counts as projected, and that nothing is drawing, shows
  the virtual OAM once a stale one has been resolved (`ImageInv`). It rests on `SnapshotInv` of `NoChangeIsLost`, with the same windows,
  which `OamPages` assumes closed.
* `StagingTypeCorrectness`, `NoWriteIsLost`, `PrefixRetiresInOrder`,
  `FlushedEntriesWritten` (`StagingProofs`): the four invariants of
  `NametableStaging`, for every number of addresses, bytes of the bitmap, pages and
  entries per page, with the windows of the table closed (`StagingProviso`).
  `StagingInv` adds to `SnapshotInv` what the registers of a write in progress hold
  at each of its instructions (`RegInv`), that a bit of the duplicate bitmap means, as
  long as the transaction is open, that its address is in the queue, that the write
  which set it is still under way or that the queue overflowed (`BitsInv`), that the
  counters of a snapshot describe a prefix of the live queue (`PrefixInv`), and that
  every byte the display lacks is in the queue, on its way to it or dropped with an
  overflow (`OwedBytes`). That the windows are needed the run `staging_bitmap` shows for one.
* `NothingReadsStaleFlags`, `NothingReadsStaleFlagsGlobally` (`RemovedStoresProofs`):
  `Spec => []NoStaleFlag` and `Spec => []NoStaleFlagGlobally` for every number of
  blocks and every set of programs that satisfy `IsProgram` (`ProgramsAssumption`,
  which TLC evaluates on the programs of `register_passes`). Three steps. `Swept` is
  defined by recursion from the last block to the first; that such a function exists
  is an induction, which `LeastNatural` (a set of naturals has a least element, from
  the library's well-foundedness of `<`) makes possible. When the sweeps have
  settled, `liveIn` and `liveOut` solve the equations of liveness (`Solved`). And a
  removed store, or a flag that is stale where the program runs, is `Needed` by
  nothing up to the end of the block and not live there (`RemovedInv`, `StaleInv`).
  The proofs of the terminal passes need that no instruction but the last one before
  a trace label transfers control, which is part of `IsProgram` (`cfg.rs:628-650`
  ends a block at every branch, jump or exit).
* `AnonymousLabelsFound`, `WorkListSolves`, `NothingReadsStaleCells`
  (`RemovedStoresProofs`): the three invariants of `DeadHram`, for every number of lines
  and every set of texts (`TextsAssumption`). The first is about cardinalities: the
  labels up to a line are counted, and the nearest one on a side is the one with
  that count or the next. The second is the invariant of the work list (`WorkInv`): a
  line that is not on it satisfies its equations, because changing a line puts back
  every line it is a successor of. In which order they return is left to `SetToSeq`,
  so the proof covers every order. The third follows from the solved equations as for
  the flags (`GoneInv`): a removed store is followed by nothing live, and a stale
  cell is not live where the text runs. It needs the first, since the pass follows
  `Resolve` and the program goes to `Nearest`.
* `LivenessIsExact` (`RemovedStoresProofs`): `Spec => []LivenessIsPaths`. A flag the
  sweeps call live is read: `Swept` runs from the last block to the first, so a claim
  about all blocks behind one is an induction downwards (`SweptIsRead`), and while the
  sweeps go on `PathsInv` says that what is live at the entry of a block has a path to
  a reader. One that is read is live, by the equations, from the reader back along
  the path. `MayBeRead` takes paths of no more blocks than there are; a
  path can be made to repeat none (`SimpleIsShort`).
* `TransfersAreExact`, `ReturnsAreFound` (`ReturnsProofs`): the two invariants of
  `Returns` for every program (`ReturnsAssumption`), every page size, number of pages
  and of guards. What comes before the run: no site is
  given an arm for a label the high and low byte of which are not those of its arm, or
  of the address before it where the increment comes later (`SitesRight`), and a stage
  behind the increment is not deferred where a low byte would borrow; so the first
  arm that matches is the right one whatever the address. `Best` is stated by the rank
  of an element, and that there is one of each rank is an induction on the rank; which
  arm comes first, how much budget there is and what a weight amounts to do not
  matter, but that a weight is positive where there is a call. And
  during the run (`CallsInv`): for each return address on the stack there is a label
  some JSR has called with it, and the walk from that label comes to where
  control is when it returns to the frame. A step that strays from calls and returns
  ends the claim.
* `SwitchesAreExact` (`TransfersProofs`): `SwitchSpec => []SwitchExact` for every
  routine of any length, every table, every size of a byte from 2 up (256 among them)
  and every 6502 state at the call (`SwitchAssumption`). `SwitchInv` says that the
  state so far is that after as many steps of `Dispatcher` as there have been
  instructions with an effect (`EffectsCount`), as long as what has run is in its
  order; the fourteen states are then worked out one by one. The theorem needs that the
  routine is `Documented` (the recogniser does not show it), that the four zero-page
  cells differ, that the two pushes do not hit one another, and that the case is below
  half a byte, so that ASL loses nothing.
* `ShortJumpsReach` (`TransfersProofs`): `TextSpec => []JumpsReach` for every text
  of every number of lines, every size of its lines and every range of JR
  (`TextsAreReal`). The pass counts with the largest size a line can have, the
  property with the size it has in the end: a jump already rewritten may be shorter
  than it was counted, none is longer, and no data of unknown size lies between a JR
  and its label (`CountCovers`). `TextInv` keeps that only the kind of a jump
  changes and that a JR behind the pass is one it could prove in range.
* `TransfersAlwaysLand`, `BanksAlwaysFit`, `ClimbingGains` (`TransfersProofs`): the
  three properties of `CodeBanks` for every layout (`LayoutsAreReal`: what the
  emitter guarantees of sections and references), every limit, every number of
  tables per bank and every mode. `BanksInv`, for where a transfer arrives: a
  reference without a bank switch stays in its bank (`RefsInv`); what is moved at a
  time, a component, a merged cluster, a bin or a climbing unit, is closed under
  such references (`WholeInv`); and climbing units are disjoint, cover the blocks and
  lie in one bank each (`ClimbInv`). `FitInv`, for how full the banks get: a
  cluster or bin fits the limit or lies within one old bank, no section is lost
  between clusters and bins (`PackedInv`), and while climbing no bank is above the
  limit (`FilledInv`). `ClimbingGains` shows more than its property: what a move or
  swap adds to `LocalRefs` is exactly the gain the code computes (`MoveGains`,
  `SwapGains`), for which the sum over clusters that it computes has to be the
  number of references between a cluster and a bank (`ConnCounts`). `TransfersLand`
  does not need that merging takes the heaviest pair or that climbing takes the best
  step, so it would survive another heuristic; it needs that components are built
  from all references that load no bank, tables included.

The sums behind these theorems (bytes between a jump and its label, the size of a
bank, the references between clusters, the calls behind a weight) are folds over sets, about which the
installed provers cannot do an induction. The lemmas `SumExists` to `SumCover` get
around it (`Arithmetic`): a set on which a claim about the sum fails would have a smallest subset
on which it fails (`SmallestSet`), and one element less gives the contradiction.

Model-checked only: liveness (`EventuallyShown`, `PreparationEnds`), which is out of
the prover's reach; and the properties of `BlockCache`, `HostAlu` and `NmiPolls`.
`HostAlu` is out of the prover's reach, since it computes with recursive operators and
bitwise ones. `BlockCache` flattens sequences of rewritten lines and `NmiPolls` chains
superblocks by a fold: what those return for every input would need induction over
data. `MainlinePolls` besides is true only of programs without chains and tables, as
the run `polls` shows.

## 6. Plan

Done: the pacing core with its queue, pages and rate (runtime), its first proofs,
and the passes (`DeadFlags`, `DeadHram`, `BlockCache`, `HostAlu`, `Returns`,
`InlineSwitch`, `NmiPolls`, `CodeBanks`, `ShortJumps`). To come, in this order:

1. Runtime, composed with `FramePacing`: `SplitRaster` (scroll pairs, grace, STAT),
   `HStitch` (keys, catch-up, published shadow), `SeamScroll` (line arithmetic, LCDC
   shared by three writers); a history of the completed frame in `NametableStaging`
   for the bytes a paced flush publishes, and the overflow flag's life.
2. Runtime, on its own: `DispatchCache` against the table it caches, `Joypad`,
   `FollowCamera`, `Apu`.
3. Recompiler: `Discovery` (every reachable block found, work list ends), the size
   bound of superblocks in `NmiPolls`, `Residency` (implements a machine that keeps
   every register in its cell).

The modules of 2 and 3 are sequential and small: they join `MCTransfers` or
`MCRegisterPasses`, where a behaviour is one module on one program.

Abstract specifications worth stating: a frame buffer per channel (done), a set of
pending writes for the queue, a plain machine for `Residency`, a plain table for
`DispatchCache`.

Theorems to come: those of `BlockCache`, once its rewriting is stated line by line
instead of by flattening, and those of `DispatchCache`.

## 7. Not modelled

Whole parts: those of the plan; diagnostics, parsing and file output; game-specific
loop replacements and text templates, whose correctness is that of one code
sequence; bench, profiles and build files. Timing in cycles or scanlines is not
modelled: the VBlank may come at any point, which covers every timing.

Of the passes that are modelled:

* flags: `remove_index_flag_scaffolding` and the branch fusions;
* registers: the passes on superblock edges (not in the pipeline) and the one on
  indexed stores; how the emitter spills X and Y at an edge (the plan's `Residency`);
* arithmetic: the read-modify-write fusion on indexed cells
  (`hot_alu_generated.py:188-270`), an operand that is not the one cell of the model,
  the limits of 48 and 24 lines on the scans of `cheap_carry_materialize.py` and
  `sbc_carry_capture.py` and their PUSH AF case, the emitter's own liveness
  of C and V; no fusion fires on a near branch, because `collapse_conditional_jp.py`
  ran before;
* returns: the order by a profile (`--rts-profile`), the shortened stack helpers,
  native leaf calls, and how `guard_indirect_dispatch.py` finds the table behind a
  pointer (the table is data of the model);
* memory: folded and inlined bus reads, index arithmetic;
* banks: the climb's own limit of eight steps per component (`ClimbGains` ends it);
  under a profile a unit goes by its first section, where the code takes the root of
  its union-find, and how often a transfer ran is data of the layout (`heat`), one unit
  of it instead of a thousand;
* dispatchers: bytes of an operand that look like one of the instructions the
  recogniser looks for.

`dead_global_zn.py`, `cache_bc_windows.py` and `repack_code_banks.py` are modelled
although the Makefile does not run them: the repository keeps and documents them.
