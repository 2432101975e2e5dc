-------------------------- MODULE NametableStaging --------------------------
(***************************************************************************)
(* $2007 nametable writes under frame pacing (runtime/ppu.asm, cpu.asm,    *)
(* video.asm).  While an NMI runs, a write to the authoritative nametable  *)
(* queues its address; a bitmap with one bit per address suppresses a      *)
(* second entry.  A commit flushes the queue with the values then in WRAM. *)
(* After a paced commit only the prefix that belonged to the snapshot has  *)
(* been flushed: the handler retires it and moves the rest down.           *)
(*                                                                         *)
(* Composed with FramePacing: the steps of the staging routine share its   *)
(* main thread, and its VBlank actions flush and retire the queue.  The    *)
(* stitched surface of vertical-mirroring titles is not part of this       *)
(* module (NoStitchAssumption).                                            *)
(***************************************************************************)
EXTENDS FramePacing

CONSTANTS
  Addrs, NoAddr,   \* nametable addresses; an entry never written
  Tiles,           \* what a nametable byte can hold
  ByteOf,          \* the bitmap byte that holds the bit of an address
  PageEntries,     \* queue entries per 256-byte page (128 in the code)
  Pages            \* pages of the queue (8 in the code)

ASSUME NoStitchAssumption == ~Vertical /\ ~Shape
ASSUME QueueAssumption ==
  /\ NoAddr \notin Addrs
  /\ PageEntries \in Nat \ {0} /\ Pages \in Nat \ {0}

VARIABLES
  nt,          \* nes_nametable_ram, the authoritative bytes
  vram,        \* the same bytes as the hardware displays them
  cells,       \* nes_nametable_queue
  ptrHi, ptrLo,\* nes_nametable_queue_ptr, two bytes
  overflow,    \* nes_nametable_queue_overflow
  stageUsed,   \* nes_nametable_stage_used
  seen,        \* nes_nametable_stage_seen: the addresses whose bit is set
  snapQ,       \* the queue cells of nes_pace_snap: ptr, overflow, stage used
  reg,         \* registers of the staging routine: address, bitmap byte, pointer
  dropped      \* ghost: addresses whose last write found the queue full

queue  == <<cells, ptrHi, ptrLo, overflow, stageUsed, seen, snapQ>>
ntVars == <<nt, vram, queue, reg, dropped>>
stagingVars == <<vars, ntVars>>

Ptr == ptrHi * PageEntries + ptrLo
Capacity == Pages * PageEntries

(* The addresses whose bits share a bitmap byte with a.                    *)
SameByte(a) == {b \in Addrs : ByteOf[b] = ByteOf[a]}

Entries(n) == {cells[i] : i \in 0 .. n - 1}

NoReg == [addr |-> NoAddr, byte |-> {}, hi |-> 0, lo |-> 0]

StagingInit ==
  /\ Init
  /\ \E t \in Tiles : nt = [a \in Addrs |-> t]
  /\ vram = nt
  /\ cells = [i \in 0 .. Capacity - 1 |-> NoAddr]
  /\ ptrHi = 0 /\ ptrLo = 0 /\ overflow = FALSE
  /\ stageUsed = FALSE /\ seen = {}
  /\ snapQ = [ptr |-> 0, overflow |-> FALSE, stageUsed |-> FALSE]
  /\ reg = NoReg /\ dropped = {}

-----------------------------------------------------------------------------
(* nes_ppu_write_data and nes_ppu_stage_nametable_hl, split where the      *)
(* VBlank handler can change what they have read.                          *)

Core == <<poll, pace, ppu, prep, shown, done>>

WriteNametable ==
  /\ Goto("run", "route")
  /\ \E a \in Addrs, t \in Tiles :
       /\ nt' = [nt EXCEPT ![a] = t]
       /\ reg' = [NoReg EXCEPT !.addr = a]
       /\ dropped' = dropped \ {a}
  /\ UNCHANGED <<Core, vram, queue>>

(* Written through at once: mainline code, and an NMI with rendering off   *)
(* whose mask is already live.                                             *)
SyncNow ==
  /\ ~(active /\ early)
  /\ Goto("route", "run")
  /\ vram' = [vram EXCEPT ![reg.addr] = nt[reg.addr]]
  /\ reg' = NoReg
  /\ UNCHANGED <<Core, nt, queue, dropped>>

StageOverflowed ==
  /\ active /\ overflow
  /\ Goto("route", "run")
  /\ dropped' = dropped \cup {reg.addr}
  /\ reg' = NoReg
  /\ UNCHANGED <<Core, nt, vram, queue>>

Stage ==
  /\ active /\ ~overflow
  /\ Goto("route", "bitRead")
  /\ stageUsed' = TRUE
  /\ UNCHANGED <<Core, nt, vram, cells, ptrHi, ptrLo, overflow, seen, snapQ, reg, dropped>>

StageDuplicate ==
  /\ reg.addr \in seen
  /\ Goto("bitRead", "run")
  /\ reg' = NoReg
  /\ UNCHANGED <<Core, nt, vram, queue, dropped>>

ReadBits ==
  /\ reg.addr \notin seen
  /\ Goto("bitRead", "bitWrite")
  /\ reg' = [reg EXCEPT !.byte = seen \cap SameByte(reg.addr)]
  /\ UNCHANGED <<Core, nt, vram, queue, dropped>>

WriteBits ==
  /\ Goto("bitWrite", "ptrHiRead")
  /\ seen' = (seen \ SameByte(reg.addr)) \cup reg.byte \cup {reg.addr}
  /\ UNCHANGED <<Core, nt, vram, cells, ptrHi, ptrLo, overflow, stageUsed, snapQ, reg, dropped>>

FullTooLate == ptrHi > Pages   \* mutant: one entry too many
Full        == ptrHi >= Pages

StageFull ==
  /\ Full
  /\ Goto("ptrHiRead", "run")
  /\ overflow' = TRUE
  /\ dropped' = dropped \cup {reg.addr}
  /\ reg' = NoReg
  /\ UNCHANGED <<Core, nt, vram, cells, ptrHi, ptrLo, stageUsed, seen, snapQ>>

ReadPtrHi ==
  /\ ~Full
  /\ Goto("ptrHiRead", "ptrLoRead")
  /\ reg' = [reg EXCEPT !.hi = ptrHi]
  /\ UNCHANGED <<Core, nt, vram, queue, dropped>>

ReadPtrLo ==
  /\ Goto("ptrLoRead", "entry")
  /\ reg' = [reg EXCEPT !.lo = ptrLo]
  /\ UNCHANGED <<Core, nt, vram, queue, dropped>>

StoreEntry ==
  /\ Goto("entry", "ptrLoWrite")
  /\ cells' = [cells EXCEPT ![reg.hi * PageEntries + reg.lo] = reg.addr]
  /\ UNCHANGED <<Core, nt, vram, ptrHi, ptrLo, overflow, stageUsed, seen, snapQ, reg, dropped>>

StorePtrLo ==
  /\ Goto("ptrLoWrite", "ptrHiWrite")
  /\ ptrLo' = (reg.lo + 1) % PageEntries
  /\ UNCHANGED <<Core, nt, vram, cells, ptrHi, overflow, stageUsed, seen, snapQ, reg, dropped>>

NextHiNoCarry == reg.hi   \* mutant: the carry into the high byte is lost
NextHi        == reg.hi + (reg.lo + 1) \div PageEntries

StorePtrHi ==
  /\ Goto("ptrHiWrite", "run")
  /\ ptrHi' = NextHi
  /\ reg' = NoReg
  /\ UNCHANGED <<Core, nt, vram, cells, ptrLo, overflow, stageUsed, seen, snapQ, dropped>>

Staging ==
  \/ SyncNow \/ StageOverflowed \/ Stage \/ StageDuplicate \/ ReadBits \/ WriteBits
  \/ StageFull \/ ReadPtrHi \/ ReadPtrLo \/ StoreEntry \/ StorePtrLo \/ StorePtrHi

-----------------------------------------------------------------------------
(* What the actions of FramePacing do to the queue.                        *)

(* A normal NMI start opens a fresh transaction.                           *)
OpenTransaction ==
  /\ NormalStart
  /\ ptrHi' = 0 /\ ptrLo' = 0 /\ overflow' = FALSE
  /\ stageUsed' = FALSE
  /\ seen' = IF stageUsed THEN {} ELSE seen
  /\ UNCHANGED <<nt, vram, cells, snapQ, reg, dropped>>

SnapshotQueue ==
  /\ CopySnapshot
  /\ snapQ' = [ptr |-> Ptr, overflow |-> overflow, stageUsed |-> stageUsed]
  /\ UNCHANGED <<nt, vram, cells, ptrHi, ptrLo, overflow, stageUsed, seen, reg, dropped>>

Flushed(n) == [a \in Addrs |-> IF a \in Entries(n) THEN nt[a] ELSE vram[a]]

(* An ordinary commit flushes the whole queue.                             *)
FlushLive ==
  /\ ~Paced /\ VBlankCommit
  /\ vram' = Flushed(Ptr)
  /\ ptrHi' = 0 /\ ptrLo' = 0 /\ overflow' = FALSE
  /\ UNCHANGED <<nt, cells, stageUsed, seen, snapQ, reg, dropped>>

(* The bits cleared, and the entries left, when n entries are retired.     *)
ForgottenNone(n) == {}           \* mutant: the bitmap keeps the retired bits
Forgotten(n) == UNION {SameByte(a) : a \in Entries(n) \ {NoAddr}}
LeftOneMore(n) == Ptr - n + 1    \* mutant: an off-by-one in the new pointer
Left(n)        == Ptr - n

(* nes_pace_retire_flushed_queue, for the prefix of n entries: forget the  *)
(* bitmap bytes of the prefix and move what the running NMI appended down. *)
Retire(n) ==
  IF n = 0
    THEN UNCHANGED <<cells, ptrHi, ptrLo, seen>>
    ELSE /\ seen' = seen \ Forgotten(n)
         /\ cells' = [i \in DOMAIN cells |-> IF i < Left(n) THEN cells[i + n] ELSE cells[i]]
         /\ ptrHi' = Left(n) \div PageEntries
         /\ ptrLo' = Left(n) % PageEntries

(* A paced commit flushes the snapshot's queue and retires it.             *)
FlushSnapshot ==
  /\ Paced /\ VBlankCommit
  /\ vram' = Flushed(snapQ.ptr)
  /\ snapQ' = [snapQ EXCEPT !.ptr = 0, !.overflow = FALSE]
  /\ Retire(snapQ.ptr)
  /\ UNCHANGED <<nt, overflow, stageUsed, reg, dropped>>

(* The rest of the pacing protocol.  Writes to the channels of FramePacing *)
(* are left out: they neither read nor change the queue.                   *)
Elsewhere ==
  /\ \/ WriteCtrl \/ Poll \/ Rti
     \/ CheckArmed \/ Consume \/ Activate \/ Drop \/ EarlyStart
     \/ CleanLive \/ ValidateSnapshot \/ ForgetUnpublished \/ SetEarly
     \/ MarkUnpublished \/ SpendCredit \/ Arm \/ SetPending
     \/ VBlankSkip
  /\ UNCHANGED ntVars

StagingNext ==
  \/ WriteNametable \/ Staging
  \/ OpenTransaction \/ SnapshotQueue \/ FlushLive \/ FlushSnapshot
  \/ Elsewhere

StagingSpec == StagingInit /\ [][StagingNext]_stagingVars

-----------------------------------------------------------------------------
StagingPCs == {"route", "bitRead", "bitWrite", "ptrHiRead", "ptrLoRead", "entry",
               "ptrLoWrite", "ptrHiWrite"}

RegOK ==
  /\ reg.addr \in Addrs \cup {NoAddr} /\ reg.byte \subseteq Addrs
  /\ reg.hi \in 0 .. Pages - 1 /\ reg.lo \in 0 .. PageEntries - 1

(* The type of the queue.  The pointer never passes its end: behind it lies *)
(* echo RAM, where an entry would overwrite the internal RAM of the NES     *)
(* (nes_ppu_stage_nametable_hl, nes_pace_retire_flushed_queue).             *)
StagingTypeOK ==
  /\ pc \in PCs \cup StagingPCs /\ PollOK /\ PaceOK /\ PpuOK /\ PrepOK /\ ViewOK
  /\ nt \in [Addrs -> Tiles] /\ vram \in [Addrs -> Tiles]
  /\ cells \in [0 .. Capacity - 1 -> Addrs \cup {NoAddr}]
  /\ Ptr \in 0 .. Capacity /\ ptrLo < PageEntries
  /\ overflow \in BOOLEAN /\ stageUsed \in BOOLEAN /\ seen \subseteq Addrs
  /\ snapQ \in [ptr : 0 .. Capacity, overflow : BOOLEAN, stageUsed : BOOLEAN]
  /\ dropped \subseteq Addrs /\ RegOK

(* A nametable byte the player does not see yet is queued, or its write is *)
(* still under way: neither the duplicate bitmap nor the retirement of a   *)
(* flushed prefix makes the runtime forget one.  Only a write that finds   *)
(* the queue full is forgotten.                                            *)
NoLostWrite ==
  \A a \in Addrs : nt[a] # vram[a] =>
     \/ a \in Entries(Ptr)
     \/ pc \in StagingPCs /\ reg.addr = a
     \/ pc = "ptrHiWrite"      \* the pointer is between its two stores
     \/ a \in dropped

(* "Begin a fresh all-or-nothing nametable transaction" (cpu.asm): one that *)
(* did not fit is not published in part.                                   *)
AllOrNothing == [][overflow /\ ~overflow' => vram' = vram]_stagingVars

(* Whenever the handler may retire a prefix, the prefix is within the live *)
(* queue: otherwise the move loop of the code, which stops at equality,    *)
(* would copy through all of memory.                                       *)
RetireInOrder == Paced /\ pc \notin ClosedWindows => snapQ.ptr <= Ptr

(* The handler never flushes an entry nobody wrote.                        *)
EntriesWritten == pc \notin ClosedWindows => NoAddr \notin Entries(Ptr)
=============================================================================
