---------------------------- MODULE StagingProofs ----------------------------
(***************************************************************************)
(* The nametable queue under frame pacing: no write is forgotten, nothing  *)
(* is flushed that was not written, and a paced commit retires a prefix of *)
(* the live queue, provided the VBlank interrupt stays out of the windows  *)
(* below.  The run staging_bitmap shows one of them to be needed.          *)
(***************************************************************************)
EXTENDS NametableStaging, FramePacingProofs

PtrWindows == {"ptrLoRead", "entry", "ptrLoWrite", "ptrHiWrite"}

StagingWindows ==
  {"complete", "start", "copy", "clean", "valid", "bitWrite"} \cup PtrWindows

(* Between the two stores of the pointer the new entry does not count yet. *)
QueueLen == IF pc = "ptrHiWrite" THEN reg.hi * PageEntries + reg.lo ELSE Ptr

Queued == Entries(QueueLen)

AfterBits == {"ptrHiRead"} \cup PtrWindows

(* What the registers of the staging routine know.                         *)
RegInv ==
  /\ pc \in StagingPCs => reg.addr \in Addrs
  /\ pc \in StagingPCs \ {"route"} => active /\ ~overflow /\ stageUsed
  /\ pc = "bitWrite" => reg.byte \subseteq seen
  /\ pc \in PtrWindows => ptrHi = reg.hi
  /\ pc \in {"entry", "ptrLoWrite"} => ptrLo = reg.lo
  /\ pc = "ptrHiWrite" => ptrLo = (reg.lo + 1) % PageEntries
  /\ pc \in {"ptrLoWrite", "ptrHiWrite"} => cells[reg.hi * PageEntries + reg.lo] = reg.addr

(* A transaction is open from a normal start to the commit that publishes  *)
(* the last frame of it; only then do the bits mean anything.              *)
Open == \/ active /\ pc # "start"
        \/ unpublished
        \/ pc = "complete"

(* A set bit stands for an entry, made or being made, unless the queue     *)
(* overflowed and nothing is queued any more.                              *)
BitsInv ==
  /\ ~stageUsed => seen = {}
  /\ Open => \A a \in seen : \/ a \in Queued
                             \/ overflow
                             \/ pc \in AfterBits /\ reg.addr = a

(* Only written entries; the snapshot's are the first of them, and a       *)
(* published transaction has none.                                         *)
PrefixInv ==
  /\ NoAddr \notin Queued
  /\ ~Open => Ptr = 0
  /\ SnapHolds => snapQ.ptr <= QueueLen

(* A byte that is not displayed is queued, being queued, or was dropped.   *)
OwedBytes ==
  \A a \in Addrs : nt[a] # vram[a] =>
     \/ a \in Queued
     \/ pc \in StagingPCs /\ reg.addr = a
     \/ a \in dropped

StagingInv == SnapshotInv /\ RegInv /\ BitsInv /\ PrefixInv /\ OwedBytes

(* The types; StagingTypeOK follows.                                       *)
QueueOK ==
  /\ nt \in [Addrs -> Tiles] /\ vram \in [Addrs -> Tiles]
  /\ cells \in [0 .. Capacity - 1 -> Addrs \cup {NoAddr}]
  /\ ptrHi \in Nat /\ ptrLo \in 0 .. PageEntries - 1 /\ Ptr \in 0 .. Capacity
  /\ overflow \in BOOLEAN /\ stageUsed \in BOOLEAN /\ seen \subseteq Addrs
  /\ snapQ \in [ptr : 0 .. Capacity, overflow : BOOLEAN, stageUsed : BOOLEAN]
  /\ reg \in [addr : Addrs \cup {NoAddr}, byte : SUBSET Addrs,
              hi : 0 .. Pages - 1, lo : 0 .. PageEntries - 1]
  /\ dropped \subseteq Addrs

-----------------------------------------------------------------------------
(* The pointer: a page number and an offset, and their carry.              *)
LEMMA Division ==
  ASSUME NEW n \in Nat
  PROVE  /\ n \div PageEntries \in Nat /\ n % PageEntries \in 0 .. PageEntries - 1
         /\ (n \div PageEntries) * PageEntries + (n % PageEntries) = n
<1>1. PageEntries \in Nat \ {0}
  BY QueueAssumption
<1> QED
  BY <1>1

LEMMA TimesMonotone ==
  ASSUME NEW a \in Nat, NEW b \in Nat, a <= b
  PROVE  a * PageEntries \in Nat /\ b * PageEntries \in Nat /\ a * PageEntries <= b * PageEntries
<1>1. PageEntries \in Nat /\ b - a \in Nat
  BY QueueAssumption
<1>2. a * PageEntries \in Nat /\ (b - a) * PageEntries \in Nat
  BY <1>1
<1>3. b * PageEntries = a * PageEntries + (b - a) * PageEntries
  BY <1>1
<1> QED
  BY <1>2, <1>3

LEMMA PagesTimes ==
  ASSUME NEW hi \in Nat
  PROVE  /\ hi * PageEntries \in Nat /\ Capacity \in Nat
         /\ hi < Pages => hi * PageEntries <= Capacity - PageEntries
         /\ hi > Pages => hi * PageEntries >= Capacity + PageEntries
<1>1. PageEntries \in Nat \ {0} /\ Pages \in Nat \ {0} /\ hi + 1 \in Nat /\ Pages + 1 \in Nat
  BY QueueAssumption
<1>2. /\ (hi + 1) * PageEntries = hi * PageEntries + PageEntries
      /\ (Pages + 1) * PageEntries = Pages * PageEntries + PageEntries
      /\ hi * PageEntries \in Nat /\ Pages * PageEntries \in Nat
  BY <1>1
<1>3. hi < Pages => (hi + 1) * PageEntries <= Pages * PageEntries
  BY <1>1, TimesMonotone
<1>4. hi > Pages => (Pages + 1) * PageEntries <= hi * PageEntries
  BY <1>1, TimesMonotone
<1> QED
  BY <1>1, <1>2, <1>3, <1>4 DEF Capacity

LEMMA InsideTheQueue ==
  ASSUME NEW hi \in 0 .. Pages - 1, NEW lo \in 0 .. PageEntries - 1
  PROVE  hi * PageEntries + lo \in 0 .. Capacity - 1
<1>1. /\ PageEntries \in Nat \ {0} /\ Pages \in Nat \ {0}
      /\ hi \in Nat /\ lo \in Nat /\ hi < Pages /\ lo < PageEntries
  BY QueueAssumption
<1> QED
  BY <1>1, PagesTimes

(* What the two stores of the pointer leave: one entry more.               *)
LEMMA Carry ==
  ASSUME NEW hi \in 0 .. Pages - 1, NEW lo \in 0 .. PageEntries - 1
  PROVE  /\ hi + (lo + 1) \div PageEntries \in Nat
         /\ (lo + 1) % PageEntries \in 0 .. PageEntries - 1
         /\ (hi + (lo + 1) \div PageEntries) * PageEntries + ((lo + 1) % PageEntries)
              = hi * PageEntries + lo + 1
<1>1. PageEntries \in Nat \ {0} /\ hi \in Nat /\ lo + 1 \in Nat /\ lo \in Nat
  BY QueueAssumption
<1> DEFINE q == (lo + 1) \div PageEntries
           r == (lo + 1) % PageEntries
<1>2. q \in Nat /\ r \in 0 .. PageEntries - 1 /\ q * PageEntries + r = lo + 1
  BY <1>1, Division
<1> HIDE DEF q, r
<1>3. (hi + q) * PageEntries = hi * PageEntries + q * PageEntries
  BY <1>1, <1>2
<1>4. hi + q \in Nat /\ hi * PageEntries \in Nat /\ q * PageEntries \in Nat
  BY <1>1, <1>2
<1>5. (hi + q) * PageEntries + r = hi * PageEntries + lo + 1
  BY <1>1, <1>2, <1>3, <1>4
<1> QED
  BY <1>2, <1>4, <1>5 DEF q, r
-----------------------------------------------------------------------------
(* The entries that count.                                                 *)
LEMMA QueueLenType == QueueOK => QueueLen \in 0 .. Capacity
<1> SUFFICES ASSUME QueueOK PROVE QueueLen \in 0 .. Capacity
  OBVIOUS
<1>1. reg.hi \in 0 .. Pages - 1 /\ reg.lo \in 0 .. PageEntries - 1 /\ Capacity \in Nat
  BY PagesTimes DEF QueueOK
<1>2. reg.hi * PageEntries + reg.lo \in 0 .. Capacity - 1
  BY <1>1, InsideTheQueue
<1> QED
  BY <1>1, <1>2 DEF QueueOK, QueueLen

LEMMA QueuedStays ==
  ASSUME UNCHANGED cells, QueueLen' = QueueLen
  PROVE  Queued' = Queued
  BY DEF Queued, Entries

(* The staging routine does not touch the pacing cells.                    *)
LEMMA StagingSteps ==
  ASSUME CellsOK, SnapshotInv, WriteNametable \/ Staging
  PROVE  /\ CellsOK' /\ SnapshotInv'
         /\ UNCHANGED <<active, early, snapValid, snapQ>>
         /\ pc \in {"run"} \cup StagingPCs /\ pc' \in {"run"} \cup StagingPCs
         /\ SnapHolds' <=> SnapHolds
         /\ Open' <=> Open
<1>1. /\ UNCHANGED <<poll, pace, ppu, prep, shown, done, snapQ>>
      /\ pc \in {"run"} \cup StagingPCs /\ pc' \in {"run"} \cup StagingPCs
  BY DEF Goto, WriteNametable, Staging, SyncNow, StageOverflowed, Stage, StageDuplicate,
     ReadBits, WriteBits, StageFull, ReadPtrHi, ReadPtrLo, StoreEntry, StorePtrLo, StorePtrHi,
     Core, queue, StagingPCs
<1>2. CellsOK'
  BY <1>1, GroupsKept DEF CellsOK
<1>3. SnapshotInv'
  BY <1>1, SnapshotStays DEF poll, pace, PollPCs, SnapPCs, RtiPCs, StagingPCs
<1>4. (SnapHolds' <=> SnapHolds) /\ (Open' <=> Open)
  BY <1>1 DEF SnapHolds, Open, poll, pace, StagingPCs
<1> QED
  BY <1>1, <1>2, <1>3, <1>4 DEF poll, pace

StagingSafe == CellsOK /\ QueueOK /\ StagingInv

-----------------------------------------------------------------------------
(* The routine up to the entry: the queue itself does not change.          *)
BeforeEntry ==
  \/ WriteNametable \/ SyncNow \/ StageOverflowed \/ Stage \/ StageDuplicate
  \/ ReadBits \/ WriteBits \/ StageFull \/ ReadPtrHi \/ ReadPtrLo

LEMMA BeforeEntryKeepsQueue ==
  ASSUME BeforeEntry
  PROVE  UNCHANGED <<cells, ptrHi, ptrLo, snapQ>> /\ QueueLen' = QueueLen /\ Queued' = Queued
<1>1. /\ UNCHANGED <<cells, ptrHi, ptrLo, snapQ>>
      /\ pc # "ptrHiWrite" /\ pc' # "ptrHiWrite"
  BY DEF BeforeEntry, Goto, WriteNametable, SyncNow, StageOverflowed, Stage, StageDuplicate,
     ReadBits, WriteBits, StageFull, ReadPtrHi, ReadPtrLo, queue
<1>2. QueueLen' = QueueLen
  BY <1>1 DEF QueueLen, Ptr
<1> QED
  BY <1>1, <1>2, QueuedStays

LEMMA BeforeEntryTypes ==
  ASSUME StagingSafe, BeforeEntry
  PROVE  QueueOK'
<1> USE DEF Goto
<1>1. QueueOK /\ UNCHANGED <<cells, ptrHi, ptrLo, snapQ>> /\ NoReg = [NoReg EXCEPT !.addr = NoAddr]
  BY BeforeEntryKeepsQueue DEF StagingSafe, NoReg
<1>2. ptrHi' \in Nat /\ ptrLo' \in 0 .. PageEntries - 1 /\ Ptr' \in 0 .. Capacity
  BY <1>1 DEF QueueOK, Ptr
<1>3. \A a \in Addrs \cup {NoAddr} : [NoReg EXCEPT !.addr = a]
        \in [addr : Addrs \cup {NoAddr}, byte : SUBSET Addrs,
             hi : 0 .. Pages - 1, lo : 0 .. PageEntries - 1]
  BY QueueAssumption DEF NoReg
<1>4. nt' \in [Addrs -> Tiles] /\ vram' \in [Addrs -> Tiles]
  BY <1>1 DEF QueueOK, StagingInv, StagingSafe, RegInv, StagingPCs, BeforeEntry, WriteNametable,
     SyncNow, StageOverflowed, Stage, StageDuplicate, ReadBits, WriteBits, StageFull,
     ReadPtrHi, ReadPtrLo
<1>5. overflow' \in BOOLEAN /\ stageUsed' \in BOOLEAN
  BY <1>1 DEF QueueOK, BeforeEntry, WriteNametable, SyncNow, StageOverflowed, Stage,
     StageDuplicate, ReadBits, WriteBits, StageFull, ReadPtrHi, ReadPtrLo, queue
<1>6. seen' \subseteq Addrs
  BY <1>1 DEF QueueOK, BeforeEntry, WriteNametable, SyncNow, StageOverflowed, Stage,
     StageDuplicate, ReadBits, WriteBits, StageFull, ReadPtrHi, ReadPtrLo, queue,
     StagingInv, StagingSafe, RegInv, StagingPCs
<1>7. dropped' \subseteq Addrs
  BY <1>1 DEF QueueOK, BeforeEntry, WriteNametable, SyncNow, StageOverflowed, Stage,
     StageDuplicate, ReadBits, WriteBits, StageFull, ReadPtrHi, ReadPtrLo, queue,
     StagingInv, StagingSafe, RegInv, StagingPCs
<1>8. reg' \in [addr : Addrs \cup {NoAddr}, byte : SUBSET Addrs,
               hi : 0 .. Pages - 1, lo : 0 .. PageEntries - 1]
  <2>1. CASE WriteNametable \/ SyncNow \/ StageOverflowed \/ StageDuplicate \/ StageFull
    BY <1>1, <1>3, <2>1 DEF WriteNametable, SyncNow, StageOverflowed, StageDuplicate, StageFull
  <2>2. CASE Stage \/ WriteBits
    BY <1>1, <2>2 DEF Stage, WriteBits, QueueOK
  <2>3. CASE ReadBits
    BY <1>1, <2>3 DEF ReadBits, QueueOK
  <2>4. CASE ReadPtrHi \/ ReadPtrLo
    BY <1>1, <2>4, QueueAssumption DEF ReadPtrHi, ReadPtrLo, QueueOK, Full
  <2> QED
    BY <2>1, <2>2, <2>3, <2>4 DEF BeforeEntry
<1> QED
  BY <1>1, <1>2, <1>4, <1>5, <1>6, <1>7, <1>8 DEF QueueOK

LEMMA BeforeEntryInv ==
  ASSUME StagingSafe, BeforeEntry
  PROVE  StagingInv'
<1> USE DEF Goto, StagingPCs, PtrWindows, AfterBits
<1>1. /\ QueueOK /\ RegInv /\ BitsInv /\ PrefixInv /\ OwedBytes
      /\ UNCHANGED <<cells, ptrHi, ptrLo, snapQ>> /\ QueueLen' = QueueLen /\ Queued' = Queued
  BY BeforeEntryKeepsQueue DEF StagingSafe, StagingInv
<1>2. /\ SnapshotInv'
      /\ UNCHANGED <<active, early, snapValid>>
      /\ SnapHolds' <=> SnapHolds
      /\ Open' <=> Open
  BY StagingSteps DEF StagingSafe, StagingInv, BeforeEntry, Staging
<1>3. PrefixInv'
  BY <1>1, <1>2 DEF PrefixInv, Ptr
<1>4. CASE WriteNametable
  <2>1. PICK a \in Addrs, t \in Tiles :
           /\ nt' = [nt EXCEPT ![a] = t] /\ reg' = [NoReg EXCEPT !.addr = a]
           /\ dropped' = dropped \ {a}
    BY <1>4 DEF WriteNametable
  <2>2. reg'.addr = a /\ UNCHANGED <<vram, seen, overflow, stageUsed>> /\ pc = "run" /\ pc' = "route"
    BY <1>4, <2>1 DEF WriteNametable, NoReg, queue
  <2>3. RegInv'
    BY <1>1, <2>2 DEF RegInv
  <2>4. BitsInv'
    BY <1>1, <1>2, <2>2 DEF BitsInv
  <2>5. OwedBytes'
    BY <1>1, <2>1, <2>2 DEF OwedBytes, QueueOK
  <2> QED
    BY <1>2, <1>3, <2>3, <2>4, <2>5 DEF StagingInv
<1>5. CASE SyncNow
  <2>1. /\ vram' = [vram EXCEPT ![reg.addr] = nt[reg.addr]] /\ reg.addr \in Addrs
        /\ UNCHANGED <<nt, seen, overflow, stageUsed, dropped>> /\ pc = "route" /\ pc' = "run"
    BY <1>1, <1>5 DEF SyncNow, RegInv, queue
  <2>2. RegInv' /\ BitsInv'
    BY <1>1, <1>2, <2>1 DEF RegInv, BitsInv
  <2>3. OwedBytes'
    BY <1>1, <2>1 DEF OwedBytes, QueueOK
  <2> QED
    BY <1>2, <1>3, <2>2, <2>3 DEF StagingInv
<1>6. CASE StageOverflowed \/ Stage
  <2>1. RegInv' /\ BitsInv'
    BY <1>1, <1>2, <1>6 DEF StageOverflowed, Stage, queue, RegInv, BitsInv
  <2>2. OwedBytes'
    BY <1>1, <1>6 DEF StageOverflowed, Stage, OwedBytes
  <2> QED
    BY <1>2, <1>3, <2>1, <2>2 DEF StagingInv
<1>7. CASE StageDuplicate
  <2>1. /\ reg.addr \in seen /\ pc = "bitRead" /\ pc' = "run"
        /\ UNCHANGED <<nt, vram, seen, overflow, stageUsed, dropped>>
    BY <1>7 DEF StageDuplicate, queue
  <2>2. reg.addr \in Queued
    BY <1>1, <2>1 DEF RegInv, BitsInv, Open
  <2>3. RegInv' /\ BitsInv'
    BY <1>1, <1>2, <2>1 DEF RegInv, BitsInv
  <2>4. OwedBytes'
    BY <1>1, <2>1, <2>2 DEF OwedBytes
  <2> QED
    BY <1>2, <1>3, <2>3, <2>4 DEF StagingInv
<1>8. CASE ReadBits
  <2>1. /\ pc = "bitRead" /\ pc' = "bitWrite" /\ reg'.byte \subseteq seen /\ reg'.addr = reg.addr
        /\ UNCHANGED <<nt, vram, seen, overflow, stageUsed, dropped>>
    BY <1>1, <1>8 DEF ReadBits, queue, QueueOK
  <2>2. RegInv' /\ BitsInv' /\ OwedBytes'
    BY <1>1, <1>2, <2>1 DEF RegInv, BitsInv, OwedBytes
  <2> QED
    BY <1>2, <1>3, <2>2 DEF StagingInv
<1>9. CASE WriteBits
  <2>1. /\ pc = "bitWrite" /\ pc' = "ptrHiRead" /\ seen' \subseteq seen \cup {reg.addr}
        /\ UNCHANGED <<nt, vram, reg, overflow, stageUsed, dropped>>
    BY <1>1, <1>9 DEF WriteBits, RegInv
  <2>2. RegInv' /\ BitsInv' /\ OwedBytes'
    BY <1>1, <1>2, <2>1 DEF RegInv, BitsInv, OwedBytes
  <2> QED
    BY <1>2, <1>3, <2>2 DEF StagingInv
<1>10. CASE StageFull
  <2>1. /\ pc = "ptrHiRead" /\ pc' = "run" /\ overflow' = TRUE
        /\ dropped' = dropped \cup {reg.addr}
        /\ UNCHANGED <<nt, vram, seen, stageUsed>>
    BY <1>10 DEF StageFull
  <2>2. RegInv' /\ BitsInv' /\ OwedBytes'
    BY <1>1, <1>2, <2>1 DEF RegInv, BitsInv, OwedBytes
  <2> QED
    BY <1>2, <1>3, <2>2 DEF StagingInv
<1>11. CASE ReadPtrHi \/ ReadPtrLo
  <2>1. /\ pc \in {"ptrHiRead", "ptrLoRead"} /\ reg'.addr = reg.addr
        /\ pc = "ptrHiRead" => pc' = "ptrLoRead" /\ reg'.hi = ptrHi
        /\ pc = "ptrLoRead" => pc' = "entry" /\ reg'.lo = ptrLo /\ reg'.hi = reg.hi
        /\ UNCHANGED <<nt, vram, seen, overflow, stageUsed, dropped>>
    BY <1>1, <1>11 DEF ReadPtrHi, ReadPtrLo, queue, QueueOK
  <2>2. RegInv' /\ BitsInv' /\ OwedBytes'
    BY <1>1, <1>2, <2>1 DEF RegInv, BitsInv, OwedBytes
  <2> QED
    BY <1>2, <1>3, <2>2 DEF StagingInv
<1> QED
  BY <1>4, <1>5, <1>6, <1>7, <1>8, <1>9, <1>10, <1>11 DEF BeforeEntry

(* The entry is stored behind the queue, and counts with the second store  *)
(* of the pointer.                                                         *)
LEMMA EntrySteps ==
  ASSUME StagingSafe, StoreEntry \/ StorePtrLo \/ StorePtrHi
  PROVE  QueueOK' /\ StagingInv'
<1> USE DEF Goto, StagingPCs, PtrWindows, AfterBits
<1>1. /\ QueueOK /\ RegInv /\ BitsInv /\ PrefixInv /\ OwedBytes
      /\ reg.hi \in 0 .. Pages - 1 /\ reg.lo \in 0 .. PageEntries - 1
      /\ reg.hi * PageEntries + reg.lo \in 0 .. Capacity - 1
      /\ reg.addr \in Addrs /\ ptrHi = reg.hi
      /\ UNCHANGED <<nt, vram, seen, overflow, stageUsed, snapQ, dropped>>
  <2>1. QueueOK /\ RegInv /\ BitsInv /\ PrefixInv /\ OwedBytes
    BY DEF StagingSafe, StagingInv
  <2>2. reg.hi \in 0 .. Pages - 1 /\ reg.lo \in 0 .. PageEntries - 1
    BY <2>1 DEF QueueOK
  <2>3. reg.addr \in Addrs /\ ptrHi = reg.hi
    BY <2>1 DEF RegInv, StoreEntry, StorePtrLo, StorePtrHi
  <2>4. UNCHANGED <<nt, vram, seen, overflow, stageUsed, snapQ, dropped>>
    BY DEF StoreEntry, StorePtrLo, StorePtrHi
  <2> QED
    BY <2>1, <2>2, <2>3, <2>4, InsideTheQueue
<1>2. /\ SnapshotInv'
      /\ UNCHANGED <<active, early, snapValid>>
      /\ SnapHolds' <=> SnapHolds
      /\ Open' <=> Open
  BY StagingSteps DEF StagingSafe, StagingInv, Staging
<1>3. CASE StoreEntry
  <2>1. /\ pc = "entry" /\ pc' = "ptrLoWrite" /\ UNCHANGED <<ptrHi, ptrLo, reg>>
        /\ cells' = [cells EXCEPT ![reg.hi * PageEntries + reg.lo] = reg.addr]
    BY <1>3 DEF StoreEntry
  <2>2. Ptr = reg.hi * PageEntries + reg.lo /\ Ptr' = Ptr
    BY <1>1, <2>1 DEF RegInv, Ptr
  <2>3. QueueLen = Ptr /\ QueueLen' = Ptr
    BY <2>1, <2>2 DEF QueueLen
  <2>4. /\ cells' \in [0 .. Capacity - 1 -> Addrs \cup {NoAddr}]
        /\ cells'[reg.hi * PageEntries + reg.lo] = reg.addr
        /\ \A n \in 0 .. Ptr - 1 : cells'[n] = cells[n]
    BY <1>1, <2>1, <2>2 DEF QueueOK
  <2>5. Queued' = Queued
    BY <2>3, <2>4 DEF Queued, Entries
  <2>6. QueueOK'
    BY <1>1, <2>1, <2>2, <2>4 DEF QueueOK
  <2>7. RegInv'
    BY <1>1, <1>2, <2>1, <2>4 DEF RegInv
  <2>8. BitsInv' /\ PrefixInv' /\ OwedBytes'
    BY <1>1, <1>2, <2>1, <2>2, <2>3, <2>5 DEF BitsInv, PrefixInv, OwedBytes
  <2> QED
    BY <1>2, <2>6, <2>7, <2>8 DEF StagingInv
<1>4. CASE StorePtrLo
  <2>1. /\ pc = "ptrLoWrite" /\ pc' = "ptrHiWrite" /\ UNCHANGED <<ptrHi, reg, cells>>
        /\ ptrLo' = (reg.lo + 1) % PageEntries
    BY <1>4 DEF StorePtrLo
  <2>2. QueueLen' = QueueLen
    BY <1>1, <2>1 DEF RegInv, QueueLen, Ptr
  <2>3. Queued' = Queued
    BY <2>1, <2>2, QueuedStays
  <2>4. ptrLo' \in 0 .. PageEntries - 1
    BY <1>1, <2>1, Carry
  <2>5. Ptr' \in 0 .. Capacity
    <3>1. ptrHi * PageEntries + ptrLo' \in 0 .. Capacity - 1
      BY <1>1, <2>4, InsideTheQueue
    <3> QED
      BY <2>1, <3>1, PagesTimes DEF Ptr
  <2>6. QueueOK'
    BY <1>1, <2>1, <2>4, <2>5 DEF QueueOK
  <2>7. RegInv'
    BY <1>1, <1>2, <2>1 DEF RegInv
  <2>8. BitsInv' /\ PrefixInv' /\ OwedBytes'
    BY <1>1, <1>2, <2>1, <2>2, <2>3 DEF BitsInv, PrefixInv, OwedBytes, RegInv, Open
  <2> QED
    BY <1>2, <2>6, <2>7, <2>8 DEF StagingInv
<1>5. CASE StorePtrHi
  <2>1. /\ pc = "ptrHiWrite" /\ pc' = "run" /\ UNCHANGED <<ptrLo, cells>>
        /\ ptrHi' = reg.hi + (reg.lo + 1) \div PageEntries /\ reg' = NoReg
    BY <1>5 DEF StorePtrHi, NextHi
  <2>2. ptrLo = (reg.lo + 1) % PageEntries
    BY <1>1, <2>1 DEF RegInv
  <2>3. ptrHi' \in Nat /\ Ptr' = reg.hi * PageEntries + reg.lo + 1
    BY <1>1, <2>1, <2>2, Carry DEF Ptr
  <2>4. /\ QueueLen = reg.hi * PageEntries + reg.lo /\ QueueLen' = QueueLen + 1
        /\ QueueLen \in 0 .. Capacity - 1
    BY <1>1, <2>1, <2>3 DEF QueueLen
  <2>5. cells[QueueLen] = reg.addr
    BY <1>1, <2>1, <2>4 DEF RegInv
  <2>6. Queued' = Queued \cup {reg.addr}
    <3>1. Queued' = {cells[n] : n \in 0 .. QueueLen}
      BY <2>1, <2>4 DEF Queued, Entries
    <3>2. Queued = {cells[n] : n \in 0 .. QueueLen - 1}
      BY DEF Queued, Entries
    <3>3. 0 .. QueueLen = (0 .. QueueLen - 1) \cup {QueueLen}
      BY <2>4
    <3> QED
      BY <2>5, <3>1, <3>2, <3>3
  <2>7. NoReg \in [addr : Addrs \cup {NoAddr}, byte : SUBSET Addrs,
                  hi : 0 .. Pages - 1, lo : 0 .. PageEntries - 1]
    BY QueueAssumption DEF NoReg
  <2>8. QueueOK'
    <3>1. Capacity \in Nat
      BY <1>1, PagesTimes
    <3>2. Ptr' = QueueLen + 1
      BY <2>3, <2>4
    <3>3. Ptr' \in 0 .. Capacity
      BY <2>4, <3>1, <3>2
    <3> QED
      BY <1>1, <2>1, <2>3, <2>7, <3>3 DEF QueueOK
  <2>9. RegInv'
    BY <2>1 DEF RegInv
  <2>10. BitsInv' /\ OwedBytes'
    BY <1>1, <1>2, <2>1, <2>6 DEF BitsInv, OwedBytes
  <2>11. PrefixInv'
    <3>1. NoAddr \notin Queued'
      BY <1>1, <2>6, QueueAssumption DEF PrefixInv
    <3>2. snapQ.ptr \in Int
      BY <1>1, PagesTimes DEF QueueOK
    <3>3. Open
      BY <1>1, <2>1 DEF RegInv, Open
    <3> QED
      BY <1>1, <1>2, <2>4, <3>1, <3>2, <3>3 DEF PrefixInv
  <2> QED
    BY <1>2, <2>8, <2>9, <2>10, <2>11 DEF StagingInv
<1> QED
  BY <1>3, <1>4, <1>5

-----------------------------------------------------------------------------
(* The pacing protocol around the queue.                                   *)

StagingProviso == StagingWindows \subseteq ClosedWindows

(* It keeps the pacing cells, and at an interrupt the queue is whole.      *)
LEMMA PacingSteps ==
  ASSUME CellsOK, SnapshotInv, StagingProviso,
         OpenTransaction \/ SnapshotQueue \/ FlushLive \/ FlushSnapshot \/ Elsewhere
  PROVE  CellsOK' /\ SnapshotInv'
<1>1. Proviso
  BY NoStitchAssumption DEF StagingProviso, StagingWindows, Proviso
<1>2. (Write \/ Poll \/ Rti \/ Continue) \/ VBlank
  BY DEF OpenTransaction, SnapshotQueue, FlushLive, FlushSnapshot, Elsewhere,
     Write, Continue, VBlank
<1>3. CellsOK'
  BY <1>2, CellsNext DEF Next
<1>4. SnapshotInv'
  BY <1>1, <1>2, SnapshotMain, SnapshotVBlank
<1> QED
  BY <1>3, <1>4

(* A published frame: no NMI runs, or the waiting snapshot was published.  *)
LEMMA CommitSteps ==
  ASSUME StagingSafe, StagingProviso, VBlankCommit
  PROVE  /\ pc \notin StagingWindows /\ UNCHANGED <<pc, active>>
         /\ Paced => SnapHolds /\ Open
         /\ ~Paced => ~active /\ ~Open'
         /\ ~SnapHolds'
<1>1. CellsOK /\ VBlank /\ ~Shape /\ active \in BOOLEAN
  BY NoStitchAssumption DEF StagingSafe, VBlank, CellsOK, PollOK
<1>2. PICK s \in SplitAfterGrace : CommitWith(s)
  BY DEF VBlankCommit
<1>3. ~Running /\ ~unpublished' /\ ~snapValid'
  BY <1>2 DEF CommitWith
<1>4. pc \notin StagingWindows /\ UNCHANGED <<pc, active>>
  BY <1>1, VBlankPolls DEF StagingProviso
<1> QED
  BY <1>3, <1>4 DEF StagingWindows, Running, Paced, SnapHolds, Open

(* Actions that leave the queue alone: no transaction is opened or closed, *)
(* no snapshot gained or lost.                                             *)
LEMMA ElsewhereFrame ==
  ASSUME StagingSafe, Elsewhere
  PROVE  /\ UNCHANGED ntVars
         /\ SnapHolds' <=> SnapHolds
         /\ Open' <=> Open
         /\ \/ UNCHANGED <<pc, active>>
            \/ pc \notin StagingPCs /\ pc' \notin StagingPCs
<1> USE DEF Goto, SnapHolds, Open, StagingPCs, RtiPCs, SnapPCs
<1>1. SnapshotInv /\ CellsOK
  BY DEF StagingSafe, StagingInv
<1>2. UNCHANGED ntVars
  BY DEF Elsewhere
<1>3. CASE WriteCtrl \/ Poll \/ CheckArmed \/ Consume \/ Drop
  BY <1>2, <1>3 DEF WriteCtrl, Poll, CheckArmed, Consume, Drop, pace
<1>4. CASE Activate \/ EarlyStart
  BY <1>2, <1>4 DEF Activate, EarlyStart, poll, pace
<1>5. CASE Rti \/ MarkUnpublished \/ SpendCredit \/ Arm \/ SetPending
  BY <1>2, <1>5 DEF Rti, MarkUnpublished, SpendCredit, Arm, SetPending, pace
<1>6. CASE CleanLive \/ ValidateSnapshot
  BY <1>1, <1>2, <1>6 DEF CleanLive, ValidateSnapshot, poll, pace, SnapshotInv
<1>7. CASE ForgetUnpublished \/ SetEarly
  BY <1>1, <1>2, <1>7 DEF ForgetUnpublished, SetEarly, pace, SnapshotInv
<1>8. CASE VBlankSkip
  <2>1. PICK s \in SplitAfterGrace : SkipWith(s)
    BY <1>8 DEF VBlankSkip
  <2> QED
    BY <1>2, <2>1 DEF SkipWith, Tail
<1> QED
  BY <1>3, <1>4, <1>5, <1>6, <1>7, <1>8 DEF Elsewhere

LEMMA ElsewhereKeeps ==
  ASSUME StagingSafe, StagingProviso, Elsewhere
  PROVE  QueueOK' /\ StagingInv'
<1>1. /\ QueueOK /\ RegInv /\ BitsInv /\ PrefixInv /\ OwedBytes
      /\ SnapshotInv'
  BY PacingSteps DEF StagingSafe, StagingInv
<1>2. /\ UNCHANGED <<nt, vram, cells, ptrHi, ptrLo, overflow, stageUsed, seen, snapQ, reg, dropped>>
      /\ SnapHolds' <=> SnapHolds
      /\ Open' <=> Open
      /\ \/ UNCHANGED <<pc, active>>
         \/ pc \notin StagingPCs /\ pc' \notin StagingPCs
  BY ElsewhereFrame DEF ntVars, queue
<1>3. Ptr' = Ptr /\ QueueLen' = QueueLen
  BY <1>2 DEF Ptr, QueueLen, StagingPCs
<1>4. Queued' = Queued
  BY <1>2, <1>3, QueuedStays
<1>5. QueueOK'
  BY <1>1, <1>2, <1>3 DEF QueueOK
<1>6. RegInv'
  BY <1>1, <1>2 DEF RegInv, StagingPCs, PtrWindows
<1>7. BitsInv'
  BY <1>1, <1>2, <1>4 DEF BitsInv, StagingPCs, AfterBits, PtrWindows
<1>8. PrefixInv' /\ OwedBytes'
  BY <1>1, <1>2, <1>3, <1>4 DEF PrefixInv, OwedBytes
<1> QED
  BY <1>1, <1>5, <1>6, <1>7, <1>8 DEF StagingInv

(* A reset pointer.                                                        *)
LEMMA EmptyPointer ==
  ASSUME ptrHi' = 0, ptrLo' = 0, pc' # "ptrHiWrite"
  PROVE  /\ Ptr' = 0 /\ QueueLen' = 0 /\ Queued' = {}
         /\ ptrHi' \in Nat /\ ptrLo' \in 0 .. PageEntries - 1 /\ Ptr' \in 0 .. Capacity
<1>1. PageEntries \in Nat \ {0} /\ Pages \in Nat \ {0}
  BY QueueAssumption
<1>2. 0 * PageEntries = 0
  BY <1>1
<1>3. Capacity \in Nat
  BY <1>1, PagesTimes
<1>4. Ptr' = 0
  BY <1>2 DEF Ptr
<1>5. QueueLen' = 0
  BY <1>4 DEF QueueLen
<1>6. Queued' = {}
  BY <1>5 DEF Queued, Entries
<1> QED
  BY <1>1, <1>3, <1>4, <1>5, <1>6

(* A fresh transaction finds the queue of the last one published.          *)
LEMMA OpenKeeps ==
  ASSUME StagingSafe, StagingProviso, OpenTransaction
  PROVE  QueueOK' /\ StagingInv'
<1>1. /\ QueueOK /\ RegInv /\ BitsInv /\ PrefixInv /\ OwedBytes /\ SnapshotInv
      /\ SnapshotInv'
  BY PacingSteps DEF StagingSafe, StagingInv
<1>2. /\ pc = "start" /\ pc' = "run" /\ ~unpublished
      /\ ptrHi' = 0 /\ ptrLo' = 0 /\ overflow' = FALSE /\ stageUsed' = FALSE
      /\ seen' = (IF stageUsed THEN {} ELSE seen)
      /\ UNCHANGED <<nt, vram, cells, snapQ, reg, dropped, active, snapValid, unpublished>>
  BY DEF OpenTransaction, NormalStart, Goto, pace
<1>3. active /\ ~snapValid
  BY <1>1, <1>2 DEF SnapshotInv
<1>4. Ptr' = 0 /\ QueueLen' = 0 /\ Queued' = {}
  BY <1>2, EmptyPointer
<1>5. QueueLen = 0 /\ Queued = {}
  <2>1. ~Open
    BY <1>2 DEF Open
  <2> QED
    BY <1>1, <1>2, <2>1 DEF PrefixInv, QueueLen, Queued, Entries
<1>6. seen' = {}
  BY <1>1, <1>2 DEF BitsInv
<1>7. QueueOK'
  <2>1. ptrHi' \in Nat /\ ptrLo' \in 0 .. PageEntries - 1 /\ Ptr' \in 0 .. Capacity
    BY <1>2, EmptyPointer
  <2> QED
    BY <1>1, <1>2, <1>6, <2>1 DEF QueueOK
<1>8. RegInv' /\ BitsInv'
  BY <1>2, <1>6 DEF RegInv, BitsInv, StagingPCs, PtrWindows
<1>9. PrefixInv'
  BY <1>2, <1>3, <1>4 DEF PrefixInv, SnapHolds
<1>10. OwedBytes'
  BY <1>1, <1>2, <1>5 DEF OwedBytes, StagingPCs
<1> QED
  BY <1>1, <1>7, <1>8, <1>9, <1>10 DEF StagingInv

LEMMA SnapshotQueueKeeps ==
  ASSUME StagingSafe, StagingProviso, SnapshotQueue
  PROVE  QueueOK' /\ StagingInv'
<1>1. /\ QueueOK /\ RegInv /\ BitsInv /\ PrefixInv /\ OwedBytes /\ SnapshotInv
      /\ SnapshotInv'
  BY PacingSteps DEF StagingSafe, StagingInv
<1>2. /\ pc = "copy" /\ pc' = "clean"
      /\ snapQ' = [ptr |-> Ptr, overflow |-> overflow, stageUsed |-> stageUsed]
      /\ UNCHANGED <<nt, vram, cells, ptrHi, ptrLo, overflow, stageUsed, seen, reg, dropped,
                     active, unpublished>>
  BY DEF SnapshotQueue, CopySnapshot, Goto, poll
<1>3. Open /\ Open'
  BY <1>1, <1>2 DEF SnapshotInv, SnapPCs, Open
<1>4. Ptr' = Ptr /\ QueueLen = Ptr /\ QueueLen' = Ptr
  BY <1>2 DEF Ptr, QueueLen
<1>5. Queued' = Queued
  BY <1>2, <1>4, QueuedStays
<1>6. QueueOK'
  BY <1>1, <1>2, <1>4 DEF QueueOK
<1>7. RegInv' /\ BitsInv'
  BY <1>1, <1>2, <1>3, <1>5 DEF RegInv, BitsInv, StagingPCs, AfterBits, PtrWindows
<1>8. PrefixInv'
  <2>1. snapQ'.ptr = Ptr /\ Ptr \in Int
    BY <1>1, <1>2, PagesTimes DEF QueueOK
  <2> QED
    BY <1>1, <1>3, <1>4, <1>5, <2>1 DEF PrefixInv
<1>9. OwedBytes'
  BY <1>1, <1>2, <1>5 DEF OwedBytes, StagingPCs
<1> QED
  BY <1>1, <1>6, <1>7, <1>8, <1>9 DEF StagingInv

(* A flush shows what it takes off the queue.                              *)
LEMMA FlushShows ==
  ASSUME QueueOK, NEW n \in Nat, vram' = Flushed(n)
  PROVE  /\ vram' \in [Addrs -> Tiles]
         /\ \A a \in Addrs : nt[a] # vram'[a] => a \notin Entries(n) /\ nt[a] # vram[a]
  BY DEF QueueOK, Flushed

LEMMA FlushLiveKeeps ==
  ASSUME StagingSafe, StagingProviso, FlushLive
  PROVE  QueueOK' /\ StagingInv'
<1>1. /\ QueueOK /\ RegInv /\ BitsInv /\ PrefixInv /\ OwedBytes
      /\ SnapshotInv'
  BY PacingSteps DEF StagingSafe, StagingInv
<1>2. /\ pc \notin StagingWindows /\ UNCHANGED <<pc, active>>
      /\ ~active /\ ~Open' /\ ~SnapHolds'
  BY CommitSteps DEF FlushLive
<1>3. /\ vram' = Flushed(Ptr)
      /\ ptrHi' = 0 /\ ptrLo' = 0 /\ overflow' = FALSE
      /\ UNCHANGED <<nt, cells, stageUsed, seen, snapQ, reg, dropped>>
  BY DEF FlushLive
<1>4. Ptr \in Nat
  BY <1>1 DEF QueueOK
<1>5. QueueLen = Ptr /\ Queued = Entries(Ptr)
  BY <1>2 DEF QueueLen, Queued, StagingWindows, PtrWindows
<1>6. /\ Ptr' = 0 /\ QueueLen' = 0 /\ Queued' = {}
      /\ ptrHi' \in Nat /\ ptrLo' \in 0 .. PageEntries - 1 /\ Ptr' \in 0 .. Capacity
  BY <1>2, <1>3, EmptyPointer DEF StagingWindows, PtrWindows
<1>7. /\ vram' \in [Addrs -> Tiles]
      /\ \A a \in Addrs : nt[a] # vram'[a] => a \notin Queued /\ nt[a] # vram[a]
  BY <1>1, <1>3, <1>4, <1>5, FlushShows
<1>8. QueueOK'
  BY <1>1, <1>3, <1>6, <1>7 DEF QueueOK
<1>9. RegInv'
  BY <1>1, <1>2, <1>3 DEF RegInv, StagingPCs, PtrWindows
<1>10. BitsInv' /\ PrefixInv'
  BY <1>1, <1>2, <1>3, <1>6 DEF BitsInv, PrefixInv
<1>11. OwedBytes'
  BY <1>1, <1>2, <1>3, <1>7 DEF OwedBytes
<1> QED
  BY <1>1, <1>8, <1>9, <1>10, <1>11 DEF StagingInv

(* Retiring n entries: the rest moves down.                                *)
LEMMA RetireQueue ==
  ASSUME QueueOK, NEW n \in 1 .. Ptr, Retire(n), pc # "ptrHiWrite", pc' = pc
  PROVE  /\ ptrHi' \in Nat /\ ptrLo' \in 0 .. PageEntries - 1 /\ Ptr' \in 0 .. Capacity
         /\ cells' \in [0 .. Capacity - 1 -> Addrs \cup {NoAddr}]
         /\ Queued' \subseteq Queued /\ Queued \ Entries(n) \subseteq Queued'
<1>1. Ptr \in 0 .. Capacity /\ Capacity \in Nat /\ n \in Nat /\ n # 0
  BY PagesTimes DEF QueueOK
<1>2. Left(n) \in Nat /\ Left(n) = Ptr - n /\ Left(n) \in 0 .. Capacity
  BY <1>1 DEF Left
<1>3. /\ cells' = [i \in DOMAIN cells |-> IF i < Left(n) THEN cells[i + n] ELSE cells[i]]
      /\ ptrHi' = Left(n) \div PageEntries /\ ptrLo' = Left(n) % PageEntries
  BY <1>1 DEF Retire
<1>4. ptrHi' \in Nat /\ ptrLo' \in 0 .. PageEntries - 1 /\ Ptr' = Left(n)
  BY <1>2, <1>3, Division DEF Ptr
<1>5. QueueLen = Ptr /\ QueueLen' = Left(n)
  BY <1>4 DEF QueueLen
<1>6. cells \in [0 .. Capacity - 1 -> Addrs \cup {NoAddr}]
  BY DEF QueueOK
<1>7. cells' \in [0 .. Capacity - 1 -> Addrs \cup {NoAddr}]
  BY <1>1, <1>2, <1>3, <1>6
<1>8. \A i \in 0 .. Left(n) - 1 : cells'[i] = cells[i + n] /\ i + n \in 0 .. Ptr - 1
  BY <1>1, <1>2, <1>3, <1>6
<1>9. Queued' = {cells'[i] : i \in 0 .. Left(n) - 1}
  BY <1>5 DEF Queued, Entries
<1>10. Queued' \subseteq Queued
  BY <1>5, <1>8, <1>9 DEF Queued, Entries
<1>11. Queued \ Entries(n) \subseteq Queued'
  <2> SUFFICES ASSUME NEW a \in Queued, a \notin Entries(n) PROVE a \in Queued'
    OBVIOUS
  <2>1. PICK i \in 0 .. Ptr - 1 : a = cells[i]
    BY <1>5 DEF Queued, Entries
  <2>2. i \notin 0 .. n - 1
    BY <2>1 DEF Entries
  <2>3. i - n \in 0 .. Left(n) - 1 /\ (i - n) + n = i
    BY <1>1, <1>2, <2>1, <2>2
  <2>4. cells'[i - n] = a
    BY <1>8, <2>1, <2>3
  <2> QED
    BY <1>9, <2>3, <2>4
<1> QED
  BY <1>2, <1>4, <1>7, <1>10, <1>11

LEMMA FlushSnapshotKeeps ==
  ASSUME StagingSafe, StagingProviso, FlushSnapshot
  PROVE  QueueOK' /\ StagingInv'
<1>1. /\ QueueOK /\ RegInv /\ BitsInv /\ PrefixInv /\ OwedBytes
      /\ SnapshotInv'
  BY PacingSteps DEF StagingSafe, StagingInv
<1>2. /\ pc \notin StagingWindows /\ UNCHANGED <<pc, active>>
      /\ Open /\ SnapHolds /\ ~SnapHolds' /\ active
  BY CommitSteps DEF FlushSnapshot, Paced
<1> DEFINE n == snapQ.ptr
<1>3. /\ vram' = Flushed(n)
      /\ snapQ' = [snapQ EXCEPT !.ptr = 0, !.overflow = FALSE]
      /\ Retire(n)
      /\ UNCHANGED <<nt, overflow, stageUsed, reg, dropped>>
  BY DEF FlushSnapshot
<1>4. QueueLen = Ptr /\ Queued = Entries(Ptr) /\ pc # "ptrHiWrite"
  BY <1>2 DEF QueueLen, Queued, StagingWindows, PtrWindows
<1>5. n \in Nat /\ n <= Ptr /\ Ptr \in Nat /\ Capacity \in Nat
  BY <1>1, <1>2, <1>4, PagesTimes DEF PrefixInv, QueueOK
<1>6. /\ vram' \in [Addrs -> Tiles]
      /\ \A a \in Addrs : nt[a] # vram'[a] => a \notin Entries(n) /\ nt[a] # vram[a]
  BY <1>1, <1>3, <1>5, FlushShows
<1> HIDE DEF n
<1>7. /\ ptrHi' \in Nat /\ ptrLo' \in 0 .. PageEntries - 1 /\ Ptr' \in 0 .. Capacity
      /\ cells' \in [0 .. Capacity - 1 -> Addrs \cup {NoAddr}]
      /\ Queued' \subseteq Queued /\ Queued \ Entries(n) \subseteq Queued'
      /\ seen' \subseteq seen
      /\ \A a \in seen' : a \notin Entries(n)
  <2>1. CASE n = 0
    <3>1. UNCHANGED <<cells, ptrHi, ptrLo, seen>> /\ Entries(n) = {}
      BY <1>3, <2>1 DEF Retire, Entries
    <3>2. Ptr' = Ptr /\ QueueLen' = QueueLen
      BY <1>2, <1>4, <3>1 DEF Ptr, QueueLen
    <3>3. Queued' = Queued
      BY <3>1, <3>2, QueuedStays
    <3> QED
      BY <1>1, <3>1, <3>2, <3>3 DEF QueueOK
  <2>2. CASE n # 0
    <3>1. n \in 1 .. Ptr
      BY <1>5, <2>2
    <3>2. seen' = seen \ Forgotten(n)
      BY <1>3, <2>2 DEF Retire
    <3>3. \A a \in seen : a \in Entries(n) => a \in Forgotten(n)
      BY <1>1, QueueAssumption DEF QueueOK, Forgotten, SameByte
    <3> QED
      BY <1>1, <1>2, <1>3, <1>4, <3>1, <3>2, <3>3, RetireQueue
  <2> QED
    BY <2>1, <2>2
<1>8. QueueOK'
  <2>1. 0 \in 0 .. Capacity /\ FALSE \in BOOLEAN
    BY <1>5
  <2>2. snapQ' \in [ptr : 0 .. Capacity, overflow : BOOLEAN, stageUsed : BOOLEAN]
    BY <1>1, <1>3, <2>1 DEF QueueOK
  <2>3. seen' \subseteq Addrs
    BY <1>1, <1>7 DEF QueueOK
  <2> QED
    BY <1>1, <1>3, <1>6, <1>7, <2>2, <2>3 DEF QueueOK
<1>9. RegInv'
  BY <1>1, <1>2, <1>3 DEF RegInv, StagingPCs, StagingWindows, PtrWindows
<1>10. BitsInv'
  BY <1>1, <1>2, <1>3, <1>7 DEF BitsInv
<1>11. PrefixInv'
  <2>1. Open'
    BY <1>2 DEF Open, StagingWindows
  <2> QED
    BY <1>1, <1>2, <1>7, <2>1 DEF PrefixInv
<1>12. OwedBytes'
  BY <1>1, <1>2, <1>3, <1>6, <1>7 DEF OwedBytes
<1> QED
  BY <1>1, <1>8, <1>9, <1>10, <1>11, <1>12 DEF StagingInv

-----------------------------------------------------------------------------
LEMMA StagingSafeInit == StagingInit => StagingSafe
<1> SUFFICES ASSUME StagingInit PROVE StagingSafe
  OBVIOUS
<1>1. Init /\ CellsOK
  BY CellsInit DEF StagingInit
<1>2. /\ pc = "run" /\ ~active /\ ~unpublished /\ ~snapValid
  BY <1>1 DEF Init
<1>3. SnapshotInv
  BY <1>1 DEF Init, SnapshotInv, Taking, Early, SnapPCs, RtiPCs
<1>4. PageEntries \in Nat \ {0} /\ Pages \in Nat \ {0} /\ Capacity \in Nat
  BY QueueAssumption, PagesTimes
<1>5. Ptr = 0 /\ QueueLen = 0 /\ Queued = {}
  <2>1. 0 * PageEntries = 0
    BY <1>4
  <2>2. Ptr = 0
    BY <2>1 DEF StagingInit, Ptr
  <2>3. QueueLen = 0
    BY <1>2, <2>2 DEF QueueLen
  <2> QED
    BY <2>2, <2>3 DEF Queued, Entries
<1>6. nt \in [Addrs -> Tiles] /\ vram = nt
  BY DEF StagingInit
<1>7. QueueOK
  <2>1. 0 \in 0 .. Capacity /\ 0 \in 0 .. PageEntries - 1 /\ 0 \in 0 .. Pages - 1
    BY <1>4
  <2>2. cells \in [0 .. Capacity - 1 -> Addrs \cup {NoAddr}]
    BY DEF StagingInit
  <2>3. snapQ \in [ptr : 0 .. Capacity, overflow : BOOLEAN, stageUsed : BOOLEAN]
    BY <2>1 DEF StagingInit
  <2>4. reg \in [addr : Addrs \cup {NoAddr}, byte : SUBSET Addrs,
                hi : 0 .. Pages - 1, lo : 0 .. PageEntries - 1]
    BY <2>1 DEF StagingInit, NoReg
  <2> QED
    BY <1>5, <1>6, <2>1, <2>2, <2>3, <2>4 DEF StagingInit, QueueOK
<1>8. RegInv /\ BitsInv
  BY <1>2 DEF StagingInit, RegInv, BitsInv, StagingPCs, PtrWindows
<1>9. PrefixInv /\ OwedBytes
  BY <1>2, <1>5, <1>6 DEF PrefixInv, SnapHolds, OwedBytes
<1> QED
  BY <1>1, <1>3, <1>7, <1>8, <1>9 DEF StagingSafe, StagingInv

LEMMA StagingSafeNext ==
  ASSUME StagingProviso, StagingSafe, [StagingNext]_stagingVars
  PROVE  StagingSafe'
<1>1. CellsOK /\ SnapshotInv
  BY DEF StagingSafe, StagingInv
<1>2. CASE BeforeEntry
  BY <1>1, <1>2, StagingSteps, BeforeEntryTypes, BeforeEntryInv
  DEF StagingSafe, BeforeEntry, Staging
<1>3. CASE StoreEntry \/ StorePtrLo \/ StorePtrHi
  BY <1>1, <1>3, StagingSteps, EntrySteps DEF StagingSafe, Staging
<1>4. CASE OpenTransaction \/ SnapshotQueue \/ FlushLive \/ FlushSnapshot \/ Elsewhere
  BY <1>1, <1>4, PacingSteps, OpenKeeps, SnapshotQueueKeeps, FlushLiveKeeps,
     FlushSnapshotKeeps, ElsewhereKeeps DEF StagingSafe
<1>5. CASE UNCHANGED stagingVars
  <2>1. UNCHANGED vars /\ UNCHANGED ntVars
    BY <1>5 DEF stagingVars
  <2>2. CellsOK'
    BY <1>1, <2>1, CellsNext
  <2>3. UNCHANGED <<pc, pending, credit, unpublished, active, idle, snapValid>>
    BY <2>1 DEF vars, poll, pace
  <2>4. SnapshotInv'
    BY <1>1, <2>3 DEF SnapshotInv, Taking, Early
  <2>5. UNCHANGED <<nt, vram, cells, ptrHi, ptrLo, overflow, stageUsed, seen, snapQ, reg, dropped>>
    BY <2>1 DEF ntVars, queue
  <2>6. UNCHANGED <<Ptr, QueueLen, Queued>>
    BY <2>3, <2>5 DEF Ptr, QueueLen, Queued, Entries
  <2>7. (Open' <=> Open) /\ (SnapHolds' <=> SnapHolds)
    BY <2>3 DEF Open, SnapHolds
  <2>8. QueueOK' /\ RegInv'
    BY <2>3, <2>5, <2>6 DEF StagingSafe, StagingInv, QueueOK, RegInv
  <2>9. BitsInv' /\ PrefixInv' /\ OwedBytes'
    BY <2>3, <2>5, <2>6, <2>7 DEF StagingSafe, StagingInv, BitsInv, PrefixInv, OwedBytes
  <2> QED
    BY <2>2, <2>4, <2>8, <2>9 DEF StagingSafe, StagingInv
<1> QED
  BY <1>2, <1>3, <1>4, <1>5 DEF StagingNext, Staging, BeforeEntry

LEMMA StagingPCsNext ==
  ASSUME StagingSafe, [StagingNext]_stagingVars, pc \in PCs \cup StagingPCs
  PROVE  pc' \in PCs \cup StagingPCs
<1>1. CellsOK /\ SnapshotInv
  BY DEF StagingSafe, StagingInv
<1>2. CASE WriteNametable \/ Staging
  BY <1>1, <1>2, StagingSteps DEF PCs
<1>3. CASE OpenTransaction \/ SnapshotQueue \/ FlushLive \/ FlushSnapshot \/ Elsewhere
  <2>1. Next
    BY <1>3 DEF OpenTransaction, SnapshotQueue, FlushLive, FlushSnapshot, Elsewhere,
       Next, Write, Continue, VBlank
  <2> QED
    BY <2>1, PCsNext
<1>4. CASE UNCHANGED stagingVars
  BY <1>4 DEF stagingVars, vars
<1> QED
  BY <1>2, <1>3, <1>4 DEF StagingNext

LEMMA StagingAlwaysSafe ==
  ASSUME StagingProviso
  PROVE  StagingSpec => []StagingSafe
<1>1. StagingSafe /\ [StagingNext]_stagingVars => StagingSafe'
  BY StagingSafeNext
<1> QED
  BY <1>1, StagingSafeInit, PTL DEF StagingSpec

(* The queue pointer stays within the queue, before its end at echo RAM    *)
(* (nes_ppu_stage_nametable_hl, nes_pace_retire_flushed_queue), for every  *)
(* number and size of its pages, whatever the two stores of the pointer    *)
(* and the VBlanks between its transactions do.                            *)
THEOREM StagingTypeCorrectness ==
  ASSUME StagingProviso
  PROVE  StagingSpec => []StagingTypeOK
<1> DEFINE PcOK == pc \in PCs \cup StagingPCs
<1>1. StagingInit => PcOK
  BY DEF StagingInit, Init, PCs
<1>2. StagingSafe /\ PcOK /\ [StagingNext]_stagingVars => PcOK'
  BY StagingPCsNext
<1>3. StagingSafe /\ PcOK => StagingTypeOK
  BY QueueAssumption DEF StagingSafe, CellsOK, QueueOK, StagingTypeOK, RegOK
<1> QED
  BY <1>1, <1>2, <1>3, StagingAlwaysSafe, PTL DEF StagingSpec

(* The duplicate bitmap, the counters of the queue and the retirement of a *)
(* flushed prefix together forget no nametable write but one that found    *)
(* the queue full, for all addresses, bitmap bytes and queue sizes.        *)
THEOREM NoWriteIsLost ==
  ASSUME StagingProviso
  PROVE  StagingSpec => []NoLostWrite
<1>1. StagingSafe => NoLostWrite
  BY DEF StagingSafe, StagingInv, OwedBytes, NoLostWrite, Queued, QueueLen
<1> QED
  BY <1>1, StagingAlwaysSafe, PTL

(* nes_pace_retire_flushed_queue is never asked to retire more entries     *)
(* than the live queue holds: its move loop, which stops at equality, ends.*)
THEOREM PrefixRetiresInOrder ==
  ASSUME StagingProviso
  PROVE  StagingSpec => []RetireInOrder
<1>1. StagingSafe => RetireInOrder
  BY DEF StagingSafe, StagingInv, PrefixInv, RetireInOrder, Paced, SnapHolds, QueueLen,
     StagingProviso, StagingWindows, PtrWindows
<1> QED
  BY <1>1, StagingAlwaysSafe, PTL

(* The VBlank handler flushes only entries the staging routine has stored, *)
(* although an entry and the pointer that counts it are stored apart.      *)
THEOREM FlushedEntriesWritten ==
  ASSUME StagingProviso
  PROVE  StagingSpec => []EntriesWritten
<1>1. StagingSafe => EntriesWritten
  BY DEF StagingSafe, StagingInv, PrefixInv, EntriesWritten, Queued, QueueLen,
     StagingProviso, StagingWindows, PtrWindows
<1> QED
  BY <1>1, StagingAlwaysSafe, PTL
=============================================================================
