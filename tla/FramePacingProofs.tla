------------------------- MODULE FramePacingProofs -------------------------
(***************************************************************************)
(* Proofs about FramePacing, for every value of its constants.             *)
(***************************************************************************)
EXTENDS FramePacing, TLAPS

(* TypeOK alone is not inductive: the step counter is bounded only because *)
(* a preparation in progress has not yet taken its last step.              *)
PrepConsistent ==
  /\ hvalid = 2 => Shape /\ ~hseen /\ steps \in 1 .. PrepSteps - 1
  /\ hvalid = 3 => Shape /\ ~hseen /\ steps = PrepSteps

(* What the cells hold.  Modules that compose the protocol with another    *)
(* component give pc more values, so pc is kept apart.                     *)
CellsOK == PollOK /\ PaceOK /\ PpuOK /\ PrepOK /\ ViewOK /\ PrepConsistent

(* The groups of variables keep their types when they do not change.       *)
LEMMA GroupsKept ==
  /\ PollOK /\ UNCHANGED poll => PollOK'
  /\ PaceOK /\ UNCHANGED pace => PaceOK'
  /\ PpuOK /\ UNCHANGED ppu => PpuOK'
  /\ PrepOK /\ PrepConsistent /\ UNCHANGED prep => PrepOK' /\ PrepConsistent'
  /\ ViewOK /\ UNCHANGED <<shown, done>> => ViewOK'
<1>1. PollOK /\ UNCHANGED poll => PollOK'
  BY DEF PollOK, poll
<1>2. PaceOK /\ UNCHANGED pace => PaceOK'
  BY DEF PaceOK, pace
<1>3. PpuOK /\ UNCHANGED ppu => PpuOK'
  BY DEF PpuOK, ppu
<1>4. PrepOK /\ PrepConsistent /\ UNCHANGED prep => PrepOK' /\ PrepConsistent'
  BY DEF PrepOK, PrepConsistent, prep
<1>5. ViewOK /\ UNCHANGED <<shown, done>> => ViewOK'
  BY DEF ViewOK
<1> QED
  BY <1>1, <1>2, <1>3, <1>4, <1>5

-----------------------------------------------------------------------------
(* The steps of the main thread.                                           *)

(* Those that only poll, start, or end an NMI.                             *)
LEMMA PollTypes ==
  ASSUME CellsOK,
         \/ Poll \/ CheckArmed \/ Consume \/ Activate \/ Drop \/ NormalStart
         \/ EarlyStart \/ ForgetUnpublished \/ MarkUnpublished \/ SpendCredit
         \/ Arm \/ SetPending \/ WriteCtrl
  PROVE  CellsOK'
<1> USE DEF Goto
<1>1. PollOK
  BY DEF CellsOK
<1>2. UNCHANGED <<pace, ppu, prep, shown, done>>
  BY DEF Poll, CheckArmed, Consume, Activate, Drop, NormalStart, EarlyStart,
     ForgetUnpublished, MarkUnpublished, SpendCredit, Arm, SetPending, WriteCtrl
<1>3. PollOK'
  <2>1. CASE Poll \/ CheckArmed \/ Consume
    BY <1>1, <2>1 DEF PollOK, Poll, CheckArmed, Consume
  <2>2. CASE Activate \/ Drop \/ NormalStart
    BY <1>1, <2>2 DEF PollOK, Activate, Drop, NormalStart
  <2>3. CASE EarlyStart
    BY <1>1, <2>3 DEF PollOK, EarlyStart, poll
  <2>4. CASE ForgetUnpublished \/ MarkUnpublished \/ SpendCredit
    BY <1>1, <2>4 DEF PollOK, ForgetUnpublished, MarkUnpublished, SpendCredit
  <2>5. CASE Arm \/ SetPending \/ WriteCtrl
    BY <1>1, <2>5 DEF PollOK, Arm, SetPending, WriteCtrl
  <2> QED
    BY <2>1, <2>2, <2>3, <2>4, <2>5
<1> QED
  BY <1>2, <1>3, GroupsKept DEF CellsOK

(* Those that take the snapshot.                                           *)
LEMMA SnapshotTypes ==
  ASSUME CellsOK, CopySnapshot \/ CleanLive \/ ValidateSnapshot \/ SetEarly
  PROVE  CellsOK'
<1> USE DEF Goto
<1>1. PollOK /\ PaceOK /\ PpuOK /\ PrepOK /\ ViewOK /\ PrepConsistent
  BY DEF CellsOK
<1>2. UNCHANGED <<prep, shown, done>>
  BY DEF CopySnapshot, CleanLive, ValidateSnapshot, SetEarly, ppu
<1>3. PollOK'
  <2>1. CASE CopySnapshot \/ CleanLive \/ ValidateSnapshot
    BY <1>1, <2>1, GroupsKept DEF CopySnapshot, CleanLive, ValidateSnapshot
  <2>2. CASE SetEarly
    BY <1>1, <2>2 DEF SetEarly, PollOK
  <2> QED
    BY <2>1, <2>2
<1>4. PaceOK'
  BY <1>1 DEF PaceOK, pace, PpuOK, PrepOK, CopySnapshot, CleanLive, ValidateSnapshot,
     SetEarly
<1>5. PpuOK'
  BY <1>1 DEF PpuOK, ppu, CopySnapshot, CleanLive, ValidateSnapshot, SetEarly
<1> QED
  BY <1>1, <1>2, <1>3, <1>4, <1>5, GroupsKept DEF CellsOK

(* Those that write a register, or end the frame.                          *)
LEMMA WriteTypes ==
  ASSUME CellsOK,
         \/ WriteDeferred \/ FlagDeferred \/ WriteMask \/ DecideMask \/ PublishMask
         \/ DeferMask \/ FirstHiddenChange \/ WriteScroll \/ Rti
  PROVE  CellsOK'
<1> USE DEF Goto
<1>1. /\ PollOK /\ PaceOK /\ PpuOK /\ PrepOK /\ ViewOK /\ PrepConsistent
      /\ "mask" \in Chans /\ Deferred \subseteq Chans
  BY DEF CellsOK, Chans
<1>2. PollOK'
  <2>1. CASE Rti
    BY <1>1, <2>1 DEF PollOK, Rti
  <2>2. CASE UNCHANGED poll
    BY <1>1, <2>2, GroupsKept
  <2> QED
    BY <2>1, <2>2 DEF WriteDeferred, FlagDeferred, WriteMask, DecideMask, PublishMask,
       DeferMask, FirstHiddenChange, WriteScroll
<1>3. PaceOK'
  <2>1. CASE DeferMask
    BY <1>1, <2>1 DEF PaceOK, DeferMask
  <2>2. CASE UNCHANGED pace
    BY <1>1, <2>2, GroupsKept
  <2> QED
    BY <2>1, <2>2 DEF WriteDeferred, FlagDeferred, WriteMask, DecideMask, PublishMask,
       FirstHiddenChange, WriteScroll, Rti
<1>4. PpuOK'
  <2>1. CASE WriteDeferred
    BY <1>1, <2>1 DEF PpuOK, WriteDeferred
  <2>2. CASE FlagDeferred \/ DecideMask
    BY <1>1, <2>2 DEF PpuOK, FlagDeferred, DecideMask
  <2>3. CASE WriteMask
    BY <1>1, <2>3 DEF PpuOK, WriteMask
  <2>4. CASE WriteScroll
    BY <1>1, <2>4 DEF PpuOK, WriteScroll
  <2>5. CASE UNCHANGED ppu
    BY <1>1, <2>5, GroupsKept
  <2> QED
    BY <2>1, <2>2, <2>3, <2>4, <2>5 DEF PublishMask, DeferMask, FirstHiddenChange, Rti
<1>5. PrepOK' /\ PrepConsistent'
  <2>1. CASE WriteScroll
    BY <1>1, <2>1 DEF PrepOK, PrepConsistent, WriteScroll
  <2>2. CASE UNCHANGED prep
    BY <1>1, <2>2, GroupsKept
  <2> QED
    BY <2>1, <2>2 DEF WriteDeferred, FlagDeferred, WriteMask, DecideMask, PublishMask,
       DeferMask, FirstHiddenChange, Rti
<1>6. ViewOK'
  <2>1. CASE FlagDeferred
    BY <1>1, <2>1 DEF ViewOK, PpuOK, FlagDeferred
  <2>2. CASE PublishMask \/ FirstHiddenChange
    BY <1>1, <2>2 DEF ViewOK, PpuOK, PublishMask, FirstHiddenChange
  <2>3. CASE Rti
    BY <1>1, <2>3 DEF ViewOK, PpuOK, Rti
  <2>4. CASE UNCHANGED <<shown, done>>
    BY <1>1, <2>4, GroupsKept
  <2> QED
    BY <2>1, <2>2, <2>3, <2>4 DEF WriteDeferred, WriteMask, DecideMask, DeferMask, WriteScroll
<1> QED
  BY <1>2, <1>3, <1>4, <1>5, <1>6 DEF CellsOK

-----------------------------------------------------------------------------
(* The VBlank handler.                                                     *)

(* The grace of a retired split, and its store, keep the flags Boolean.    *)
LEMMA SplitTypes ==
  ASSUME CellsOK
  PROVE  /\ SplitAfterGrace \subseteq BOOLEAN
         /\ \A s \in BOOLEAN : StoreSplit(s) => split' \in BOOLEAN /\ snapSplit' \in BOOLEAN
<1>1. split \in BOOLEAN /\ snapSplit \in BOOLEAN
  BY DEF CellsOK, PrepOK, PaceOK
<1>2. SplitAfterGrace \subseteq BOOLEAN
  BY <1>1 DEF SplitAfterGrace
<1>3. \A s \in BOOLEAN : StoreSplit(s) => split' \in BOOLEAN /\ snapSplit' \in BOOLEAN
  BY <1>1 DEF StoreSplit
<1> QED
  BY <1>2, <1>3

(* The frame the handler would publish.                                    *)
LEMMA FrameTypes ==
  ASSUME CellsOK
  PROVE  /\ FrameDirty \subseteq Chans
         /\ [c \in Chans |-> IF c \in FrameDirty THEN FrameData[c] ELSE shown[c]]
              \in [Chans -> Values]
<1>1. /\ live \in [Chans -> Values] /\ snap \in [Chans -> Values]
      /\ shown \in [Chans -> Values]
      /\ dirty \subseteq Chans /\ snapDirty \subseteq Chans
  BY DEF CellsOK, PpuOK, PaceOK, ViewOK
<1>2. FrameDirty \subseteq Chans
  BY <1>1 DEF FrameDirty
<1>3. FrameData \in [Chans -> Values]
  BY <1>1 DEF FrameData
<1> QED
  BY <1>1, <1>2, <1>3

(* What the end of the handler leaves in the cells it owns; the caller     *)
(* accounts for the others.                                                *)
LEMMA TailTypes ==
  ASSUME CellsOK, NEW frame \in [Chans -> Values], NEW event \in BOOLEAN,
         Tail(frame, event),
         unpublished' \in BOOLEAN, snapValid' \in BOOLEAN, snapSplit' \in BOOLEAN,
         dirty' \subseteq Chans, snapDirty' \subseteq Chans
  PROVE  PollOK' /\ PaceOK' /\ PpuOK' /\ ViewOK'
<1>1. /\ PollOK /\ PaceOK /\ PpuOK /\ ViewOK /\ "mask" \in Chans
  BY DEF CellsOK, Chans
<1>2. PollOK'
  BY <1>1 DEF PollOK, Tail
<1>3. PaceOK'
  BY <1>1 DEF PaceOK, Tail
<1>4. PpuOK'
  BY <1>1 DEF PpuOK, Tail
<1>5. [frame EXCEPT !["mask"] = live["mask"]] \in [Chans -> Values]
  BY <1>1 DEF PpuOK
<1>6. ViewOK'
  BY <1>1, <1>5 DEF ViewOK, Tail, MaskApplied
<1> QED
  BY <1>1, <1>2, <1>3, <1>4, <1>6 DEF Tail

(* What a preparation that lets the host frame pass has left in its cells. *)
LEMMA PassTypes ==
  ASSUME CellsOK, NEW s \in BOOLEAN, PrepPasses(s)
  PROVE  /\ steps' \in 0..PrepSteps
         /\ hvalid = 2 => ~s
         /\ hvalid = 3 /\ s => ~Running
         /\ ~s => PassedValid(s) \in {0, 1}
         /\ s /\ Running => PassedValid(s) = hvalid /\ hvalid \in {0, 1}
<1>1. steps \in 0..PrepSteps /\ hvalid \in 0..3 /\ PrepSteps \in Nat \ {0}
  BY ConstantsAssumption DEF CellsOK, PrepOK
<1>2. steps' \in 0..PrepSteps
  BY <1>1 DEF PrepPasses
<1>3. hvalid \in {2, 3} => Shape /\ ~hseen
  BY DEF CellsOK, PrepConsistent
<1>4. hvalid = 2 => ~s
  BY <1>3 DEF PrepPasses
<1>5. hvalid = 3 /\ s => ~Running
  BY <1>3 DEF PrepPasses, HandOverWaits
<1>6. ~s => PassedValid(s) \in {0, 1}
  BY <1>1, <1>3 DEF PassedValid
<1>7. s /\ Running => PassedValid(s) = hvalid /\ hvalid \in {0, 1}
  BY <1>1, <1>4, <1>5 DEF PassedValid
<1> QED
  BY <1>2, <1>4, <1>5, <1>6, <1>7

(* ... and one that withholds it.                                          *)
LEMMA HoldTypes ==
  ASSUME CellsOK, NEW s \in BOOLEAN, PrepHolds(s)
  PROVE  /\ Shape /\ ~hseen
         /\ steps' \in 0..PrepSteps
         /\ hvalid' \in {2, 3}
         /\ hvalid' = 2 => steps' \in 1 .. PrepSteps - 1
         /\ hvalid' = 3 => steps' = PrepSteps
<1>1. /\ steps \in 0..PrepSteps /\ hvalid \in 0..3 /\ PrepSteps \in Nat \ {0}
      /\ hvalid = 2 => steps \in 1 .. PrepSteps - 1
      /\ hvalid = 3 => steps = PrepSteps
  BY ConstantsAssumption DEF CellsOK, PrepOK, PrepConsistent
<1>2. Shape /\ ~hseen
  BY DEF PrepHolds
<1>3. CASE hvalid = 3 /\ Running /\ UNCHANGED <<hvalid, steps>>
  BY <1>1, <1>2, <1>3
<1>4. CASE /\ hvalid \in {0, 2}
           /\ steps' = 1 + (IF hvalid = 0 THEN 0 ELSE steps)
           /\ hvalid' = IF steps' = PrepSteps THEN 3 ELSE 2
  <2>1. steps' \in 1 .. PrepSteps
    BY <1>1, <1>4
  <2> QED
    BY <1>1, <1>2, <1>4, <2>1
<1> QED
  BY <1>3, <1>4 DEF PrepHolds, Complete, HandOverWaits

LEMMA CommitTypes ==
  ASSUME CellsOK, NEW s \in SplitAfterGrace, CommitWith(s)
  PROVE  CellsOK'
<1> DEFINE F == [c \in Chans |-> IF c \in FrameDirty THEN FrameData[c] ELSE shown[c]]
<1>1. s \in BOOLEAN /\ PaceOK /\ PpuOK /\ PrepOK
  BY SplitTypes DEF CellsOK
<1>2. F \in [Chans -> Values]
  BY FrameTypes
<1>3. Tail(F, TRUE) /\ StoreSplit(s) /\ PrepPasses(s)
  BY DEF CommitWith
<1>4. split' \in BOOLEAN /\ snapSplit' \in BOOLEAN
  BY <1>1, <1>3, SplitTypes
<1>5. steps' \in 0..PrepSteps
  BY <1>1, <1>3, PassTypes
<1>6. dirty' \subseteq Chans /\ snapDirty' \subseteq Chans
  BY <1>1 DEF CommitWith, PaceOK, PpuOK
<1>7. snapValid' \in BOOLEAN /\ unpublished' \in BOOLEAN
  BY DEF CommitWith
<1>8. hvalid' \in {0, 1} /\ hseen' \in BOOLEAN
  BY <1>1 DEF CommitWith, PrepOK
<1> HIDE DEF F
<1>9. PollOK' /\ PaceOK' /\ PpuOK' /\ ViewOK'
  BY <1>2, <1>3, <1>4, <1>6, <1>7, TailTypes
<1>10. PrepOK' /\ PrepConsistent'
  BY <1>4, <1>5, <1>8 DEF PrepOK, PrepConsistent
<1> QED
  BY <1>9, <1>10 DEF CellsOK

LEMMA SkipTypes ==
  ASSUME CellsOK, NEW s \in SplitAfterGrace, SkipWith(s)
  PROVE  CellsOK'
<1>1. s \in BOOLEAN /\ PollOK /\ PaceOK /\ PpuOK /\ PrepOK /\ shown \in [Chans -> Values]
  BY SplitTypes DEF CellsOK, ViewOK
<1>2. Tail(shown, FALSE) /\ StoreSplit(s) /\ PrepPasses(s) /\ Running
  BY DEF SkipWith
<1>3. split' \in BOOLEAN /\ snapSplit' \in BOOLEAN
  BY <1>1, <1>2, SplitTypes
<1>4. steps' \in 0..PrepSteps /\ PassedValid(s) \in {0, 1}
  BY <1>1, <1>2, PassTypes
<1>5. dirty' \subseteq Chans /\ snapDirty' \subseteq Chans
  BY <1>1 DEF SkipWith, PaceOK, PpuOK
<1>6. snapValid' \in BOOLEAN /\ unpublished' \in BOOLEAN
  BY <1>1 DEF SkipWith, PaceOK, PollOK
<1>7. hvalid' \in {0, 1} /\ hseen' \in BOOLEAN
  BY <1>1, <1>4 DEF SkipWith, PrepOK
<1>8. PollOK' /\ PaceOK' /\ PpuOK' /\ ViewOK'
  BY <1>1, <1>2, <1>3, <1>5, <1>6, TailTypes
<1>9. PrepOK' /\ PrepConsistent'
  BY <1>3, <1>4, <1>7 DEF PrepOK, PrepConsistent
<1> QED
  BY <1>8, <1>9 DEF CellsOK

LEMMA HoldKeepsTypes ==
  ASSUME CellsOK, NEW s \in SplitAfterGrace, HoldWith(s)
  PROVE  CellsOK'
<1>1. s \in BOOLEAN /\ PollOK /\ PaceOK /\ PpuOK /\ PrepOK /\ shown \in [Chans -> Values]
  BY SplitTypes DEF CellsOK, ViewOK
<1>2. Tail(shown, pending) /\ StoreSplit(s) /\ PrepHolds(s)
  BY DEF HoldWith
<1>3. split' \in BOOLEAN /\ snapSplit' \in BOOLEAN
  BY <1>1, <1>2, SplitTypes
<1>4. /\ Shape /\ ~hseen
      /\ steps' \in 0..PrepSteps
      /\ hvalid' \in {2, 3}
      /\ hvalid' = 2 => steps' \in 1 .. PrepSteps - 1
      /\ hvalid' = 3 => steps' = PrepSteps
  BY <1>1, <1>2, HoldTypes
<1>5. dirty' \subseteq Chans /\ snapDirty' \subseteq Chans
  BY <1>1, FrameTypes DEF HoldWith, HeldDirty, PaceOK, PpuOK
<1>6. snapValid' \in BOOLEAN /\ unpublished' \in BOOLEAN /\ pending \in BOOLEAN
  BY <1>1 DEF HoldWith, PaceOK, PollOK, Paced
<1>7. hseen' = hseen /\ hseen \in BOOLEAN
  BY <1>1 DEF HoldWith, PrepOK
<1>8. PollOK' /\ PaceOK' /\ PpuOK' /\ ViewOK'
  BY <1>1, <1>2, <1>3, <1>5, <1>6, TailTypes
<1>9. PrepOK' /\ PrepConsistent'
  BY <1>3, <1>4, <1>7 DEF PrepOK, PrepConsistent
<1> QED
  BY <1>8, <1>9 DEF CellsOK

-----------------------------------------------------------------------------
LEMMA CellsInit == Init => CellsOK
<1> SUFFICES ASSUME Init PROVE CellsOK
  OBVIOUS
<1>1. live \in [Chans -> Values] /\ snap = live /\ shown = live
  BY DEF Init
<1>2. done \in [Deferred -> Values]
  BY <1>1 DEF Init, Chans
<1>3. PollOK
  BY DEF Init, PollOK
<1>4. snap \in [Chans -> Values]
  BY <1>1
<1>5. snapDirty \subseteq Chans
  BY DEF Init
<1>6. PaceOK
  BY <1>4, <1>5 DEF Init, PaceOK
<1>7. PpuOK
  BY <1>1 DEF Init, PpuOK, Chans
<1>8. PrepOK /\ PrepConsistent
  <2>1. split = FALSE /\ hseen = FALSE /\ hvalid = 0 /\ steps = 0
    BY DEF Init
  <2>2. split \in BOOLEAN /\ hseen \in BOOLEAN
    BY <2>1
  <2>3. hvalid \in 0..3 /\ steps \in 0..PrepSteps
    BY <2>1, ConstantsAssumption
  <2> QED
    BY <2>1, <2>2, <2>3 DEF PrepOK, PrepConsistent
<1> QED
  BY <1>1, <1>2, <1>3, <1>6, <1>7, <1>8 DEF CellsOK, ViewOK

(* The steps of the protocol keep the types of the cells, whatever other   *)
(* values pc may have.                                                     *)
LEMMA CellsNext == CellsOK /\ [Next]_vars => CellsOK'
<1> SUFFICES ASSUME CellsOK, [Next]_vars
             PROVE  CellsOK'
  OBVIOUS
<1>1. CASE Write
  BY <1>1, WriteTypes, PollTypes DEF Write
<1>2. CASE Poll \/ Rti
  BY <1>2, WriteTypes, PollTypes
<1>3. CASE Continue
  BY <1>3, WriteTypes, PollTypes, SnapshotTypes DEF Continue
<1>4. CASE VBlank
  BY <1>4, CommitTypes, SkipTypes, HoldKeepsTypes
  DEF VBlank, VBlankCommit, VBlankSkip, VBlankHold
<1>5. CASE UNCHANGED vars
  BY <1>5, GroupsKept DEF CellsOK, vars
<1> QED
  BY <1>1, <1>2, <1>3, <1>4, <1>5 DEF Next

(* The main thread stays in its routines; the handler returns to it.       *)
LEMMA PCsNext == [Next]_vars => pc' \in PCs \/ pc' = pc
<1> SUFFICES ASSUME [Next]_vars
             PROVE  pc' \in PCs \/ pc' = pc
  OBVIOUS
<1> USE DEF Goto, PCs, PollPCs, SnapPCs, RtiPCs, MaskPCs
<1>1. CASE Write \/ Poll \/ Rti
  BY <1>1 DEF Write, WriteDeferred, WriteMask, WriteCtrl, WriteScroll, FirstHiddenChange,
     Poll, Rti
<1>2. CASE Continue
  BY <1>2 DEF Continue, FlagDeferred, DecideMask, PublishMask, DeferMask, CheckArmed,
     Consume, Activate, Drop, NormalStart, EarlyStart, CopySnapshot, CleanLive,
     ValidateSnapshot, ForgetUnpublished, SetEarly, MarkUnpublished, SpendCredit, Arm,
     SetPending
<1>3. CASE VBlank
  BY <1>3 DEF VBlank, VBlankCommit, VBlankSkip, VBlankHold, CommitWith, SkipWith, HoldWith,
     Tail
<1>4. CASE UNCHANGED vars
  BY <1>4 DEF vars
<1> QED
  BY <1>1, <1>2, <1>3, <1>4 DEF Next

(* Every variable keeps its type in every reachable state, for every set   *)
(* of channels, values and poll points, every length of the preparation    *)
(* and every choice of places where the interrupt may hit.                 *)
THEOREM TypeCorrectness == Spec => []TypeOK
<1>1. Init => pc \in PCs
  BY DEF Init, PCs
<1>2. pc \in PCs /\ [Next]_vars => (pc \in PCs)'
  BY PCsNext
<1>3. pc \in PCs /\ CellsOK => TypeOK
  BY DEF CellsOK, TypeOK
<1> QED
  BY <1>1, <1>2, <1>3, CellsInit, CellsNext, PTL DEF Spec

-----------------------------------------------------------------------------
(* A VBlank that passes the frame on puts the stitch live only when it was *)
(* absent or complete; one that does not publish never puts it live.       *)
LEMMA StitchStep == CellsOK /\ [Next]_vars =>
  [hvalid # 1 /\ hvalid' = 1 =>
     /\ hvalid # 2
     /\ hvalid = 3 => steps = PrepSteps
     /\ ~unpublished' /\ ~snapValid']_vars
<1> SUFFICES ASSUME CellsOK, Next, hvalid # 1, hvalid' = 1
             PROVE  /\ hvalid # 2
                    /\ hvalid = 3 => steps = PrepSteps
                    /\ ~unpublished' /\ ~snapValid'
  OBVIOUS
<1>1. PICK s \in SplitAfterGrace : CommitWith(s) \/ SkipWith(s) \/ HoldWith(s)
  BY DEF VBlank, VBlankCommit, VBlankSkip, VBlankHold, Next, Write, Poll, Rti, Continue,
     WriteDeferred, FlagDeferred, WriteMask, DecideMask, PublishMask, DeferMask,
     FirstHiddenChange, WriteScroll, CheckArmed, Consume, Activate, Drop, NormalStart,
     EarlyStart, ForgetUnpublished, MarkUnpublished, SpendCredit, Arm, SetPending,
     WriteCtrl, CopySnapshot, CleanLive, ValidateSnapshot, SetEarly, prep
<1>2. s \in BOOLEAN
  BY SplitTypes
<1>3. CASE CommitWith(s)
  <2>1. s /\ PrepPasses(s) /\ ~unpublished' /\ ~snapValid'
    BY <1>3 DEF CommitWith
  <2>2. hvalid # 2
    BY <1>2, <2>1, PassTypes
  <2>3. hvalid = 3 => steps = PrepSteps
    BY DEF CellsOK, PrepConsistent
  <2> QED
    BY <2>1, <2>2, <2>3
<1>4. CASE SkipWith(s)
  <2>1. Running /\ PrepPasses(s) /\ hvalid' = PassedValid(s)
    BY <1>4 DEF SkipWith
  <2>2. ~s
    BY <1>2, <2>1, PassTypes
  <2>3. PassedValid(s) = IF ~Shape \/ hseen \/ hvalid \notin {2, 3} THEN hvalid ELSE 0
    BY <2>2 DEF PassedValid
  <2> QED
    BY <2>1, <2>3
<1>5. CASE HoldWith(s)
  BY <1>2, <1>5, HoldTypes DEF HoldWith
<1> QED
  BY <1>1, <1>3, <1>4, <1>5

(* The hidden stitch is never presented half-built, and never without the  *)
(* frame it belongs to: whatever interrupts the NMI, however the split     *)
(* comes and goes, and however many VBlanks the preparation takes.         *)
THEOREM StitchIsAtomic == Spec => StitchGoesLiveComplete
  BY CellsInit, CellsNext, StitchStep, PTL DEF Spec, StitchGoesLiveComplete

-----------------------------------------------------------------------------
(* A step that leaves the frame unpublished while the preparation holds it *)
(* keeps every flag of it, in the cells or in a snapshot that stays valid. *)
LEMMA HeldStep ==
  ASSUME CellsOK, Next, hvalid' \in {2, 3}, pc' = pc
  PROVE  FrameDirty \subseteq dirty' \cup (IF snapValid' THEN snapDirty' ELSE {})
<1>1. CASE dirty \subseteq dirty' /\ UNCHANGED <<snapValid, snapDirty>>
  BY <1>1 DEF FrameDirty, Paced
<1>2. CASE Write \/ Poll \/ Rti \/ Continue
  <2>1. WriteCtrl \/ WriteScroll \/ FirstHiddenChange
    <3>1. CASE Write \/ Poll \/ Rti
      BY <3>1 DEF Goto, Write, WriteDeferred, WriteMask, Poll, Rti
    <3>2. CASE FlagDeferred \/ DecideMask \/ PublishMask \/ DeferMask
      BY <3>2 DEF Goto, FlagDeferred, DecideMask, PublishMask, DeferMask
    <3>3. CASE CheckArmed \/ Consume \/ Activate \/ Drop \/ NormalStart \/ EarlyStart
      BY <3>3 DEF Goto, CheckArmed, Consume, Activate, Drop, NormalStart, EarlyStart
    <3>4. CASE CopySnapshot \/ CleanLive \/ ValidateSnapshot \/ ForgetUnpublished \/ SetEarly
      BY <3>4 DEF Goto, CopySnapshot, CleanLive, ValidateSnapshot, ForgetUnpublished, SetEarly
    <3>5. CASE MarkUnpublished \/ SpendCredit \/ Arm \/ SetPending
      BY <3>5 DEF Goto, MarkUnpublished, SpendCredit, Arm, SetPending
    <3> QED
      BY <1>2, <3>1, <3>2, <3>3, <3>4, <3>5 DEF Continue
  <2>2. dirty \subseteq dirty' /\ UNCHANGED <<snapValid, snapDirty>>
    BY <2>1 DEF WriteCtrl, WriteScroll, FirstHiddenChange, pace, ppu
  <2> QED
    BY <1>1, <2>2
<1>3. CASE VBlank
  <2>1. PICK s \in SplitAfterGrace : CommitWith(s) \/ SkipWith(s) \/ HoldWith(s)
    BY <1>3 DEF VBlank, VBlankCommit, VBlankSkip, VBlankHold
  <2>2. s \in BOOLEAN
    BY SplitTypes
  <2>3. ~CommitWith(s)
    <3>1. CommitWith(s) => hvalid' = IF Vertical /\ s THEN 1 ELSE 0
      BY DEF CommitWith
    <3> QED
      BY <3>1
  <2>4. ~SkipWith(s)
    <3>1. SUFFICES ASSUME SkipWith(s) PROVE FALSE
      OBVIOUS
    <3>2. Running /\ PrepPasses(s) /\ hvalid' = PassedValid(s)
      BY <3>1 DEF SkipWith
    <3>3. PassedValid(s) \in {0, 1}
      BY <2>2, <3>2, PassTypes
    <3> QED
      BY <3>2, <3>3
  <2>5. dirty' = HeldDirty /\ snapValid' = Paced /\ snapDirty' = snapDirty
    BY <2>1, <2>3, <2>4 DEF HoldWith
  <2> QED
    BY <2>5 DEF HeldDirty, FrameDirty
<1> QED
  BY <1>2, <1>3 DEF Next

(* A host frame withheld by the hidden preparation costs the display       *)
(* nothing but time, with no window closed and for every cartridge: even   *)
(* when the held frame is the second one completed since the snapshot.     *)
THEOREM HeldFramesStayOwed == Spec => HeldFrameStaysOwed
<1>1. CellsOK /\ [Next]_vars =>
        [hvalid' \in {2, 3} /\ pc' = pc =>
           FrameDirty \subseteq dirty' \cup (IF snapValid' THEN snapDirty' ELSE {})]_vars
  BY HeldStep
<1> QED
  BY <1>1, CellsInit, CellsNext, PTL DEF Spec, HeldFrameStaysOwed

-----------------------------------------------------------------------------
(* Which windows matter: frame pacing loses no change, starts early only   *)
(* in the idle loop, and keeps an early NMI's mask and credit, provided    *)
(* the VBlank interrupt stays out of a few of the places where it may hit. *)
(* MCFramePacing's runs show that without such provisos the first two fail.*)

(* What every VBlank does to the polling state of a title without the      *)
(* hidden preparation: it publishes, or an NMI is running.                 *)
LEMMA VBlankPolls ==
  ASSUME CellsOK, ~Shape, VBlank
  PROVE  /\ pc \notin ClosedWindows
         /\ UNCHANGED <<pc, active, hl, idle, live, snap, writing>>
         /\ credit' = (credit \/ active)
         /\ armed' = FALSE
         /\ \/ /\ VBlankCommit
               /\ pending' = ~active /\ ~unpublished' /\ ~snapValid'
            \/ /\ Running /\ ~pending'
               /\ UNCHANGED <<unpublished, snapValid, dirty, snapDirty>>
               /\ \A c \in Deferred : shown'[c] = shown[c]
<1>1. active \in BOOLEAN /\ pending \in BOOLEAN /\ credit \in BOOLEAN
  BY DEF CellsOK, PollOK
<1>2. PICK s \in SplitAfterGrace : CommitWith(s) \/ SkipWith(s) \/ HoldWith(s)
  BY DEF VBlank, VBlankCommit, VBlankSkip, VBlankHold
<1>3. ~HoldWith(s)
  BY DEF HoldWith, PrepHolds
<1>4. CASE CommitWith(s)
  <2>1. VBlankCommit
    BY <1>4 DEF VBlankCommit
  <2> QED
    BY <1>1, <1>4, <2>1 DEF CommitWith, Tail
<1>5. CASE SkipWith(s)
  <2>1. Running /\ ~pending' /\ UNCHANGED <<unpublished, snapValid, dirty, snapDirty>>
    BY <1>1, <1>5 DEF SkipWith, Tail
  <2>2. shown \in [Chans -> Values] /\ "mask" \in Chans /\ "mask" \notin Deferred
        /\ Deferred \subseteq Chans
    BY ConstantsAssumption DEF CellsOK, ViewOK, Chans
  <2>3. shown' = IF maskDeferred THEN [shown EXCEPT !["mask"] = live["mask"]] ELSE shown
    BY <1>5 DEF SkipWith, Tail, MaskApplied
  <2>4. \A c \in Deferred : shown'[c] = shown[c]
    BY <2>2, <2>3
  <2> QED
    BY <1>1, <1>5, <2>1, <2>4 DEF SkipWith, Tail
<1> QED
  BY <1>2, <1>3, <1>4, <1>5

-----------------------------------------------------------------------------
(* Early starts and the idle loop.                                         *)

IdleInv ==
  /\ active \/ pc \in {"complete", "activate"} => ~pending
  /\ pc \in {"armed", "consume", "activate"} \cup RtiPCs => ~active
  /\ pc \in {"armed", "consume"} => pending
  /\ unpublished /\ pending /\ pc # "consume" => armed
  /\ unpublished /\ pc = "pend" => armed
  /\ unpublished /\ pc \in {"consume", "activate", "start"} => hl = idle
  /\ pc = "copy" => hl = idle

(* Of the main thread's steps only those of the poll, of the start and of  *)
(* the RTI concern the idle loop.                                          *)
LEMMA IdleMain ==
  ASSUME CellsOK, IdleInv, Write \/ Poll \/ Rti \/ Continue
  PROVE  IdleInv'
<1> USE DEF Goto
<1>1. PollOK
  BY DEF CellsOK
<1>2. CASE Poll \/ CheckArmed \/ Consume
  BY <1>1, <1>2 DEF PollOK, Poll, CheckArmed, AwaitsIdle, Consume, IdleInv, RtiPCs
<1>3. CASE Activate \/ Drop \/ EarlyStart
  BY <1>1, <1>3 DEF PollOK, Activate, Drop, EarlyStart, poll, IdleInv, RtiPCs
<1>4. CASE NormalStart
  BY <1>1, <1>4 DEF PollOK, NormalStart, IdleInv, RtiPCs
<1>5. CASE Rti \/ MarkUnpublished
  BY <1>1, <1>5 DEF PollOK, Rti, MarkUnpublished, IdleInv, RtiPCs
<1>6. CASE SpendCredit \/ Arm \/ SetPending
  BY <1>1, <1>6 DEF PollOK, SpendCredit, Arm, SetPending, IdleInv, RtiPCs
<1>7. CASE ForgetUnpublished \/ SetEarly
  BY <1>1, <1>7 DEF PollOK, ForgetUnpublished, SetEarly, IdleInv, RtiPCs
<1>8. CASE /\ UNCHANGED <<pending, armed, unpublished, active>>
           /\ {pc, pc'} \cap (PollPCs \cup RtiPCs) = {} /\ pc' # "copy"
  BY <1>8 DEF IdleInv, PollPCs, RtiPCs
<1>9. CASE Write
  <2>1. /\ UNCHANGED <<pending, armed, unpublished, active>>
        /\ {pc, pc'} \cap (PollPCs \cup RtiPCs) = {} /\ pc' # "copy"
    BY <1>9 DEF Write, WriteDeferred, WriteMask, WriteCtrl, WriteScroll,
       FirstHiddenChange, poll, PollPCs, RtiPCs
  <2> QED
    BY <1>8, <2>1
<1>10. CASE FlagDeferred \/ DecideMask \/ PublishMask \/ DeferMask
  <2>1. /\ UNCHANGED <<pending, armed, unpublished, active>>
        /\ {pc, pc'} \cap (PollPCs \cup RtiPCs) = {} /\ pc' # "copy"
    BY <1>10 DEF FlagDeferred, DecideMask, PublishMask, DeferMask, poll, PollPCs, RtiPCs
  <2> QED
    BY <1>8, <2>1
<1>11. CASE CopySnapshot \/ CleanLive \/ ValidateSnapshot
  <2>1. /\ UNCHANGED <<pending, armed, unpublished, active>>
        /\ {pc, pc'} \cap (PollPCs \cup RtiPCs) = {} /\ pc' # "copy"
    BY <1>11 DEF CopySnapshot, CleanLive, ValidateSnapshot, poll, PollPCs, RtiPCs
  <2> QED
    BY <1>8, <2>1
<1> QED
  BY <1>2, <1>3, <1>4, <1>5, <1>6, <1>7, <1>9, <1>10, <1>11 DEF Continue

LEMMA IdleVBlank ==
  ASSUME CellsOK, IdleInv, VBlank, ~Shape, {"complete", "activate"} \subseteq ClosedWindows
  PROVE  IdleInv'
<1>1. /\ PollOK
      /\ pc \notin {"complete", "activate"}
      /\ UNCHANGED <<pc, active, hl, idle>>
      /\ armed' = FALSE
      /\ \/ pending' = ~active /\ ~unpublished'
         \/ active /\ ~pending' /\ unpublished' = unpublished
  BY VBlankPolls DEF CellsOK, Running
<1> QED
  BY <1>1 DEF IdleInv, PollOK, RtiPCs

(* For a title without the hidden preparation, an NMI starts early only at *)
(* the idle PC, whatever the poll points and wherever else the interrupt   *)
(* hits, if it does not hit between RTI's two stores or between the poll's *)
(* consumption of the event and nmi_active.                                *)
THEOREM EarlyStartsAtIdle ==
  ASSUME ~Shape, {"complete", "activate"} \subseteq ClosedWindows
  PROVE  Spec => []EarlyStartAtIdle
<1>1. Init => IdleInv
  BY DEF Init, IdleInv, RtiPCs
<1>2. CellsOK /\ IdleInv /\ [Next]_vars => IdleInv'
  <2> SUFFICES ASSUME CellsOK, IdleInv, [Next]_vars
               PROVE  IdleInv'
    OBVIOUS
  <2>1. CASE UNCHANGED vars
    BY <2>1 DEF vars, poll, IdleInv
  <2> QED
    BY <2>1, IdleMain, IdleVBlank DEF Next
<1>3. IdleInv => EarlyStartAtIdle
  BY DEF IdleInv, EarlyStartAtIdle
<1> QED
  BY <1>1, <1>2, <1>3, CellsInit, CellsNext, PTL DEF Spec

-----------------------------------------------------------------------------
(* The snapshot and the changes it owns.                                   *)

Taking == pc \in {"copy", "clean", "valid"}

(* Where a start is certain to take, or has taken, the snapshot.           *)
Early == Taking \/ (pc = "start" /\ unpublished)

(* No right to another start is left while a snapshot is taken or waits,   *)
(* and none can turn up without a VBlank, which publishes the snapshot.    *)
SnapshotInv ==
  /\ pc \in {"start"} \cup SnapPCs => active
  /\ pc \in RtiPCs => ~active
  /\ pc = "start" \/ Taking => ~snapValid
  /\ snapValid \/ Early =>
       /\ ~pending
       /\ credit => idle = NoPC
       /\ pc \notin {"armed", "consume", "activate", "arm", "pend"}
  /\ unpublished /\ ~active /\ pc # "credit" => (credit => idle = NoPC)
  /\ unpublished /\ active => pc \in {"start", "published"} \/ Taking
  /\ unpublished /\ ~active /\ pc = "activate" => ~pending

SnapHolds == snapValid \/ pc \in {"clean", "valid"}

(* A change the snapshot answers for is in the snapshot, or was made again *)
(* after it.                                                               *)
OwedInv ==
  /\ NoLostChange
  /\ SnapHolds => \A c \in Deferred \cap snapDirty :
                    live[c] = snap[c] \/ c \in dirty \/ (pc = "flag" /\ writing = c)
  /\ pc = "clean" => snap = live /\ dirty \subseteq snapDirty

LossInv == SnapshotInv /\ OwedInv

-----------------------------------------------------------------------------
(* Steps outside the routines of the poll, the snapshot and the RTI do not *)
(* concern it.                                                             *)
LEMMA SnapshotStays ==
  ASSUME SnapshotInv,
         UNCHANGED <<pending, credit, unpublished, active, idle, snapValid>>,
         {pc, pc'} \cap (PollPCs \cup SnapPCs \cup RtiPCs) = {}
  PROVE  SnapshotInv'
  BY DEF SnapshotInv, PollPCs, SnapPCs, RtiPCs, Taking, Early

LEMMA SnapshotMain ==
  ASSUME CellsOK, SnapshotInv, Write \/ Poll \/ Rti \/ Continue
  PROVE  SnapshotInv'
<1> USE DEF Goto, Taking, Early, SnapPCs, RtiPCs
<1>1. PollOK /\ PaceOK /\ NoPC \notin SafePoints
  BY ConstantsAssumption DEF CellsOK
<1>2. CASE Poll
  BY <1>1, <1>2 DEF PollOK, PaceOK, Poll, pace, SnapshotInv
<1>3. CASE CheckArmed \/ Consume
  BY <1>1, <1>3 DEF PollOK, PaceOK, CheckArmed, Consume, pace, SnapshotInv
<1>4. CASE Activate
  BY <1>1, <1>4 DEF PollOK, PaceOK, Activate, pace, SnapshotInv
<1>5. CASE Drop
  BY <1>1, <1>5 DEF PollOK, PaceOK, Drop, pace, SnapshotInv
<1>6. CASE NormalStart
  BY <1>1, <1>6 DEF PollOK, PaceOK, NormalStart, pace, SnapshotInv
<1>7. CASE EarlyStart
  BY <1>1, <1>7 DEF PollOK, PaceOK, EarlyStart, poll, pace, SnapshotInv
<1>8. CASE CopySnapshot
  BY <1>1, <1>8 DEF PollOK, PaceOK, CopySnapshot, poll, SnapshotInv
<1>9. CASE CleanLive
  BY <1>1, <1>9 DEF PollOK, PaceOK, CleanLive, poll, pace, SnapshotInv
<1>10. CASE ValidateSnapshot
  BY <1>1, <1>10 DEF PollOK, PaceOK, ValidateSnapshot, poll, SnapshotInv
<1>11. CASE ForgetUnpublished \/ SetEarly
  BY <1>1, <1>11 DEF PollOK, PaceOK, ForgetUnpublished, SetEarly, pace, SnapshotInv
<1>12. CASE Rti
  BY <1>1, <1>12 DEF PollOK, PaceOK, Rti, pace, SnapshotInv
<1>13. CASE MarkUnpublished
  BY <1>1, <1>13 DEF PollOK, PaceOK, MarkUnpublished, pace, SnapshotInv
<1>14. CASE SpendCredit
  BY <1>1, <1>14 DEF PollOK, PaceOK, SpendCredit, pace, SnapshotInv
<1>15. CASE Arm \/ SetPending
  BY <1>1, <1>15 DEF PollOK, PaceOK, Arm, SetPending, pace, SnapshotInv
<1>16. CASE Write
  <2>1. /\ UNCHANGED <<pending, credit, unpublished, active, idle, snapValid>>
        /\ {pc, pc'} \cap (PollPCs \cup SnapPCs \cup RtiPCs) = {}
    BY <1>16 DEF Write, WriteDeferred, WriteMask, WriteCtrl, WriteScroll,
       FirstHiddenChange, poll, pace, PollPCs
  <2> QED
    BY <2>1, SnapshotStays
<1>17. CASE FlagDeferred \/ DecideMask \/ PublishMask \/ DeferMask
  <2>1. /\ UNCHANGED <<pending, credit, unpublished, active, idle, snapValid>>
        /\ {pc, pc'} \cap (PollPCs \cup SnapPCs \cup RtiPCs) = {}
    BY <1>17 DEF FlagDeferred, DecideMask, PublishMask, DeferMask, poll, pace, PollPCs
  <2> QED
    BY <2>1, SnapshotStays
<1> QED
  BY <1>2, <1>3, <1>4, <1>5, <1>6, <1>7, <1>8, <1>9, <1>10, <1>11, <1>12, <1>13,
     <1>14, <1>15, <1>16, <1>17 DEF Continue

Proviso == ~Shape /\ {"start", "copy", "clean", "valid"} \subseteq ClosedWindows

LEMMA SnapshotVBlank ==
  ASSUME CellsOK, SnapshotInv, VBlank, Proviso
  PROVE  SnapshotInv'
<1>1. /\ PollOK /\ PaceOK
      /\ pc \notin {"start", "copy", "clean", "valid"}
      /\ UNCHANGED <<pc, active, idle>>
      /\ credit' = (credit \/ active)
      /\ \/ ~unpublished' /\ ~snapValid'
         \/ /\ active /\ ~snapValid
            /\ UNCHANGED <<unpublished, snapValid>>
  BY VBlankPolls DEF CellsOK, Running, Proviso
<1> QED
  BY <1>1 DEF SnapshotInv, PollOK, PaceOK, SnapPCs, RtiPCs, Taking, Early

(* Register writes: the channel being written is not owed to the snapshot. *)
LEMMA OwedWrites ==
  ASSUME CellsOK, OwedInv,
         \/ WriteDeferred \/ FlagDeferred \/ WriteMask \/ DecideMask \/ PublishMask
         \/ DeferMask \/ FirstHiddenChange \/ WriteScroll
  PROVE  OwedInv'
<1> USE DEF Goto, SnapHolds, NoLostChange
<1>1. /\ live \in [Chans -> Values] /\ shown \in [Chans -> Values]
      /\ Deferred \subseteq Chans /\ "mask" \in Chans /\ "mask" \notin Deferred
  BY ConstantsAssumption DEF CellsOK, PpuOK, ViewOK, Chans
<1>2. CASE WriteDeferred
  BY <1>1, <1>2 DEF WriteDeferred, pace, OwedInv
<1>3. CASE FlagDeferred
  BY <1>1, <1>3 DEF FlagDeferred, pace, OwedInv
<1>4. CASE WriteMask
  BY <1>1, <1>4 DEF WriteMask, pace, OwedInv
<1>5. CASE DecideMask
  <2>1. /\ pc = "decide" /\ pc' \in {"run", "publish"}
        /\ UNCHANGED <<live, writing, pace, shown>>
        /\ \A c \in Deferred : c \in dirty => c \in dirty'
    BY <1>1, <1>5 DEF DecideMask
  <2> QED
    BY <2>1 DEF pace, OwedInv
<1>6. CASE PublishMask \/ FirstHiddenChange
  <2>1. /\ pc \in {"publish", "run"} /\ pc' \in {"run", "defer"}
        /\ UNCHANGED <<live, dirty, writing, pace>>
        /\ \A c \in Deferred : shown'[c] = shown[c]
    BY <1>1, <1>6 DEF PublishMask, FirstHiddenChange, ppu
  <2> QED
    BY <2>1 DEF pace, OwedInv
<1>7. CASE DeferMask
  BY <1>7 DEF DeferMask, ppu, OwedInv
<1>8. CASE WriteScroll
  BY <1>8 DEF WriteScroll, pace, OwedInv
<1> QED
  BY <1>2, <1>3, <1>4, <1>5, <1>6, <1>7, <1>8

(* The hand-over from the cells to the snapshot, which must not overwrite  *)
(* one that still waits.                                                   *)
LEMMA OwedSnapshot ==
  ASSUME CellsOK, SnapshotInv, OwedInv, CopySnapshot \/ CleanLive \/ ValidateSnapshot
  PROVE  OwedInv'
<1> USE DEF Goto, SnapHolds, NoLostChange
<1>1. CASE CopySnapshot
  <2>1. ~snapValid
    BY <1>1 DEF CopySnapshot, SnapshotInv, Taking
  <2>2. \A c \in Deferred : live[c] # shown[c] => c \in dirty
    BY <1>1, <2>1 DEF CopySnapshot, OwedInv
  <2>3. pc' = "clean" /\ snap' = live /\ snapDirty' = dirty /\ UNCHANGED <<live, dirty, shown>>
    BY <1>1 DEF CopySnapshot, ppu
  <2> QED
    BY <2>2, <2>3 DEF OwedInv
<1>2. CASE CleanLive
  BY <1>2 DEF CleanLive, pace, OwedInv
<1>3. CASE ValidateSnapshot
  BY <1>3 DEF ValidateSnapshot, ppu, OwedInv
<1> QED
  BY <1>1, <1>2, <1>3

LEMMA OwedMain ==
  ASSUME CellsOK, LossInv, Write \/ Poll \/ Rti \/ Continue
  PROVE  OwedInv'
<1>1. CASE /\ UNCHANGED <<live, shown, dirty, snapDirty, snap, snapValid>>
           /\ {pc, pc'} \cap {"flag", "clean", "valid"} = {}
  BY <1>1 DEF LossInv, OwedInv, NoLostChange, SnapHolds
<1>2. \/ WriteDeferred \/ FlagDeferred \/ WriteMask \/ DecideMask \/ PublishMask
      \/ DeferMask \/ FirstHiddenChange \/ WriteScroll
      \/ CopySnapshot \/ CleanLive \/ ValidateSnapshot
      \/ /\ UNCHANGED <<live, shown, dirty, snapDirty, snap, snapValid>>
         /\ {pc, pc'} \cap {"flag", "clean", "valid"} = {}
  BY DEF Write, Continue, Goto, ppu, pace, Poll, Rti, WriteCtrl, CheckArmed, Consume,
     Activate, Drop, NormalStart, EarlyStart, ForgetUnpublished, SetEarly,
     MarkUnpublished, SpendCredit, Arm, SetPending
<1> QED
  BY <1>1, <1>2, OwedWrites, OwedSnapshot DEF LossInv

(* A commit publishes every flag it clears: those of the snapshot with its *)
(* values, or those of the cells and of a superseded snapshot with the     *)
(* values in the cells.                                                    *)
LEMMA OwedVBlank ==
  ASSUME CellsOK, LossInv, VBlank, Proviso
  PROVE  OwedInv'
<1> USE DEF SnapHolds, NoLostChange
<1>1. /\ pc \notin {"clean", "valid"}
      /\ UNCHANGED <<pc, live, snap, writing>>
      /\ OwedInv /\ Deferred \subseteq Chans /\ "mask" \notin Deferred
      /\ shown \in [Chans -> Values]
  BY VBlankPolls, ConstantsAssumption
  DEF Proviso, LossInv, CellsOK, ViewOK, Chans
<1>2. CASE Running /\ UNCHANGED <<snapValid, dirty, snapDirty>>
           /\ \A c \in Deferred : shown'[c] = shown[c]
  BY <1>1, <1>2 DEF OwedInv
<1>3. CASE VBlankCommit /\ ~snapValid'
  <2>1. PICK s \in SplitAfterGrace : CommitWith(s)
    BY <1>3 DEF VBlankCommit
  <2> DEFINE F == [c \in Chans |-> IF c \in FrameDirty THEN FrameData[c] ELSE shown[c]]
  <2>2. shown' = IF maskDeferred THEN [F EXCEPT !["mask"] = live["mask"]] ELSE F
    BY <2>1 DEF CommitWith, Tail, MaskApplied
  <2>3. \A c \in Deferred :
          shown'[c] = IF c \in FrameDirty THEN FrameData[c] ELSE shown[c]
    BY <1>1, <2>2
  <2>4. CASE Paced
    <3>1. dirty' = dirty /\ FrameDirty = snapDirty /\ FrameData = snap /\ snapValid
      BY <2>1, <2>4 DEF CommitWith, FrameDirty, FrameData, Paced
    <3> QED
      BY <1>1, <1>3, <2>3, <3>1 DEF OwedInv
  <2>5. CASE ~Paced
    <3>1. /\ FrameDirty = IF snapValid THEN dirty \cup snapDirty ELSE dirty
          /\ FrameData = live
      BY <2>5 DEF FrameDirty, FrameData
    <3> QED
      BY <1>1, <1>3, <2>3, <3>1 DEF OwedInv
  <2> QED
    BY <2>4, <2>5
<1> QED
  BY <1>2, <1>3, VBlankPolls DEF Proviso

LEMMA LossInit == Init => LossInv
<1> SUFFICES ASSUME Init PROVE LossInv
  OBVIOUS
<1>1. SnapshotInv
  BY DEF Init, SnapshotInv, Taking, Early, SnapPCs, RtiPCs
<1>2. live = shown /\ pc = "run" /\ ~snapValid
  BY DEF Init
<1> QED
  BY <1>1, <1>2 DEF LossInv, OwedInv, NoLostChange, SnapHolds

LEMMA LossNext ==
  ASSUME Proviso, CellsOK, LossInv, [Next]_vars
  PROVE  LossInv'
<1>1. CASE Write \/ Poll \/ Rti \/ Continue
  BY <1>1, SnapshotMain, OwedMain DEF LossInv
<1>2. CASE VBlank
  BY <1>2, SnapshotVBlank, OwedVBlank DEF LossInv
<1>3. CASE UNCHANGED vars
  BY <1>3 DEF vars, poll, pace, ppu, LossInv, SnapshotInv, Taking, Early,
     OwedInv, NoLostChange, SnapHolds
<1> QED
  BY <1>1, <1>2, <1>3 DEF Next

(* No hand-over between the cells and the snapshot ever drops a change,    *)
(* for a title without the hidden preparation, however writes, polls, NMIs *)
(* and VBlanks interleave, if no VBlank hits between nmi_active = 1 and    *)
(* snap_valid = 1 of a start.                                              *)
THEOREM NoChangeIsLost ==
  ASSUME Proviso
  PROVE  Spec => []NoLostChange
<1>1. CellsOK /\ LossInv /\ [Next]_vars => LossInv'
  BY LossNext
<1>2. LossInv => NoLostChange
  BY DEF LossInv, OwedInv
<1> QED
  BY <1>1, <1>2, LossInit, CellsInit, CellsNext, PTL DEF Spec

-----------------------------------------------------------------------------
(* The life of a snapshot: the credit and the deferred mask of an early    *)
(* NMI.  Both rest on a snapshot waiting exactly as long as                *)
(* nes_pace_early is set, which the VBlank handler clears in one go.       *)
Validated == {"published", "early"}

(* A snapshot waits, or is declared valid, only for an early NMI.          *)
WaitsForEarly == snapValid => early \/ pc \in Validated

(* Conversely an early NMI that no VBlank has met has its snapshot.        *)
EarlyHasSnapshot == early \/ pc \in Validated => snapValid

(* A mask flagged in the snapshot is in it, or is on one of its three ways *)
(* out again.                                                              *)
MaskOwed ==
  /\ NoLostMask
  /\ SnapHolds /\ "mask" \in snapDirty =>
       \/ live["mask"] = snap["mask"]
       \/ "mask" \in dirty
       \/ maskDeferred
       \/ pc \in MaskPCs
  /\ pc = "clean" => snap = live /\ dirty \subseteq snapDirty

MaskInv == SnapshotInv /\ WaitsForEarly /\ MaskOwed
CreditInv == SnapshotInv /\ EarlyHasSnapshot

-----------------------------------------------------------------------------
(* What a VBlank leaves of a snapshot's flags.                             *)
LEMMA VBlankEnds ==
  ASSUME CellsOK, ~Shape, VBlank
  PROVE  /\ early' = FALSE
         /\ ~snapValid'
<1>1. PICK s \in SplitAfterGrace : CommitWith(s) \/ SkipWith(s) \/ HoldWith(s)
  BY DEF VBlank, VBlankCommit, VBlankSkip, VBlankHold
<1>2. early' = FALSE
  BY <1>1 DEF CommitWith, SkipWith, HoldWith, Tail
<1> QED
  BY <1>2, VBlankPolls DEF Running

(* The main thread's steps and the two flags of a snapshot.                *)
LEMMA FlagsMain ==
  ASSUME CellsOK, Write \/ Poll \/ Rti \/ Continue
  PROVE  /\ WaitsForEarly => WaitsForEarly'
         /\ EarlyHasSnapshot => EarlyHasSnapshot'
<1> USE DEF Goto, Validated, WaitsForEarly, EarlyHasSnapshot
<1>1. CASE ValidateSnapshot \/ ForgetUnpublished \/ SetEarly
  BY <1>1 DEF ValidateSnapshot, ForgetUnpublished, SetEarly, pace
<1>2. CASE UNCHANGED <<snapValid, early>> /\ {pc, pc'} \cap Validated = {}
  BY <1>2
<1>3. CASE Write \/ Poll \/ Rti
  BY <1>3, <1>2 DEF Write, WriteDeferred, WriteMask, WriteCtrl, WriteScroll,
     FirstHiddenChange, Poll, Rti, pace
<1>4. CASE FlagDeferred \/ DecideMask \/ PublishMask \/ DeferMask
  BY <1>4, <1>2 DEF FlagDeferred, DecideMask, PublishMask, DeferMask, pace
<1>5. CASE CheckArmed \/ Consume \/ Activate \/ Drop \/ NormalStart \/ EarlyStart
  BY <1>5, <1>2 DEF CheckArmed, Consume, Activate, Drop, NormalStart, EarlyStart, pace
<1>6. CASE CopySnapshot \/ CleanLive \/ MarkUnpublished \/ SpendCredit \/ Arm \/ SetPending
  BY <1>6, <1>2 DEF CopySnapshot, CleanLive, MarkUnpublished, SpendCredit, Arm, SetPending, pace
<1> QED
  BY <1>1, <1>3, <1>4, <1>5, <1>6 DEF Continue

-----------------------------------------------------------------------------
(* While an NMI that started early runs and no VBlank has come since, no   *)
(* usable credit is left (io.asm): for a title without the hidden          *)
(* preparation, if no VBlank hits from the start to nes_pace_early = 1.    *)
THEOREM EarlyNMIsHaveNoCredit ==
  ASSUME Proviso, Validated \subseteq ClosedWindows
  PROVE  Spec => []EarlyHasNoCredit
<1>1. Init => CreditInv
  BY DEF Init, CreditInv, SnapshotInv, EarlyHasSnapshot, Validated, Taking, Early, SnapPCs, RtiPCs
<1>2. CellsOK /\ CreditInv /\ [Next]_vars => CreditInv'
  <2> SUFFICES ASSUME CellsOK, CreditInv, [Next]_vars
               PROVE  CreditInv'
    OBVIOUS
  <2>1. CASE Write \/ Poll \/ Rti \/ Continue
    BY <2>1, SnapshotMain, FlagsMain DEF CreditInv
  <2>2. CASE VBlank
    <3>1. SnapshotInv'
      BY <2>2, SnapshotVBlank DEF CreditInv
    <3>2. pc' \notin Validated /\ early' = FALSE
      BY <2>2, VBlankPolls, VBlankEnds DEF Proviso
    <3> QED
      BY <3>1, <3>2 DEF CreditInv, EarlyHasSnapshot
  <2>3. CASE UNCHANGED vars
    BY <2>3 DEF vars, poll, pace, CreditInv, SnapshotInv, Taking, Early, EarlyHasSnapshot
  <2> QED
    BY <2>1, <2>2, <2>3 DEF Next
<1>3. CreditInv => EarlyHasNoCredit
  BY DEF CreditInv, SnapshotInv, EarlyHasSnapshot, EarlyHasNoCredit
<1> QED
  BY <1>1, <1>2, <1>3, CellsInit, CellsNext, PTL DEF Spec

-----------------------------------------------------------------------------
(* The steps that touch the mask, its flags or the snapshot.               *)
LEMMA MaskMain ==
  ASSUME CellsOK, MaskInv, Write \/ Poll \/ Rti \/ Continue
  PROVE  MaskOwed'
<1> USE DEF Goto, SnapHolds, NoLostMask, MaskPCs
<1>1. /\ live \in [Chans -> Values] /\ shown \in [Chans -> Values]
      /\ snapValid \in BOOLEAN /\ early \in BOOLEAN /\ maskDeferred \in BOOLEAN
      /\ "mask" \in Chans /\ "mask" \notin Deferred /\ MaskOwed
  BY ConstantsAssumption DEF CellsOK, PpuOK, PaceOK, ViewOK, Chans, MaskInv
<1>2. CASE WriteDeferred
  BY <1>1, <1>2 DEF WriteDeferred, pace, MaskOwed
<1>3. CASE FlagDeferred \/ WriteScroll
  BY <1>1, <1>3 DEF FlagDeferred, WriteScroll, pace, MaskOwed
<1>4. CASE WriteMask
  BY <1>1, <1>4 DEF WriteMask, pace, MaskOwed
<1>5. CASE DecideMask
  BY <1>1, <1>5 DEF DecideMask, pace, MaskOwed
<1>6. CASE PublishMask
  <2>1. snapValid => early
    BY <1>6 DEF MaskInv, WaitsForEarly, Validated, PublishMask
  <2>2. CASE early
    BY <1>1, <1>6, <2>2 DEF PublishMask, pace, ppu, MaskOwed
  <2>3. CASE ~early
    BY <1>1, <1>6, <2>1, <2>3 DEF PublishMask, pace, ppu, MaskOwed
  <2> QED
    BY <1>1, <2>2, <2>3
<1>7. CASE DeferMask
  BY <1>1, <1>7 DEF DeferMask, ppu, MaskOwed
<1>8. CASE FirstHiddenChange
  BY <1>1, <1>8 DEF FirstHiddenChange, pace, ppu, MaskOwed
<1>9. CASE CopySnapshot
  <2>1. ~snapValid
    BY <1>9 DEF CopySnapshot, MaskInv, SnapshotInv, Taking
  <2> QED
    BY <1>1, <1>9, <2>1 DEF CopySnapshot, ppu, MaskOwed
<1>10. CASE CleanLive
  BY <1>1, <1>10 DEF CleanLive, pace, MaskOwed
<1>11. CASE ValidateSnapshot
  BY <1>1, <1>11 DEF ValidateSnapshot, ppu, MaskOwed
<1>12. CASE /\ UNCHANGED <<live, shown, dirty, snapDirty, snap, snapValid, maskDeferred>>
            /\ {pc, pc'} \cap ({"clean", "valid"} \cup MaskPCs) = {}
  BY <1>1, <1>12 DEF MaskOwed
<1>13. CASE WriteCtrl \/ Poll \/ Rti \/ CheckArmed \/ Consume \/ Activate \/ Drop
  BY <1>12, <1>13 DEF WriteCtrl, Poll, Rti, CheckArmed, Consume, Activate, Drop, ppu, pace
<1>14. CASE NormalStart \/ EarlyStart \/ ForgetUnpublished \/ SetEarly
  BY <1>12, <1>14 DEF NormalStart, EarlyStart, ForgetUnpublished, SetEarly, ppu, pace
<1>15. CASE MarkUnpublished \/ SpendCredit \/ Arm \/ SetPending
  BY <1>12, <1>15 DEF MarkUnpublished, SpendCredit, Arm, SetPending, ppu, pace
<1> QED
  BY <1>2, <1>3, <1>4, <1>5, <1>6, <1>7, <1>8, <1>9, <1>10, <1>11, <1>13, <1>14, <1>15
  DEF Write, Continue

(* A commit shows the mask of the cells, or the one of the snapshot when   *)
(* the mask in the cells is flagged, deferred or still on its way.         *)
LEMMA MaskVBlank ==
  ASSUME CellsOK, MaskInv, VBlank, Proviso
  PROVE  MaskOwed'
<1> USE DEF SnapHolds, NoLostMask
<1>1. /\ pc \notin {"clean", "valid"} /\ ~snapValid'
      /\ UNCHANGED <<pc, live, snap>>
      /\ MaskOwed /\ "mask" \in Chans
      /\ live \in [Chans -> Values] /\ shown \in [Chans -> Values]
      /\ maskDeferred \in BOOLEAN
  BY VBlankPolls, VBlankEnds
  DEF Proviso, MaskInv, CellsOK, PpuOK, PaceOK, ViewOK, Chans
<1>2. PICK s \in SplitAfterGrace : CommitWith(s) \/ SkipWith(s)
  BY DEF VBlank, VBlankCommit, VBlankSkip, VBlankHold, HoldWith, PrepHolds, Proviso
<1>3. SUFFICES live["mask"] # shown'["mask"] => "mask" \in dirty' \/ pc \in MaskPCs
  BY <1>1, <1>3 DEF MaskOwed
<1>4. CASE SkipWith(s)
  <2>1. /\ ~snapValid /\ dirty' = dirty
        /\ shown' = IF maskDeferred THEN [shown EXCEPT !["mask"] = live["mask"]] ELSE shown
    BY <1>4 DEF SkipWith, Running, Tail, MaskApplied
  <2> QED
    BY <1>1, <2>1 DEF MaskOwed
<1>5. CASE CommitWith(s)
  <2> DEFINE F == [c \in Chans |-> IF c \in FrameDirty THEN FrameData[c] ELSE shown[c]]
  <2>1. shown' = IF maskDeferred THEN [F EXCEPT !["mask"] = live["mask"]] ELSE F
    BY <1>5 DEF CommitWith, Tail, MaskApplied
  <2>2. shown'["mask"] = IF maskDeferred THEN live["mask"] ELSE F["mask"]
    BY <1>1, <2>1
  <2>3. F["mask"] = IF "mask" \in FrameDirty THEN FrameData["mask"] ELSE shown["mask"]
    BY <1>1
  <2>4. CASE Paced
    <3>1. dirty' = dirty /\ FrameDirty = snapDirty /\ FrameData = snap /\ snapValid
      BY <1>5, <2>4 DEF CommitWith, FrameDirty, FrameData, Paced
    <3> QED
      BY <1>1, <2>2, <2>3, <3>1 DEF MaskOwed
  <2>5. CASE ~Paced
    <3>1. /\ FrameDirty = IF snapValid THEN dirty \cup snapDirty ELSE dirty
          /\ FrameData = live
      BY <2>5 DEF FrameDirty, FrameData
    <3> QED
      BY <1>1, <2>2, <2>3, <3>1 DEF MaskOwed
  <2> QED
    BY <2>4, <2>5
<1> QED
  BY <1>2, <1>4, <1>5

(* No write of PPUMASK is forgotten, whichever of its three ways out it    *)
(* takes and wherever the VBlank hits among its steps: for a title without *)
(* the hidden preparation, if no VBlank hits between nmi_active = 1 and    *)
(* snap_valid = 1 of a start.                                              *)
THEOREM NoMaskIsLost ==
  ASSUME Proviso
  PROVE  Spec => []NoLostMask
<1>1. Init => MaskInv
  <2> SUFFICES ASSUME Init PROVE MaskInv
    OBVIOUS
  <2>1. SnapshotInv
    BY DEF Init, SnapshotInv, Taking, Early, SnapPCs, RtiPCs
  <2>2. live = shown /\ pc = "run" /\ ~snapValid
    BY DEF Init
  <2> QED
    BY <2>1, <2>2 DEF MaskInv, WaitsForEarly, MaskOwed, NoLostMask, SnapHolds
<1>2. CellsOK /\ MaskInv /\ [Next]_vars => MaskInv'
  <2> SUFFICES ASSUME CellsOK, MaskInv, [Next]_vars
               PROVE  MaskInv'
    OBVIOUS
  <2>1. CASE Write \/ Poll \/ Rti \/ Continue
    BY <2>1, SnapshotMain, FlagsMain, MaskMain DEF MaskInv
  <2>2. CASE VBlank
    <3>1. SnapshotInv' /\ MaskOwed'
      BY <2>2, SnapshotVBlank, MaskVBlank DEF MaskInv
    <3>2. WaitsForEarly'
      BY <2>2, VBlankEnds DEF Proviso, WaitsForEarly
    <3> QED
      BY <3>1, <3>2 DEF MaskInv
  <2>3. CASE UNCHANGED vars
    BY <2>3 DEF vars, poll, pace, ppu, MaskInv, SnapshotInv, Taking, Early,
       WaitsForEarly, MaskOwed, NoLostMask, SnapHolds
  <2> QED
    BY <2>1, <2>2, <2>3 DEF Next
<1>3. MaskInv => NoLostMask
  BY DEF MaskInv, MaskOwed
<1> QED
  BY <1>1, <1>2, <1>3, CellsInit, CellsNext, PTL DEF Spec
=============================================================================
