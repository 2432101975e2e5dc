-------------------------- MODULE RefinementProofs --------------------------
(***************************************************************************)
(* The abstractions of frame pacing: it implements AtomicFrames, which     *)
(* shows completed frames only, and NmiRate, which counts, implements it.  *)
(***************************************************************************)
EXTENDS NmiRate, FramePacingProofs

-----------------------------------------------------------------------------
(* Frame pacing implements AtomicFrames: the display moves from completed  *)
(* frame to completed frame, all deferred channels at once.                *)

(* Where the game's last completed frame is. Between two NMIs the cells    *)
(* hold it, but for the one that mainline code is writing; an early start  *)
(* finds it there; later it is what the snapshot will make of the display. *)
FrameInv ==
  /\ pc = "flag" => writing \in Deferred
  /\ ~active => \A c \in Deferred : live[c] = done[c] \/ (pc = "flag" /\ writing = c)
  /\ pc \in {"start", "copy"} => \A c \in Deferred : live[c] = done[c]
  /\ SnapHolds /\ active => \A c \in Deferred :
       IF c \in snapDirty THEN snap[c] = done[c] ELSE shown[c] = done[c]

RefineInv == LossInv /\ FrameInv

-----------------------------------------------------------------------------
LEMMA FrameMain ==
  ASSUME CellsOK, RefineInv, Write \/ Poll \/ Rti \/ Continue
  PROVE  FrameInv'
<1> USE DEF Goto, SnapHolds
<1>1. /\ live \in [Chans -> Values] /\ shown \in [Chans -> Values]
      /\ done \in [Deferred -> Values] /\ active \in BOOLEAN
      /\ Deferred \subseteq Chans /\ "mask" \in Chans /\ "mask" \notin Deferred
      /\ FrameInv
  BY ConstantsAssumption DEF CellsOK, PollOK, PpuOK, ViewOK, Chans, RefineInv
<1>2. CASE WriteDeferred
  BY <1>1, <1>2 DEF WriteDeferred, poll, pace, FrameInv
<1>3. CASE FlagDeferred
  BY <1>1, <1>3 DEF FlagDeferred, poll, pace, FrameInv
<1>4. CASE WriteMask \/ DecideMask
  <2>1. /\ pc \in {"run", "decide"} /\ pc' \in {"run", "decide", "publish"}
        /\ UNCHANGED <<shown, done, active, snapValid, snap, snapDirty>>
        /\ \A c \in Deferred : live'[c] = live[c]
    BY <1>1, <1>4 DEF WriteMask, DecideMask, poll, pace
  <2> QED
    BY <1>1, <2>1 DEF FrameInv
<1>5. CASE PublishMask \/ FirstHiddenChange
  <2>1. /\ pc \in {"run", "publish"} /\ pc' \in {"run", "defer"}
        /\ UNCHANGED <<live, done, active, snapValid, snap, snapDirty>>
        /\ \A c \in Deferred : shown'[c] = shown[c]
    BY <1>1, <1>5 DEF PublishMask, FirstHiddenChange, poll, pace, ppu
  <2> QED
    BY <1>1, <2>1 DEF FrameInv
<1>6. CASE Activate
  <2>1. ~snapValid
    BY <1>6 DEF Activate, RefineInv, LossInv, SnapshotInv
  <2> QED
    BY <1>1, <1>6, <2>1 DEF Activate, pace, ppu, FrameInv
<1>7. CASE Rti
  BY <1>1, <1>7 DEF Rti, pace, ppu, FrameInv
<1>8. CASE EarlyStart
  BY <1>1, <1>8 DEF EarlyStart, poll, pace, ppu, FrameInv
<1>9. CASE CopySnapshot
  <2>1. /\ ~snapValid
        /\ \A c \in Deferred : c \notin dirty => live[c] = shown[c]
    BY <1>9 DEF CopySnapshot, RefineInv, LossInv, SnapshotInv, Taking, OwedInv, NoLostChange
  <2> QED
    BY <1>1, <1>9, <2>1 DEF CopySnapshot, poll, ppu, FrameInv
<1>10. CASE CleanLive
  BY <1>1, <1>10 DEF CleanLive, poll, pace, FrameInv
<1>11. CASE ValidateSnapshot
  BY <1>1, <1>11 DEF ValidateSnapshot, poll, ppu, FrameInv
<1>12. CASE /\ UNCHANGED <<live, shown, done, active, snapDirty, snap, snapValid>>
            /\ {pc, pc'} \cap {"flag", "clean", "valid", "copy"} = {} /\ pc' # "start"
  BY <1>1, <1>12 DEF FrameInv
<1>13. CASE WriteCtrl \/ WriteScroll \/ Poll \/ CheckArmed \/ Consume \/ Drop
  BY <1>12, <1>13 DEF WriteCtrl, WriteScroll, Poll, CheckArmed, Consume, Drop, poll, pace, ppu
<1>14. CASE NormalStart \/ ForgetUnpublished \/ SetEarly \/ DeferMask
  BY <1>12, <1>14 DEF NormalStart, ForgetUnpublished, SetEarly, DeferMask, poll, pace, ppu
<1>15. CASE MarkUnpublished \/ SpendCredit \/ Arm \/ SetPending
  BY <1>12, <1>15 DEF MarkUnpublished, SpendCredit, Arm, SetPending, pace, ppu
<1> QED
  BY <1>2, <1>3, <1>4, <1>5, <1>6, <1>7, <1>8, <1>9, <1>10, <1>11, <1>13, <1>14, <1>15
  DEF Write, Continue

(* What a VBlank shows: nothing new, or the completed frame.               *)
LEMMA VBlankShows ==
  ASSUME CellsOK, RefineInv, VBlank, Proviso
  PROVE  \/ \A c \in Deferred : shown'[c] = shown[c]
         \/ \A c \in Deferred :
              IF ~active /\ pc = "flag" /\ writing = c
              THEN shown'[c] \in {shown[c], live[c]} ELSE shown'[c] = done[c]
<1>1. /\ pc \notin {"clean", "valid"} /\ Deferred \subseteq Chans /\ "mask" \notin Deferred
      /\ shown \in [Chans -> Values]
      /\ FrameInv /\ NoLostChange
  BY VBlankPolls, ConstantsAssumption
  DEF Proviso, CellsOK, ViewOK, Chans, RefineInv, LossInv, OwedInv
<1>2. CASE \A c \in Deferred : shown'[c] = shown[c]
  BY <1>2
<1>3. CASE VBlankCommit
  <2>1. PICK s \in SplitAfterGrace : CommitWith(s)
    BY <1>3 DEF VBlankCommit
  <2> DEFINE F == [c \in Chans |-> IF c \in FrameDirty THEN FrameData[c] ELSE shown[c]]
  <2>2. shown' = IF maskDeferred THEN [F EXCEPT !["mask"] = live["mask"]] ELSE F
    BY <2>1 DEF CommitWith, Tail, MaskApplied
  <2>3. \A c \in Deferred :
          shown'[c] = IF c \in FrameDirty THEN FrameData[c] ELSE shown[c]
    BY <1>1, <2>2
  <2>4. CASE Paced
    <3>1. FrameDirty = snapDirty /\ FrameData = snap /\ snapValid /\ active
      BY <2>4 DEF FrameDirty, FrameData, Paced
    <3> QED
      BY <1>1, <2>3, <3>1 DEF FrameInv, SnapHolds
  <2>5. CASE ~Paced
    <3>1. ~active /\ FrameData = live
      BY <2>1, <2>5 DEF CommitWith, Running, Paced, FrameData
    <3>2. FrameDirty = IF snapValid THEN dirty \cup snapDirty ELSE dirty
      BY <2>5 DEF FrameDirty
    <3>3. \A c \in Deferred : c \notin FrameDirty =>
             live[c] = shown[c] \/ (pc = "flag" /\ writing = c)
      BY <1>1, <3>2 DEF NoLostChange
    <3> QED
      BY <1>1, <2>3, <3>1, <3>3 DEF FrameInv
  <2> QED
    BY <2>4, <2>5
<1> QED
  BY <1>2, <1>3, VBlankPolls DEF Proviso

LEMMA FrameVBlank ==
  ASSUME CellsOK, RefineInv, VBlank, Proviso
  PROVE  FrameInv'
<1>1. /\ pc \notin {"clean", "valid"} /\ UNCHANGED <<pc, active, live, writing>>
      /\ ~snapValid'
  BY VBlankPolls DEF Proviso, Running
<1>2. UNCHANGED done
  BY DEF VBlank, VBlankCommit, VBlankSkip, VBlankHold, CommitWith, SkipWith, HoldWith, Tail
<1> QED
  BY <1>1, <1>2 DEF RefineInv, FrameInv, SnapHolds

-----------------------------------------------------------------------------
(* Each step of the main thread draws, settles, begins or finishes a       *)
(* frame, or the display and the frames stay as they are.                  *)
LEMMA MainRefines ==
  ASSUME CellsOK, RefineInv, Write \/ Poll \/ Rti \/ Continue
  PROVE  [Atomic!Next]_(Atomic!vars)
<1> USE DEF Goto
<1>1. /\ live \in [Chans -> Values] /\ shown \in [Chans -> Values]
      /\ done \in [Deferred -> Values] /\ active \in BOOLEAN
      /\ Deferred \subseteq Chans /\ "mask" \notin Deferred
      /\ FrameInv
  BY ConstantsAssumption DEF CellsOK, PollOK, PpuOK, ViewOK, Chans, RefineInv
<1>2. CASE WriteDeferred
  <2>1. PICK c \in Deferred, v \in Values : writing' = c /\ live' = [live EXCEPT ![c] = v]
    BY <1>2 DEF WriteDeferred
  <2>2. [d \in Deferred |-> live'[d]] = [[d \in Deferred |-> live[d]] EXCEPT ![c] = v]
    BY <1>1, <2>1
  <2>3. /\ pc' = "flag" /\ UNCHANGED <<done, shown, active>>
    BY <1>2 DEF WriteDeferred, poll
  <2>4. Atomic!Draw(c)
    BY <2>1, <2>2, <2>3 DEF Atomic!Draw
  <2> QED
    BY <2>4 DEF Atomic!Next
<1>3. CASE FlagDeferred
  <2>1. /\ pc = "flag" /\ pc' = "run" /\ writing \in Deferred
        /\ UNCHANGED <<live, shown, active>>
        /\ done' = IF active THEN done ELSE [done EXCEPT ![writing] = live[writing]]
    BY <1>1, <1>3 DEF FlagDeferred, poll, FrameInv
  <2>2. CASE active
    BY <2>1, <2>2 DEF Atomic!vars
  <2>3. CASE ~active
    <3>1. done' = [c \in Deferred |-> IF c \in {writing} THEN live[c] ELSE done[c]]
      BY <1>1, <2>1, <2>3
    <3>2. Atomic!Settle
      BY <2>1, <2>3, <3>1 DEF Atomic!Settle
    <3> QED
      BY <3>2 DEF Atomic!Next
  <2> QED
    BY <2>2, <2>3
<1>4. CASE Activate
  <2>1. Atomic!Begin
    BY <1>4 DEF Activate, pace, ppu, Atomic!Begin
  <2> QED
    BY <2>1 DEF Atomic!Next
<1>5. CASE Rti
  <2>1. Atomic!Finish
    BY <1>5 DEF Rti, pace, ppu, Atomic!Finish
  <2> QED
    BY <2>1 DEF Atomic!Next
<1>6. CASE /\ UNCHANGED <<done, active>>
           /\ \A c \in Deferred : live'[c] = live[c] /\ shown'[c] = shown[c]
           /\ pc # "flag" /\ pc' # "flag"
  <2>1. /\ [c \in Deferred |-> live'[c]] = [c \in Deferred |-> live[c]]
        /\ [c \in Deferred |-> shown'[c]] = [c \in Deferred |-> shown[c]]
    BY <1>6
  <2> QED
    BY <1>6, <2>1 DEF Atomic!vars
<1>7. CASE WriteMask \/ DecideMask \/ PublishMask \/ DeferMask \/ FirstHiddenChange
  BY <1>1, <1>6, <1>7 DEF WriteMask, DecideMask, PublishMask, DeferMask, FirstHiddenChange,
     poll, pace, ppu
<1>8. CASE WriteCtrl \/ WriteScroll \/ Poll \/ CheckArmed \/ Consume \/ Drop
  BY <1>6, <1>8 DEF WriteCtrl, WriteScroll, Poll, CheckArmed, Consume, Drop, poll, pace, ppu
<1>9. CASE NormalStart \/ EarlyStart \/ CopySnapshot \/ CleanLive \/ ValidateSnapshot
  BY <1>6, <1>9 DEF NormalStart, EarlyStart, CopySnapshot, CleanLive, ValidateSnapshot,
     poll, pace, ppu
<1>10. CASE \/ ForgetUnpublished \/ SetEarly
            \/ MarkUnpublished \/ SpendCredit \/ Arm \/ SetPending
  BY <1>6, <1>10 DEF ForgetUnpublished, SetEarly, MarkUnpublished, SpendCredit, Arm,
     SetPending, poll, pace, ppu
<1> QED
  BY <1>2, <1>3, <1>4, <1>5, <1>7, <1>8, <1>9, <1>10 DEF Write, Continue

(* A VBlank publishes the completed frame as a whole, or nothing of it.    *)
LEMMA VBlankRefines ==
  ASSUME CellsOK, RefineInv, CellsOK', VBlank, Proviso
  PROVE  [Atomic!Next]_(Atomic!vars)
<1>1. /\ UNCHANGED <<pc, active, live, writing, done>>
      /\ shown' \in [Chans -> Values] /\ Deferred \subseteq Chans
  <2>1. UNCHANGED <<pc, active, live, writing, done>>
    BY DEF VBlank, VBlankCommit, VBlankSkip, VBlankHold, CommitWith, SkipWith, HoldWith, Tail
  <2> QED
    BY <2>1 DEF CellsOK, ViewOK, Chans
<1>2. CASE \A c \in Deferred : shown'[c] = shown[c]
  <2>1. [c \in Deferred |-> shown'[c]] = [c \in Deferred |-> shown[c]]
    BY <1>2
  <2> QED
    BY <1>1, <2>1 DEF Atomic!vars
<1>3. CASE \A c \in Deferred :
             IF ~active /\ pc = "flag" /\ writing = c
             THEN shown'[c] \in {shown[c], live[c]} ELSE shown'[c] = done[c]
  <2> DEFINE inflight == IF pc = "flag" /\ ~active THEN {writing} ELSE {}
  <2>1. [c \in Deferred |-> shown'[c]] \in [Deferred -> Values]
    BY <1>1
  <2>2. \A c \in Deferred \ inflight : shown'[c] = done[c]
    BY <1>3
  <2>3. \A c \in inflight : shown'[c] \in {shown[c], live[c]} /\ c \in Deferred
    BY <1>3 DEF RefineInv, FrameInv
  <2>4. Atomic!Publish
    BY <1>1, <2>1, <2>2, <2>3 DEF Atomic!Publish
  <2> QED
    BY <2>4 DEF Atomic!Next
<1> QED
  BY <1>2, <1>3, VBlankShows

(* Frame pacing implements AtomicFrames: for a title without the hidden    *)
(* preparation, if no VBlank hits between nmi_active = 1 and               *)
(* snap_valid = 1 of a start, the player sees completed frames only.       *)
THEOREM PacingIsAtomic ==
  ASSUME Proviso
  PROVE  Spec => RefinesAtomicFrames
<1>1. Init => FrameInv /\ Atomic!Init
  <2> SUFFICES ASSUME Init PROVE FrameInv /\ Atomic!Init
    OBVIOUS
  <2>1. FrameInv
    BY DEF Init, FrameInv, SnapHolds
  <2>2. PICK v \in Values : live = [c \in Chans |-> v]
    BY DEF Init
  <2>3. [c \in Deferred |-> live[c]] = [c \in Deferred |-> v]
    BY <2>2 DEF Chans
  <2> QED
    BY <2>1, <2>3 DEF Init, Atomic!Init
<1>2. Init => RefineInv
  BY <1>1, LossInit DEF RefineInv
<1>3. CellsOK /\ RefineInv /\ [Next]_vars => RefineInv'
  <2> SUFFICES ASSUME CellsOK, RefineInv, [Next]_vars
               PROVE  RefineInv'
    OBVIOUS
  <2>1. LossInv'
    BY LossNext DEF RefineInv
  <2>2. CASE UNCHANGED vars
    BY <2>1, <2>2 DEF vars, poll, pace, ppu, RefineInv, FrameInv, SnapHolds
  <2> QED
    BY <2>1, <2>2, FrameMain, FrameVBlank DEF Next, RefineInv
<1>4. CellsOK /\ RefineInv /\ [Next]_vars => [Atomic!Next]_(Atomic!vars)
  <2> SUFFICES ASSUME CellsOK, RefineInv, [Next]_vars
               PROVE  [Atomic!Next]_(Atomic!vars)
    OBVIOUS
  <2>1. CASE UNCHANGED vars
    BY <2>1 DEF vars, poll, pace, ppu, Atomic!vars
  <2> QED
    BY <2>1, MainRefines, VBlankRefines, CellsNext DEF Next
<1> QED
  BY <1>1, <1>2, <1>3, <1>4, CellsInit, CellsNext, PTL DEF Spec, RefinesAtomicFrames, Atomic!Spec

-----------------------------------------------------------------------------
(* NMI starts never outnumber host VBlanks, for every value of the         *)
(* constants with a SlackCap of at least three.                            *)

B(p) == IF p THEN 1 ELSE 0

(* The right to one NMI start, on its way from one flag to another: taken  *)
(* from the event flag by a poll, or from the credit by an RTI.            *)
InTransit == \/ pc = "activate" /\ ~active
             \/ pc \in {"arm", "pend"}

(* Every right to start an NMI, in either flag or in transit, is paid for  *)
(* by a VBlank that started none.                                          *)
RightsPaid ==
  /\ slack \in Int /\ slack <= SlackCap
  /\ slack >= B(pending) + B(credit) + B(InTransit)

(* A poll that got past its first test still finds the event, or will drop *)
(* it; the end of an NMI runs with no NMI active.                          *)
PollSeesEvent ==
  /\ pc \in {"armed", "consume"} /\ ~active => pending
  /\ pc \in RtiPCs => ~active

RateInv == RightsPaid /\ PollSeesEvent

LEMMA BTypes == \A p \in BOOLEAN : B(p) \in 0..1
  BY DEF B

(* slack is a history variable: it does not restrict the pacing.           *)
LEMMA RateImplementsPacing == RateSpec => Spec
<1>1. RateInit => Init
  BY DEF RateInit
<1>2. [RateNext]_rateVars => [Next]_vars
  BY DEF RateNext, CountVBlank, CountStart, CountNothing, Next, Continue, rateVars
<1> QED
  BY <1>1, <1>2, PTL DEF RateSpec, Spec

(* The steps that neither consume nor earn a right.                        *)
LEMMA OtherSteps ==
  ASSUME CellsOK, RateInv, CountNothing
  PROVE  RateInv'
<1> USE DEF Goto
<1>1. PollOK
  BY DEF CellsOK
<1>2. slack' = slack
  BY DEF CountNothing
<1>3. CASE Poll
  BY <1>1, <1>2, <1>3 DEF Poll, PollOK, RateInv, RightsPaid, PollSeesEvent, InTransit, RtiPCs, B
<1>4. CASE CheckArmed
  BY <1>1, <1>2, <1>4 DEF CheckArmed, PollOK, RateInv, RightsPaid, PollSeesEvent, InTransit, RtiPCs, B
<1>5. CASE Consume
  BY <1>1, <1>2, <1>5 DEF Consume, PollOK, RateInv, RightsPaid, PollSeesEvent, InTransit, RtiPCs, B
<1>6. CASE Drop
  BY <1>1, <1>2, <1>6 DEF Drop, PollOK, RateInv, RightsPaid, PollSeesEvent, InTransit, RtiPCs, B
<1>7. CASE Rti
  BY <1>1, <1>2, <1>7 DEF Rti, PollOK, RateInv, RightsPaid, PollSeesEvent, InTransit, RtiPCs, B
<1>8. CASE MarkUnpublished
  BY <1>1, <1>2, <1>8 DEF MarkUnpublished, PollOK, RateInv, RightsPaid, PollSeesEvent, InTransit, RtiPCs, B
<1>9. CASE SpendCredit
  BY <1>1, <1>2, <1>9 DEF SpendCredit, PollOK, RateInv, RightsPaid, PollSeesEvent, InTransit, RtiPCs, B
<1>10. CASE Arm
  BY <1>1, <1>2, <1>10 DEF Arm, PollOK, RateInv, RightsPaid, PollSeesEvent, InTransit, RtiPCs, B
<1>11. CASE SetPending
  BY <1>1, <1>2, <1>11 DEF SetPending, PollOK, RateInv, RightsPaid, PollSeesEvent, InTransit, RtiPCs, B
<1>12. CASE /\ UNCHANGED <<pending, credit, active>>
            /\ {pc, pc'} \cap ({"armed", "consume", "activate"} \cup RtiPCs) = {}
  BY <1>2, <1>12 DEF RateInv, RightsPaid, PollSeesEvent, InTransit, RtiPCs, B
<1>13. \/ Poll \/ CheckArmed \/ Consume \/ Drop \/ Rti \/ MarkUnpublished \/ SpendCredit
       \/ Arm \/ SetPending
       \/ /\ UNCHANGED <<pending, credit, active>>
          /\ {pc, pc'} \cap ({"armed", "consume", "activate"} \cup RtiPCs) = {}
  <2>1. CASE Write
    BY <2>1 DEF Write, WriteDeferred, WriteMask, WriteCtrl, WriteScroll, FirstHiddenChange,
       poll, RtiPCs
  <2>2. CASE FlagDeferred \/ DecideMask \/ PublishMask \/ DeferMask
    BY <2>2 DEF FlagDeferred, DecideMask, PublishMask, DeferMask, poll, RtiPCs
  <2>3. CASE NormalStart \/ EarlyStart \/ CopySnapshot \/ CleanLive
    BY <2>3 DEF NormalStart, EarlyStart, CopySnapshot, CleanLive, poll, RtiPCs
  <2>4. CASE ValidateSnapshot \/ ForgetUnpublished \/ SetEarly
    BY <2>4 DEF ValidateSnapshot, ForgetUnpublished, SetEarly, poll, RtiPCs
  <2>5. CASE Activate
    BY <2>5 DEF Activate, CountNothing, Write, WriteDeferred, WriteMask, WriteCtrl,
       WriteScroll, FirstHiddenChange, Poll, Rti, Drop
  <2> QED
    BY <2>1, <2>2, <2>3, <2>4, <2>5 DEF CountNothing, Continue
<1> QED
  BY <1>3, <1>4, <1>5, <1>6, <1>7, <1>8, <1>9, <1>10, <1>11, <1>12, <1>13

(* A start consumes the right that was in transit.                         *)
LEMMA StartStep ==
  ASSUME CellsOK, RateInv, CountStart
  PROVE  RateInv'
<1>1. PollOK
  BY DEF CellsOK
<1>2. pc = "activate" /\ ~active /\ pc' = "start" /\ slack' = slack - 1
  BY DEF CountStart, Activate, Goto
<1>3. pending' = pending /\ credit' = credit
  BY DEF CountStart, Activate
<1> QED
  BY <1>1, <1>2, <1>3, SlackCapAssumption
  DEF RateInv, RightsPaid, PollSeesEvent, InTransit, RtiPCs, PollOK, B

(* A VBlank leaves at most one right more than there were, and pays it.    *)
LEMMA VBlankStep ==
  ASSUME CellsOK, RateInv, CountVBlank, SlackCap >= 3
  PROVE  RateInv'
<1>1. PollOK /\ active \in BOOLEAN /\ pending \in BOOLEAN /\ credit \in BOOLEAN
  BY DEF CellsOK, PollOK
<1>2. /\ pc' = pc /\ active' = active
      /\ credit' = (credit \/ active)
      /\ pending' \in BOOLEAN
      /\ active => ~pending'
      /\ ~active /\ pending => pending'
  <2>1. PICK s \in SplitAfterGrace : CommitWith(s) \/ SkipWith(s) \/ HoldWith(s)
    BY DEF CountVBlank, VBlank, VBlankCommit, VBlankSkip, VBlankHold
  <2>2. CASE CommitWith(s)
    BY <1>1, <2>2 DEF CommitWith, Tail
  <2>3. CASE SkipWith(s)
    BY <1>1, <2>3 DEF SkipWith, Tail, Running
  <2>4. CASE HoldWith(s)
    BY <1>1, <2>4 DEF HoldWith, Tail
  <2> QED
    BY <2>1, <2>2, <2>3, <2>4
<1>3. slack' = IF slack < SlackCap THEN slack + 1 ELSE slack
  BY DEF CountVBlank
<1>4. InTransit' = InTransit /\ PollSeesEvent'
  BY <1>1, <1>2 DEF InTransit, PollSeesEvent, RateInv
<1>5. B(pending') + B(credit') <= B(pending) + B(credit) + 1
  BY <1>1, <1>2 DEF B
<1>6. B(pending) \in 0..1 /\ B(credit) \in 0..1 /\ B(InTransit) \in 0..1
  BY DEF B
<1>7. B(pending') \in 0..1 /\ B(credit') \in 0..1
  BY DEF B
<1>8. RightsPaid'
  BY <1>3, <1>4, <1>5, <1>6, <1>7, SlackCapAssumption DEF RateInv, RightsPaid
<1> QED
  BY <1>4, <1>8 DEF RateInv

(* At most one NMI start per host VBlank, however events, armed starts and *)
(* credits deliver it, for every set of poll points, mirroring, length of  *)
(* the preparation and place of the interrupt.  With a SlackCap of three,  *)
(* no burst starts more than three NMIs beyond the VBlanks of the burst:   *)
(* an unconsumed event, a credit, and a right in transit.                  *)
THEOREM AtMostOneStartPerVBlank ==
  ASSUME SlackCap >= 3
  PROVE  RateSpec => []StartsWithinVBlanks
<1>1. RateInit => RateInv
  BY SlackCapAssumption
  DEF RateInit, Init, RateInv, RightsPaid, PollSeesEvent, InTransit, RtiPCs, B
<1>2. CellsOK /\ RateInv /\ [RateNext]_rateVars => RateInv'
  <2> SUFFICES ASSUME CellsOK, RateInv, [RateNext]_rateVars
               PROVE  RateInv'
    OBVIOUS
  <2>1. CASE RateNext
    BY <2>1, OtherSteps, StartStep, VBlankStep DEF RateNext
  <2>2. CASE UNCHANGED rateVars
    BY <2>2 DEF rateVars, vars, poll, RateInv, RightsPaid, PollSeesEvent, InTransit
  <2> QED
    BY <2>1, <2>2
<1>3. RateInv => StartsWithinVBlanks
  BY DEF RateInv, RightsPaid, StartsWithinVBlanks, B
<1>4. RateSpec => []CellsOK
  BY RateImplementsPacing, CellsInit, CellsNext, PTL DEF Spec
<1> QED
  BY <1>1, <1>2, <1>3, <1>4, PTL DEF RateSpec
=============================================================================
