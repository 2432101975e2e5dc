---------------------------- MODULE FramePacing ----------------------------
(***************************************************************************)
(* Delivery of the host VBlank as a NES NMI, and presentation of completed *)
(* NES frames, in the GBC runtime (runtime/cpu.asm, main.asm, ppu.asm).    *)
(*                                                                         *)
(* One CPU runs two activities.  The main thread is the recompiled game,   *)
(* its NMI handler included; the host VBlank interrupt may cut in between  *)
(* any two of its instructions, so the runtime routines of the main thread *)
(* are split at every access to a cell that the interrupt also touches.    *)
(* The VBlank handler runs to its end before the main thread goes on: each *)
(* VBlank action below is one whole execution of the handler.              *)
(*                                                                         *)
(* What the game draws is abstracted to channels.  A deferred channel (a   *)
(* palette, the sprite page, the scroll pair, PPUCTRL) keeps its value in  *)
(* the runtime's cells and is published by the VBlank handler when its     *)
(* dirty flag is up.  PPUMASK may also be published at once.               *)
(***************************************************************************)
EXTENDS Integers, FiniteSets

CONSTANTS
  Deferred,      \* channels published only through a dirty flag
  Values,        \* what a channel can hold
  SafePoints,    \* NES PCs at which recompiled code polls for an NMI
  NoPC,          \* "no PC learned yet" (high byte 0)
  Vertical,      \* the cartridge has vertical mirroring
  Shape,         \* ... and is a mapper 0, 32 KiB title: hidden stitch preparation
  PrepSteps,     \* VBlanks a hidden stitch preparation takes (8 in the code)
  ClosedWindows  \* values of pc at which the interrupt is assumed not to hit

Chans == Deferred \cup {"mask"}

ASSUME ConstantsAssumption ==
  /\ "mask" \notin Deferred
  /\ Values # {}
  /\ NoPC \notin SafePoints
  /\ Vertical \in BOOLEAN /\ Shape \in BOOLEAN
  /\ PrepSteps \in Nat \ {0}

VARIABLES
  pc,          \* where the main thread is
  hl,          \* the PC to resume, input of the poll (NoPC outside it)
  pending,     \* nes_host_vblank_pending
  credit,      \* nes_pace_credit
  armed,       \* nes_pace_armed
  unpublished, \* nes_pace_unpublished
  active,      \* nes_nmi_active
  snapValid,   \* nes_pace_snap_valid
  early,       \* nes_pace_early
  idle, cand,  \* nes_pace_idle, nes_pace_cand
  nmiOn,       \* PPUCTRL bit 7
  live,        \* value of each channel in the runtime's cells
  dirty,       \* channels whose dirty flag is up
  snap, snapDirty, snapSplit, \* nes_pace_snap: values, flags, nes_split_active
  maskDeferred,\* nes_pace_mask_deferred
  split,       \* nes_split_active
  hvalid,      \* nes_hstitch_valid: 0 none, 1 shown, 2 being prepared, 3 prepared
  hseen,       \* nes_hstitch_seen
  steps,       \* nes_hstitch_copy_start, in steps of four columns
  writing,     \* the channel whose value is stored and whose flag is not yet
  shown,       \* what the hardware displays
  done         \* ghost: the deferred channels of the last completed frame

poll  == <<pending, credit, armed, unpublished, active, hl, idle, cand, nmiOn>>
pace  == <<snapValid, snap, snapDirty, snapSplit, early, maskDeferred>>
ppu   == <<live, dirty, writing>>
prep  == <<split, hvalid, hseen, steps>>
vars  == <<pc, poll, pace, ppu, prep, shown, done>>

PollPCs == {"armed", "consume", "activate", "start"}
SnapPCs == {"copy", "clean", "valid", "published", "early"}
RtiPCs  == {"complete", "credit", "arm", "pend"}
MaskPCs == {"decide", "publish", "defer"}
PCs     == {"run", "flag"} \cup PollPCs \cup SnapPCs \cup RtiPCs \cup MaskPCs

PollOK ==
  /\ hl \in SafePoints \cup {NoPC}
  /\ idle \in SafePoints \cup {NoPC}
  /\ cand \in SafePoints \cup {NoPC}
  /\ pending \in BOOLEAN /\ credit \in BOOLEAN /\ armed \in BOOLEAN
  /\ unpublished \in BOOLEAN /\ active \in BOOLEAN /\ nmiOn \in BOOLEAN

PaceOK ==
  /\ snapValid \in BOOLEAN /\ early \in BOOLEAN /\ maskDeferred \in BOOLEAN
  /\ snap \in [Chans -> Values] /\ snapDirty \subseteq Chans /\ snapSplit \in BOOLEAN

PpuOK == live \in [Chans -> Values] /\ dirty \subseteq Chans /\ writing \in Chans

PrepOK == split \in BOOLEAN /\ hvalid \in 0..3 /\ hseen \in BOOLEAN /\ steps \in 0..PrepSteps

ViewOK == shown \in [Chans -> Values] /\ done \in [Deferred -> Values]

TypeOK == pc \in PCs /\ PollOK /\ PaceOK /\ PpuOK /\ PrepOK /\ ViewOK

(* Power-on: the runtime's cells are cleared before recompiled code runs.  *)
Init ==
  /\ pc = "run"
  /\ hl = NoPC /\ idle = NoPC /\ cand = NoPC
  /\ pending = FALSE /\ credit = FALSE /\ armed = FALSE
  /\ unpublished = FALSE /\ active = FALSE /\ nmiOn = FALSE
  /\ snapValid = FALSE /\ early = FALSE /\ maskDeferred = FALSE
  /\ \E v \in Values : live = [c \in Chans |-> v]
  /\ snap = live /\ shown = live
  /\ done = [c \in Deferred |-> live[c]]
  /\ dirty = {} /\ snapDirty = {}
  /\ split = FALSE /\ snapSplit = FALSE /\ hseen = FALSE
  /\ hvalid = 0 /\ steps = 0
  /\ writing = "mask"

Goto(from, to) == pc = from /\ pc' = to

-----------------------------------------------------------------------------
(* Register writes of recompiled code, in mainline or NMI context.         *)

(* A deferred channel: the value is stored first, the dirty flag after it. *)
WriteDeferred ==
  /\ Goto("run", "flag")
  /\ \E c \in Deferred, v \in Values :
       /\ writing' = c
       /\ live' = [live EXCEPT ![c] = v]
  /\ UNCHANGED <<dirty, poll, pace, prep, shown, done>>

(* Outside an NMI the write belongs to the frame completed last.           *)
FlagDeferred ==
  /\ Goto("flag", "run")
  /\ dirty' = dirty \cup {writing}
  /\ done' = IF active THEN done ELSE [done EXCEPT ![writing] = live[writing]]
  /\ UNCHANGED <<live, writing, poll, pace, prep, shown>>

(* $2001: whether the write is deferred or published depends on the        *)
(* presentation.  An established stitch that is away for a transition lets *)
(* only the end of a real hidden construction through (rebuild).           *)
WriteMask ==
  /\ Goto("run", "decide")
  /\ \E v \in Values : live' = [live EXCEPT !["mask"] = v]
  /\ UNCHANGED <<dirty, writing, poll, pace, prep, shown, done>>

MaskDefers(rebuild) == Vertical /\ (split \/ hvalid # 0 \/ (hseen /\ ~rebuild))

DecideMask ==
  /\ \E rebuild \in BOOLEAN :
       IF MaskDefers(rebuild)
         THEN Goto("decide", "run")     /\ dirty' = dirty \cup {"mask"}
         ELSE Goto("decide", "publish") /\ dirty' = dirty \ {"mask"}
  /\ UNCHANGED <<live, writing, poll, pace, prep, shown, done>>

PublishMask ==
  /\ IF early
       THEN Goto("publish", "defer") /\ UNCHANGED shown
       ELSE /\ Goto("publish", "run")
            /\ shown' = [shown EXCEPT !["mask"] = live["mask"]]
  /\ UNCHANGED <<poll, pace, ppu, prep, done>>

DeferMask ==
  /\ Goto("defer", "run")
  /\ maskDeferred' = TRUE
  /\ UNCHANGED <<snapValid, snap, snapDirty, snapSplit, early>>
  /\ UNCHANGED <<poll, ppu, prep, shown, done>>

(* $2007: the first hidden nametable change of a title whose stitch is away *)
(* lets the current mask through.                                          *)
FirstHiddenChange ==
  /\ pc = "run"
  /\ hseen /\ ~split /\ hvalid = 0
  /\ shown' = [shown EXCEPT !["mask"] = live["mask"]]
  /\ UNCHANGED <<pc, poll, pace, ppu, prep, done>>

(* $2000 bit 7.                                                            *)
WriteCtrl ==
  /\ pc = "run"
  /\ nmiOn' = ~nmiOn
  /\ UNCHANGED <<pending, credit, armed, unpublished, active, hl, idle, cand>>
  /\ UNCHANGED <<pc, pace, ppu, prep, shown, done>>

(* $2005 inside an NMI: a distinct second pair confirms a raster split, a  *)
(* second duplicate-only NMI in a row retires it.                          *)
WriteScroll ==
  /\ pc = "run" /\ active
  /\ split' = ~split
  /\ dirty' = dirty \cup (Deferred \cap {"scroll"})
  /\ UNCHANGED <<hvalid, hseen, steps, live, writing>>
  /\ UNCHANGED <<pc, poll, pace, shown, done>>

-----------------------------------------------------------------------------
(* nes_poll_nmi_hl, called at a safe point of mainline or NMI code.        *)

Poll ==
  /\ Goto("run", "armed")
  /\ pending
  /\ hl' \in SafePoints
  /\ UNCHANGED <<pending, credit, armed, unpublished, active, idle, cand, nmiOn>>
  /\ UNCHANGED <<pace, ppu, prep, shown, done>>

AwaitsNothing == FALSE   \* mutant: an armed start is taken at any poll point
AwaitsIdle    == armed /\ idle # hl

(* An armed start waits for the idle PC and leaves the event pending.      *)
CheckArmed ==
  /\ IF AwaitsIdle
       THEN Goto("armed", "run") /\ hl' = NoPC /\ UNCHANGED armed
       ELSE Goto("armed", "consume") /\ armed' = FALSE /\ UNCHANGED hl
  /\ UNCHANGED <<pending, credit, unpublished, active, idle, cand, nmiOn>>
  /\ UNCHANGED <<pace, ppu, prep, shown, done>>

Consume ==
  /\ Goto("consume", "activate")
  /\ pending' = FALSE
  /\ UNCHANGED <<credit, armed, unpublished, active, hl, idle, cand, nmiOn>>
  /\ UNCHANGED <<pace, ppu, prep, shown, done>>

Activate ==
  /\ nmiOn /\ ~active
  /\ Goto("activate", "start")
  /\ active' = TRUE
  /\ UNCHANGED <<pending, credit, armed, unpublished, hl, idle, cand, nmiOn>>
  /\ UNCHANGED <<pace, ppu, prep, shown, done>>

(* NMI disabled or already running: the host frame is dropped.             *)
Drop ==
  /\ ~nmiOn \/ active
  /\ Goto("activate", "run")
  /\ hl' = NoPC
  /\ UNCHANGED <<pending, credit, armed, unpublished, active, idle, cand, nmiOn>>
  /\ UNCHANGED <<pace, ppu, prep, shown, done>>

(* A VBlank-triggered start: two in a row at one PC identify the idle loop.*)
NormalStart ==
  /\ ~unpublished
  /\ Goto("start", "run")
  /\ idle' = IF cand = hl THEN hl ELSE idle
  /\ cand' = hl
  /\ hl' = NoPC
  /\ UNCHANGED <<pending, credit, armed, unpublished, active, nmiOn>>
  /\ UNCHANGED <<pace, ppu, prep, shown, done>>

EarlyStart ==
  /\ unpublished
  /\ Goto("start", "copy")
  /\ UNCHANGED <<poll, pace, ppu, prep, shown, done>>

(* nes_pace_take_snapshot: copy the cells, clear the flags, then declare   *)
(* the snapshot valid and the frame no longer unpublished.                 *)
CopySnapshot ==
  /\ Goto("copy", "clean")
  /\ snap' = live /\ snapDirty' = dirty /\ snapSplit' = split
  /\ UNCHANGED <<snapValid, early, maskDeferred>>
  /\ UNCHANGED <<poll, ppu, prep, shown, done>>

CleanLive ==
  /\ Goto("clean", "valid")
  /\ dirty' = {}
  /\ UNCHANGED <<live, writing, poll, pace, prep, shown, done>>

ValidateSnapshot ==
  /\ Goto("valid", "published")
  /\ snapValid' = TRUE
  /\ UNCHANGED <<snap, snapDirty, snapSplit, early, maskDeferred>>
  /\ UNCHANGED <<poll, ppu, prep, shown, done>>

ForgetUnpublished ==
  /\ Goto("published", "early")
  /\ unpublished' = FALSE
  /\ UNCHANGED <<pending, credit, armed, active, hl, idle, cand, nmiOn>>
  /\ UNCHANGED <<pace, ppu, prep, shown, done>>

SetEarly ==
  /\ Goto("early", "run")
  /\ early' = TRUE
  /\ hl' = NoPC
  /\ UNCHANGED <<pending, credit, armed, unpublished, active, idle, cand, nmiOn>>
  /\ UNCHANGED <<snapValid, snap, snapDirty, snapSplit, maskDeferred>>
  /\ UNCHANGED <<ppu, prep, shown, done>>

-----------------------------------------------------------------------------
(* nes_rti_pop_hl: the NES frame is complete.                              *)

Rti ==
  /\ active
  /\ Goto("run", "complete")
  /\ active' = FALSE
  /\ done' = [c \in Deferred |-> live[c]]
  /\ UNCHANGED <<pending, credit, armed, unpublished, hl, idle, cand, nmiOn>>
  /\ UNCHANGED <<pace, ppu, prep, shown>>

MarkUnpublished ==
  /\ Goto("complete", "credit")
  /\ unpublished' = TRUE
  /\ UNCHANGED <<pending, credit, armed, active, hl, idle, cand, nmiOn>>
  /\ UNCHANGED <<pace, ppu, prep, shown, done>>

(* Mutant: the credit stays after it has bought a start.                   *)
SpendCreditTwice ==
  /\ IF credit /\ idle # NoPC THEN Goto("credit", "arm") ELSE Goto("credit", "run")
  /\ UNCHANGED <<credit, pending, armed, unpublished, active, hl, idle, cand, nmiOn>>
  /\ UNCHANGED <<pace, ppu, prep, shown, done>>

SpendCredit ==
  /\ IF credit /\ idle # NoPC
       THEN Goto("credit", "arm") /\ credit' = FALSE
       ELSE Goto("credit", "run") /\ UNCHANGED credit
  /\ UNCHANGED <<pending, armed, unpublished, active, hl, idle, cand, nmiOn>>
  /\ UNCHANGED <<pace, ppu, prep, shown, done>>

Arm ==
  /\ Goto("arm", "pend")
  /\ armed' = TRUE
  /\ UNCHANGED <<pending, credit, unpublished, active, hl, idle, cand, nmiOn>>
  /\ UNCHANGED <<pace, ppu, prep, shown, done>>

SetPending ==
  /\ Goto("pend", "run")
  /\ pending' = TRUE
  /\ UNCHANGED <<credit, armed, unpublished, active, hl, idle, cand, nmiOn>>
  /\ UNCHANGED <<pace, ppu, prep, shown, done>>

-----------------------------------------------------------------------------
(* nes_gbc_vblank_isr.  A valid snapshot is swapped in and published while *)
(* its successor runs (Paced); if the successor has completed too, the     *)
(* live cells inherit the snapshot's flags.                                *)

Paced == snapValid /\ active

(* nes_nmi_active, as the body of the handler sees it.                     *)
RunningIgnored == FALSE    \* mutant: publishes while an NMI runs
RunningPaced   == active   \* mutant: never publishes a snapshot
Running        == active /\ ~snapValid

FrameData == IF Paced THEN snap ELSE live

FrameDirtyNotInherited == IF Paced THEN snapDirty ELSE dirty   \* mutant
FrameDirty == IF Paced THEN snapDirty
              ELSE IF snapValid THEN dirty \cup snapDirty ELSE dirty

(* The handler gives an established stitch whose split was just retired    *)
(* one more frame; the one-shot flag and the mask test are abstracted.     *)
SplitAfterGrace ==
  LET s == IF Paced THEN snapSplit ELSE split
  IN  {s} \cup (IF hseen /\ hvalid # 0 THEN {TRUE} ELSE {})

StoreSplit(s) ==
  IF Paced THEN snapSplit' = s /\ UNCHANGED split
           ELSE split' = s     /\ UNCHANGED snapSplit

(* After n steps the hidden stitch is complete.                            *)
CompletePastEnd(n) == n > PrepSteps         \* mutant: the last step goes unnoticed
CompleteShort(n)   == n >= PrepSteps - 1    \* mutant: handed over one step early
Complete(n)        == n = PrepSteps

(* A complete stitch is handed over together with a completed frame.       *)
HandOverNever == TRUE                       \* mutant: it is never handed over
HandOverWaits == Running

(* nes_gbc_prepare_initial_hstitch_hidden_step: while it holds the host    *)
(* frame (A = 1) nothing is published.                                     *)
PrepHolds(s) ==
  /\ Shape /\ ~hseen /\ s
  /\ \/ /\ hvalid \in {0, 2}   \* 0: only when map $9800 is presented
        /\ steps' = 1 + (IF hvalid = 0 THEN 0 ELSE steps)
        /\ hvalid' = IF Complete(steps') THEN 3 ELSE 2
     \/ hvalid = 3 /\ HandOverWaits /\ UNCHANGED <<hvalid, steps>>

PrepPasses(s) ==
  \/ /\ ~Shape \/ hseen
     /\ UNCHANGED steps
  \/ /\ Shape /\ ~hseen /\ ~s
     /\ steps' = IF hvalid \in {2, 3} THEN 0 ELSE steps
  \/ /\ Shape /\ ~hseen /\ s
     /\ hvalid \in {0, 1} \/ (hvalid = 3 /\ ~HandOverWaits)
     /\ UNCHANGED steps

(* nes_hstitch_valid after a step that passes.                             *)
PassedValid(s) ==
  IF ~Shape \/ hseen \/ hvalid \notin {2, 3} THEN hvalid
  ELSE IF s THEN 1 ELSE 0

(* The mask an early NMI wrote goes live with the VBlank.                  *)
MaskForgotten(frame) == frame               \* mutant: it is forgotten
MaskApplied(frame) ==
  IF maskDeferred THEN [frame EXCEPT !["mask"] = live["mask"]] ELSE frame

(* The end of every VBlank: an interrupted NMI earns a credit instead of   *)
(* an event, an early one is no longer early, a deferred mask goes live.   *)
Tail(frame, event) ==
  /\ pc \notin ClosedWindows
  /\ pending' = (event /\ ~active)
  /\ credit' = (credit \/ active)
  /\ armed' = FALSE
  /\ early' = FALSE
  /\ maskDeferred' = FALSE
  /\ shown' = MaskApplied(frame)
  /\ UNCHANGED <<pc, active, hl, idle, cand, nmiOn, snap, live, writing, done>>

(* The frame is published.  nes_video_update_horizontal_stitch, part of    *)
(* the commit, settles nes_hstitch_valid.                                  *)
CommitWith(s) ==
  /\ ~Running /\ PrepPasses(s)
  /\ Tail([c \in Chans |-> IF c \in FrameDirty THEN FrameData[c] ELSE shown[c]], TRUE)
  /\ StoreSplit(s)
  /\ IF Paced THEN snapDirty' = {} /\ UNCHANGED dirty
              ELSE dirty' = {}     /\ UNCHANGED snapDirty
  /\ snapValid' = FALSE
  /\ unpublished' = FALSE
  /\ hvalid' = IF Vertical /\ s THEN 1 ELSE 0
  /\ hseen' = (hseen \/ (Vertical /\ s))

(* The NMI still runs and no snapshot waits: the old frame stays.          *)
SkipWith(s) ==
  /\ Running /\ PrepPasses(s)
  /\ Tail(shown, FALSE)
  /\ StoreSplit(s)
  /\ hvalid' = PassedValid(s)
  /\ UNCHANGED <<dirty, snapDirty, snapValid, unpublished, hseen>>

HeldForgotten == dirty   \* mutant: the flags of a superseded snapshot are lost
HeldDirty     == IF Paced THEN dirty ELSE FrameDirty

(* The hidden preparation owns this host frame.                            *)
HoldWith(s) ==
  /\ PrepHolds(s)
  /\ Tail(shown, pending)
  /\ StoreSplit(s)
  /\ dirty' = HeldDirty
  /\ snapValid' = Paced
  /\ UNCHANGED <<snapDirty, unpublished, hseen>>

VBlankCommit == \E s \in SplitAfterGrace : CommitWith(s)
VBlankSkip   == \E s \in SplitAfterGrace : SkipWith(s)
VBlankHold   == \E s \in SplitAfterGrace : HoldWith(s)

VBlank == VBlankCommit \/ VBlankSkip \/ VBlankHold

-----------------------------------------------------------------------------
Write == WriteDeferred \/ WriteMask \/ WriteCtrl \/ WriteScroll \/ FirstHiddenChange

(* The rest of a runtime routine the main thread has entered.              *)
Continue ==
  \/ FlagDeferred \/ DecideMask \/ PublishMask \/ DeferMask
  \/ CheckArmed \/ Consume \/ Activate \/ Drop \/ NormalStart \/ EarlyStart
  \/ CopySnapshot \/ CleanLive \/ ValidateSnapshot \/ ForgetUnpublished \/ SetEarly
  \/ MarkUnpublished \/ SpendCredit \/ Arm \/ SetPending

Next == Write \/ Poll \/ Rti \/ Continue \/ VBlank

Spec == Init /\ [][Next]_vars

(* A latched VBlank interrupt is taken at the first instruction outside    *)
(* the closed windows, a runtime routine the main thread has entered is    *)
(* finished, and the NMI handler of a NES game returns.                    *)
Fairness == SF_vars(VBlank) /\ WF_vars(Continue) /\ SF_vars(Rti)

FairSpec == Spec /\ Fairness

-----------------------------------------------------------------------------
(* Every change the game made to a deferred channel and the player does    *)
(* not see yet is still flagged for publication, in the live cells or in   *)
(* the snapshot: no hand-over between the two ever drops one.              *)
NoLostChange ==
  \A c \in Deferred : live[c] # shown[c] =>
     \/ c \in dirty
     \/ c \in snapDirty /\ (snapValid \/ pc \in {"clean", "valid"})
     \/ pc = "flag" /\ writing = c

(* The same for PPUMASK, whose writes take three different ways out.       *)
NoLostMask ==
  live["mask"] # shown["mask"] =>
     \/ "mask" \in dirty
     \/ "mask" \in snapDirty /\ (snapValid \/ pc \in {"clean", "valid"})
     \/ maskDeferred
     \/ pc \in MaskPCs

(* An early start happens only in the idle loop, never in the middle of    *)
(* mainline work (nes_poll_nmi_hl).                                        *)
EarlyStartAtIdle == pc = "copy" => hl = idle

(* "NMI started mid-scanout (no VBlank since)" and "a host VBlank elapsed  *)
(* while an NMI was active" (io.asm) are not both true of one NMI.  While  *)
(* the idle PC is unknown the credit may stem from an older NMI.           *)
EarlyHasNoCredit == early /\ active /\ idle # NoPC => ~credit

(* The stitched surface goes live complete, and together with a published  *)
(* frame, never half-built (nes_gbc_prepare_initial_hstitch_hidden_step).  *)
StitchGoesLiveComplete ==
  [][hvalid # 1 /\ hvalid' = 1 =>
       /\ hvalid # 2
       /\ hvalid = 3 => steps = PrepSteps
       /\ ~unpublished' /\ ~snapValid']_vars

(* A host frame withheld by the preparation leaves every flagged change    *)
(* flagged, in the cells or in a valid snapshot.                           *)
HeldFrameStaysOwed ==
  [][hvalid' \in {2, 3} /\ pc' = pc =>
       FrameDirty \subseteq dirty' \cup (IF snapValid' THEN snapDirty' ELSE {})]_vars

(* Pacing implements atomic publication of completed frames.               *)
Atomic == INSTANCE AtomicFrames WITH
  Channels <- Deferred,
  live     <- [c \in Deferred |-> live[c]],
  done     <- done,
  shown    <- [c \in Deferred |-> shown[c]],
  open     <- active,
  inflight <- IF pc = "flag" /\ ~active THEN {writing} ELSE {}

RefinesAtomicFrames == Atomic!Spec

(* A completed frame reaches the display, or a newer one replaces it.      *)
EventuallyShown ==
  \A c \in Deferred : \A v \in Values :
    (done[c] = v /\ shown[c] # v) ~> (shown[c] = v \/ done[c] # v)

(* The hidden preparation ends: it is handed over or abandoned, and cannot *)
(* withhold the display forever.                                           *)
PreparationEnds == (hvalid \in {2, 3}) ~> (hvalid \notin {2, 3})
=============================================================================
