--------------------------- MODULE OamPagesProofs ---------------------------
(***************************************************************************)
(* The sprite pages under frame pacing: the hardware always holds the      *)
(* sprites of the frame that is shown.  The invariant of WindowProofs says *)
(* when a snapshot can wait; here it is what the two pages hold meanwhile. *)
(***************************************************************************)
EXTENDS OamPages, FramePacingProofs

(* Inside a routine that changes the virtual OAM.                          *)
DrawPCs == {"project", "emit", "unready"}

(* The snapshot holds sprites of its own.                                  *)
SnapSprites == SnapHolds /\ "sprites" \in snapDirty

(* Only an NMI draws sprites, and a projection has resolved a stale page.  *)
DrawInv ==
  /\ pc \in DrawPCs => active
  /\ pc = "emit" => ~stale

(* The live side owns a page other than the snapshot's while that one      *)
(* waits; only then can the live page be stale.                            *)
OwnerInv ==
  /\ stale => SnapSprites
  /\ SnapSprites => livePage # pacePage /\ snapReady /\ page[pacePage] = snap["sprites"]

(* A page that counts as projected, and is not being written, is the image *)
(* of the virtual OAM once a stale one has been resolved.                  *)
ImageInv == ready /\ pc \notin DrawPCs => page[Resolved] = Image

PagesInv == SnapshotInv /\ DrawInv /\ OwnerInv /\ ImageInv /\ HardwareShowsFrame
-----------------------------------------------------------------------------
(* Drawing leaves the pacing protocol's cells alone.                       *)
Drawing == OamDma \/ BeginProjection \/ EndProjection \/ OamData \/ Unready

LEMMA DrawingSteps ==
  ASSUME CellsOK, Drawing
  PROVE  /\ CellsOK'
         /\ UNCHANGED <<poll, pace, prep, shown, done, dirty>>
         /\ pc \in {"run"} \cup DrawPCs /\ pc' \in {"flag"} \cup DrawPCs
         /\ UNCHANGED <<livePage, pacePage, dmaPage, snapReady, oam>>
<1> USE DEF Goto, DrawPCs
<1>1. /\ PollOK /\ PaceOK /\ PpuOK /\ PrepOK /\ ViewOK /\ PrepConsistent
      /\ "sprites" \in Chans
  BY SpritesAssumption DEF CellsOK, Chans
<1>2. /\ UNCHANGED <<poll, pace, prep, shown, done, dirty>>
      /\ pc \in {"run"} \cup DrawPCs /\ pc' \in {"flag"} \cup DrawPCs
      /\ UNCHANGED <<livePage, pacePage, dmaPage, snapReady, oam>>
  BY DEF Drawing, OamDma, OamData, StoreOam, BeginProjection, EndProjection, Unready, Core, pages
<1>3. PpuOK'
  <2>1. CASE OamDma \/ OamData
    BY <1>1, <2>1 DEF PpuOK, OamDma, OamData, StoreOam, Core
  <2>2. CASE BeginProjection \/ EndProjection \/ Unready
    BY <1>1, <2>2 DEF PpuOK, BeginProjection, EndProjection, Unready, Core
  <2> QED
    BY <2>1, <2>2 DEF Drawing
<1> QED
  BY <1>1, <1>2, <1>3, GroupsKept DEF CellsOK

(* The other steps are steps of the protocol.                              *)
LEMMA PacingSteps == SnapshotPage \/ CommitPage \/ Elsewhere => Next
  BY DEF SnapshotPage, CommitPage, Elsewhere, Routines, Next, Write, Continue, VBlank

LEMMA PagesCells == CellsOK /\ [PagesNext]_pageVars => CellsOK'
<1>1. CellsOK /\ UNCHANGED pageVars => CellsOK'
  BY CellsNext DEF pageVars
<1> QED
  BY <1>1, DrawingSteps, PacingSteps, CellsNext DEF PagesNext, Drawing

-----------------------------------------------------------------------------
(* The types of the pages.                                                 *)
LEMMA PagesTypes == CellsOK /\ PagesTypeOK /\ [PagesNext]_pageVars => PagesTypeOK'
<1> SUFFICES ASSUME CellsOK, PagesTypeOK, [PagesNext]_pageVars
             PROVE  PagesTypeOK'
  OBVIOUS
<1> USE DEF Pages
<1>1. Image \in Values
  BY SpritesAssumption DEF CellsOK, PpuOK, Chans, Image
<1>2. CASE Drawing
  <2>1. /\ pc' \in PCs \cup {"project", "emit", "unready"}
        /\ UNCHANGED <<livePage, pacePage, dmaPage, snapReady, oam>>
    BY <1>2, DrawingSteps DEF PCs, DrawPCs
  <2>2. page' \in [Pages -> Values \cup {Torn}] /\ stale' \in BOOLEAN /\ ready' \in BOOLEAN
    BY <1>1, <1>2 DEF PagesTypeOK, Drawing, OamDma, OamData, StoreOam, BeginProjection,
       EndProjection, Unready, pages
  <2> QED
    BY <2>1, <2>2 DEF PagesTypeOK
<1>3. ASSUME NEW isReady \in BOOLEAN
      PROVE  Projected(isReady) \in [Pages -> Values \cup {Torn}] /\ Target(isReady) \in Pages
  BY <1>1 DEF PagesTypeOK, Projected, Target, Resolved
<1>4. CASE SnapshotPage
  <2>1. pc' = "clean" /\ UNCHANGED oam
    BY <1>4 DEF SnapshotPage, CopySnapshot, Goto
  <2> QED
    BY <1>3, <1>4, <2>1 DEF PagesTypeOK, SnapshotPage, OtherPage, PCs, SnapPCs
<1>5. CASE CommitPage
  <2>1. pc' = pc
    BY <1>5 DEF CommitPage, VBlankCommit, CommitWith, Tail
  <2>2. FrameReady \in BOOLEAN /\ DmaSource \in Pages
    BY DEF PagesTypeOK, FrameReady, DmaSource
  <2>3. Resolves /\ ~Paced => Target(FrameReady) = pacePage
    BY DEF Resolves, Target, Resolved
  <2>4. ~Resolves => Target(FrameReady) = livePage
    BY DEF Resolves, Target, Resolved
  <2>5. page' \in [Pages -> Values \cup {Torn}] /\ livePage' \in Pages /\ pacePage' = pacePage
    BY <1>3, <1>5, <2>2 DEF PagesTypeOK, CommitPage
  <2>6. oam' \in Values \cup {Torn}
    BY <1>5, <2>2, <2>5 DEF PagesTypeOK, CommitPage
  <2>7. dmaPage' = livePage'
    BY <1>5, <2>3, <2>4 DEF PagesTypeOK, CommitPage, DmaRestored
  <2>8. stale' \in BOOLEAN /\ ready' \in BOOLEAN /\ snapReady' \in BOOLEAN
    BY <1>5 DEF PagesTypeOK, CommitPage
  <2> QED
    BY <2>1, <2>5, <2>6, <2>7, <2>8 DEF PagesTypeOK
<1>6. CASE Elsewhere
  <2>1. UNCHANGED <<pages, oam>>
    BY <1>6 DEF Elsewhere
  <2>2. pc' \in PCs \cup {"project", "emit", "unready"}
    BY <1>6, PacingSteps, PCsNext DEF PagesTypeOK
  <2> QED
    BY <2>1, <2>2 DEF pages, PagesTypeOK
<1>7. CASE UNCHANGED pageVars
  BY <1>7 DEF pageVars, vars, pages, PagesTypeOK
<1> QED
  BY <1>2, <1>4, <1>5, <1>6, <1>7 DEF PagesNext, Drawing
-----------------------------------------------------------------------------
(* What the pages hold.                                                    *)
LEMMA DrawingPages ==
  ASSUME CellsOK, PagesTypeOK, PagesInv, Drawing
  PROVE  PagesInv'
<1> USE DEF DrawPCs, Goto
<1>1. /\ UNCHANGED <<poll, pace, prep, shown, done, dirty>>
      /\ pc \in {"run"} \cup DrawPCs /\ pc' \in {"flag"} \cup DrawPCs
      /\ UNCHANGED <<livePage, pacePage, dmaPage, snapReady, oam>>
  BY DrawingSteps
<1>2. SnapshotInv'
  BY <1>1, SnapshotStays DEF PagesInv, poll, pace, PollPCs, SnapPCs, RtiPCs
<1>3. HardwareShowsFrame'
  BY <1>1 DEF PagesInv, HardwareShowsFrame
<1>4. SnapSprites' <=> SnapSprites
  BY <1>1 DEF SnapSprites, SnapHolds, pace
<1>5. page \in [Pages -> Values \cup {Torn}] /\ livePage \in Pages /\ pacePage \in Pages
  BY DEF PagesTypeOK
<1> SUFFICES DrawInv' /\ OwnerInv' /\ ImageInv'
  BY <1>2, <1>3 DEF PagesInv
<1>6. CASE OamDma \/ OamData
  BY <1>1, <1>4, <1>6 DEF PagesInv, DrawInv, OwnerInv, ImageInv, OamDma, OamData, StoreOam,
     poll, pace, pages
<1>7. CASE BeginProjection
  BY <1>1, <1>4, <1>5, <1>7 DEF PagesInv, DrawInv, OwnerInv, ImageInv, BeginProjection, poll, pace
<1>8. CASE EndProjection
  BY <1>1, <1>4, <1>5, <1>8 DEF PagesInv, DrawInv, OwnerInv, ImageInv, EndProjection,
     Resolved, Image, poll, pace
<1>9. CASE Unready
  BY <1>1, <1>4, <1>9 DEF PagesInv, DrawInv, OwnerInv, ImageInv, Unready, poll, pace
<1> QED
  BY <1>6, <1>7, <1>8, <1>9 DEF Drawing

(* The snapshot takes the projected page; the live side moves away from it.*)
LEMMA SnapshotPages ==
  ASSUME CellsOK, PagesTypeOK, PagesInv, SnapshotPage
  PROVE  PagesInv'
<1> USE DEF DrawPCs, Goto
<1>1. /\ pc = "copy" /\ pc' = "clean" /\ snap' = live /\ snapDirty' = dirty
      /\ UNCHANGED <<poll, ppu, shown, oam, snapValid>>
  BY DEF SnapshotPage, CopySnapshot
<1>2. ~SnapSprites /\ ~stale
  BY <1>1 DEF PagesInv, SnapshotInv, Taking, SnapPCs, OwnerInv, SnapSprites, SnapHolds
<1>3. SnapshotInv'
  BY SnapshotMain DEF PagesInv, SnapshotPage, Continue
<1>4. HardwareShowsFrame'
  BY <1>1 DEF PagesInv, HardwareShowsFrame
<1>5. DrawInv'
  BY <1>1 DEF DrawInv
<1>6. SnapSprites' <=> "sprites" \in dirty
  BY <1>1 DEF SnapSprites, SnapHolds
<1>7. Image' = Image /\ snap'["sprites"] = Image
  BY <1>1 DEF Image, ppu
<1>8. CASE "sprites" \in dirty
  <2>1. /\ page' = Projected(ready)
        /\ pacePage' = Target(ready) /\ livePage' = OtherPage(Target(ready))
        /\ stale' = TRUE /\ ready' = TRUE /\ snapReady' = TRUE
    BY <1>8 DEF SnapshotPage
  <2>2. Target(ready) = livePage
    BY <1>2 DEF Target, Resolved
  <2>3. page'[livePage] = Image
    <3>1. CASE ready
      BY <1>1, <1>2, <2>1, <3>1 DEF Projected, PagesInv, ImageInv, Resolved
    <3>2. CASE ~ready
      BY <2>1, <3>2 DEF Projected, PagesTypeOK
    <3> QED
      BY <3>1, <3>2
  <2>4. livePage' # livePage /\ pacePage' = livePage
    BY <2>1, <2>2 DEF OtherPage, PagesTypeOK, Pages
  <2>5. OwnerInv' /\ ImageInv'
    BY <1>6, <1>7, <1>8, <2>1, <2>3, <2>4 DEF OwnerInv, ImageInv, Resolved
  <2> QED
    BY <1>3, <1>4, <1>5, <2>5 DEF PagesInv
<1>9. CASE "sprites" \notin dirty
  <2>1. UNCHANGED <<page, livePage, pacePage, dmaPage, stale, ready>>
    BY <1>9 DEF SnapshotPage
  <2>2. OwnerInv' /\ ImageInv'
    BY <1>1, <1>2, <1>6, <1>7, <1>9, <2>1 DEF PagesInv, OwnerInv, ImageInv, Resolved
  <2> QED
    BY <1>3, <1>4, <1>5, <2>2 DEF PagesInv
<1> QED
  BY <1>8, <1>9

(* What a commit does to the cells.                                        *)
LEMMA CommitCells ==
  ASSUME CellsOK, VBlankCommit
  PROVE  /\ pc \notin {"start", "copy", "clean", "valid"}
         /\ UNCHANGED <<pc, active, live>>
         /\ ~snapValid'
         /\ ~Paced => ~active
         /\ shown'["sprites"] = IF "sprites" \in FrameDirty THEN FrameData["sprites"]
                                                            ELSE shown["sprites"]
<1>1. PICK s \in SplitAfterGrace : CommitWith(s)
  BY DEF VBlankCommit
<1> DEFINE F == [c \in Chans |-> IF c \in FrameDirty THEN FrameData[c] ELSE shown[c]]
<1>2. shown' = IF maskDeferred THEN [F EXCEPT !["mask"] = live["mask"]] ELSE F
  BY <1>1 DEF CommitWith, Tail, MaskApplied
<1>3. "sprites" \in Chans /\ "mask" # "sprites"
  BY SpritesAssumption, ConstantsAssumption DEF Chans
<1>4. shown'["sprites"] = F["sprites"]
  BY <1>2, <1>3
<1>5. F["sprites"] = IF "sprites" \in FrameDirty THEN FrameData["sprites"] ELSE shown["sprites"]
  BY <1>3
<1>6. pc \notin ClosedWindows /\ UNCHANGED <<pc, active, live>> /\ ~snapValid' /\ ~Running
  BY <1>1 DEF CommitWith, Tail
<1> HIDE DEF F
<1> QED
  BY <1>4, <1>5, <1>6, SnapshotUninterrupted DEF Running, Paced

(* A commit shows the page it would have to: the snapshot's, or that of    *)
(* the virtual OAM.                                                        *)
LEMMA CommitPages ==
  ASSUME CellsOK, PagesTypeOK, PagesInv, CommitPage
  PROVE  PagesInv'
<1>1. /\ pc \notin {"start", "copy", "clean", "valid"}
      /\ UNCHANGED <<pc, active, live>>
      /\ ~snapValid'
      /\ ~Paced => ~active
      /\ shown'["sprites"] = IF "sprites" \in FrameDirty THEN FrameData["sprites"]
                                                         ELSE shown["sprites"]
  BY CommitCells DEF CommitPage
<1>2. SnapshotInv'
  BY SnapshotVBlank, SpritesAssumption, SnapshotUninterrupted
  DEF PagesInv, CommitPage, VBlank, Proviso
<1>3. ~SnapSprites'
  BY <1>1 DEF SnapSprites, SnapHolds
<1>4. stale => "sprites" \in FrameDirty
  BY <1>1 DEF PagesInv, OwnerInv, SnapSprites, SnapHolds, FrameDirty
<1>5. stale' = FALSE
  BY <1>4 DEF CommitPage, PagesTypeOK
<1>6. Image' = Image
  BY <1>1 DEF Image
<1>7. CASE "sprites" \notin FrameDirty
  <2>1. UNCHANGED <<page, livePage, pacePage, stale, ready, oam>>
    BY <1>7 DEF CommitPage
  <2> QED
    BY <1>1, <1>2, <1>3, <1>5, <1>6, <1>7, <2>1
    DEF PagesInv, DrawInv, OwnerInv, ImageInv, Resolved, HardwareShowsFrame
<1>8. CASE "sprites" \in FrameDirty /\ Paced
  <2>1. snapValid /\ FrameData = snap /\ "sprites" \in snapDirty /\ FrameReady = snapReady
    BY <1>8 DEF Paced, FrameData, FrameDirty, FrameReady
  <2>2. snapReady /\ page[pacePage] = snap["sprites"]
    BY <2>1 DEF PagesInv, OwnerInv, SnapSprites, SnapHolds
  <2>3. /\ page' = page /\ oam' = page[pacePage]
        /\ livePage' = Resolved /\ ready' = ready /\ pacePage' = pacePage
    BY <1>8, <2>1, <2>2 DEF CommitPage, Projected, Target, DmaSource
  <2>4. HardwareShowsFrame'
    BY <1>1, <1>8, <2>1, <2>2, <2>3 DEF HardwareShowsFrame
  <2> QED
    BY <1>1, <1>2, <1>3, <1>5, <1>6, <2>3, <2>4
    DEF PagesInv, DrawInv, OwnerInv, ImageInv, Resolved
<1>9. CASE "sprites" \in FrameDirty /\ ~Paced
  <2>1. /\ FrameData = live /\ FrameReady = ready /\ pc \notin DrawPCs
        /\ page' = Projected(ready) /\ livePage' = Target(ready)
        /\ oam' = page'[IF Resolves THEN pacePage ELSE dmaPage]
    BY <1>1, <1>9 DEF FrameData, FrameReady, CommitPage, DmaSource, PagesInv, DrawInv
  <2>2. (IF Resolves THEN pacePage ELSE dmaPage) = Target(ready)
    BY <2>1 DEF Resolves, Target, Resolved, PagesTypeOK
  <2>3. page'[Target(ready)] = Image
    <3>1. CASE ready
      BY <2>1, <3>1 DEF Projected, Target, PagesInv, ImageInv
    <3>2. CASE ~ready
      BY <2>1, <3>2 DEF Projected, Target, PagesTypeOK
    <3> QED
      BY <3>1, <3>2
  <2>4. HardwareShowsFrame'
    BY <1>1, <1>9, <2>1, <2>2, <2>3 DEF HardwareShowsFrame, Image
  <2> QED
    BY <1>1, <1>2, <1>3, <1>5, <1>6, <2>1, <2>3, <2>4
    DEF PagesInv, DrawInv, OwnerInv, ImageInv, Resolved
<1> QED
  BY <1>7, <1>8, <1>9

(* The rest of the protocol neither draws nor shows anything.              *)
LEMMA ElsewhereCells ==
  ASSUME CellsOK, Elsewhere
  PROVE  /\ UNCHANGED <<live, snap, snapDirty>>
         /\ shown'["sprites"] = shown["sprites"]
         /\ SnapHolds' <=> SnapHolds
         /\ pc' \in DrawPCs \/ pc \in DrawPCs => UNCHANGED <<pc, active>>
<1> USE DEF Goto, SnapHolds, DrawPCs
<1>1. CASE WriteCtrl \/ Poll \/ Rti \/ FlagDeferred
  BY <1>1 DEF WriteCtrl, Poll, Rti, FlagDeferred, pace, ppu
<1>2. CASE CheckArmed \/ Consume \/ Activate \/ Drop \/ NormalStart \/ EarlyStart
  BY <1>2 DEF CheckArmed, Consume, Activate, Drop, NormalStart, EarlyStart, pace, ppu
<1>3. CASE CleanLive \/ ValidateSnapshot \/ ForgetUnpublished \/ SetEarly
  BY <1>3 DEF CleanLive, ValidateSnapshot, ForgetUnpublished, SetEarly, pace, ppu
<1>4. CASE MarkUnpublished \/ SpendCredit \/ Arm \/ SetPending
  BY <1>4 DEF MarkUnpublished, SpendCredit, Arm, SetPending, pace, ppu
<1>5. CASE VBlankSkip
  <2>1. PICK s \in SplitAfterGrace : SkipWith(s)
    BY <1>5 DEF VBlankSkip
  <2>2. UNCHANGED <<live, snap, snapDirty, pc, active, snapValid>> /\ shown' = MaskApplied(shown)
    BY <2>1 DEF SkipWith, Tail
  <2>3. "mask" # "sprites" /\ shown \in [Chans -> Values]
    BY SpritesAssumption, ConstantsAssumption DEF CellsOK, ViewOK
  <2>4. shown'["sprites"] = shown["sprites"]
    BY <2>2, <2>3 DEF MaskApplied
  <2> QED
    BY <2>2, <2>4
<1> QED
  BY <1>1, <1>2, <1>3, <1>4, <1>5 DEF Elsewhere, Routines

LEMMA ElsewherePages ==
  ASSUME CellsOK, PagesTypeOK, PagesInv, Elsewhere
  PROVE  PagesInv'
<1>1. CASE VBlankSkip
  <2>1. SnapshotInv'
    BY <1>1, SnapshotVBlank, SpritesAssumption, SnapshotUninterrupted
    DEF PagesInv, VBlank, Proviso
  <2> QED
    BY <2>1, ElsewhereCells
    DEF Elsewhere, pages, PagesInv, DrawInv, OwnerInv, ImageInv, HardwareShowsFrame,
        SnapSprites, Image, Resolved, DrawPCs
<1>2. CASE ~VBlankSkip
  <2>1. SnapshotInv'
    BY <1>2, SnapshotMain DEF PagesInv, Elsewhere, Routines, Write, Continue
  <2> QED
    BY <2>1, ElsewhereCells
    DEF Elsewhere, pages, PagesInv, DrawInv, OwnerInv, ImageInv, HardwareShowsFrame,
        SnapSprites, Image, Resolved, DrawPCs
<1> QED
  BY <1>1, <1>2

-----------------------------------------------------------------------------
PagesSafe == CellsOK /\ PagesTypeOK /\ PagesInv

LEMMA PagesSafeInit == PagesInit => PagesSafe
<1> SUFFICES ASSUME PagesInit PROVE PagesSafe
  OBVIOUS
<1>1. CellsOK
  BY CellsInit DEF PagesInit
<1>2. Image \in Values
  BY <1>1, SpritesAssumption DEF CellsOK, PpuOK, Chans, Image
<1>3. PagesTypeOK
  BY <1>2 DEF PagesInit, Init, PagesTypeOK, Pages, PCs
<1>4. SnapshotInv
  BY LossInit DEF PagesInit, LossInv
<1>5. shown = live /\ pc = "run" /\ ~snapValid
  BY DEF PagesInit, Init
<1> QED
  BY <1>1, <1>3, <1>4, <1>5
  DEF PagesInit, PagesSafe, PagesInv, DrawInv, OwnerInv, ImageInv, HardwareShowsFrame,
      DrawPCs, SnapSprites, SnapHolds, Image

LEMMA PagesSafeNext == PagesSafe /\ [PagesNext]_pageVars => PagesSafe'
<1> SUFFICES ASSUME PagesSafe, [PagesNext]_pageVars
             PROVE  PagesInv'
  BY PagesCells, PagesTypes DEF PagesSafe
<1>1. CASE PagesNext
  BY <1>1, DrawingPages, SnapshotPages, CommitPages, ElsewherePages
  DEF PagesSafe, PagesNext, Drawing
<1>2. CASE UNCHANGED pageVars
  BY <1>2 DEF pageVars, vars, poll, pace, ppu, pages, PagesSafe, PagesInv, SnapshotInv,
     Taking, Early, DrawInv, OwnerInv, SnapSprites, SnapHolds, ImageInv, Resolved, Image,
     HardwareShowsFrame
<1> QED
  BY <1>1, <1>2

(* The page protocol keeps its types, and the DMA source the live page.    *)
THEOREM PagesTypeCorrectness == PagesSpec => []PagesTypeOK
<1>1. PagesSafe => PagesTypeOK
  BY DEF PagesSafe
<1> QED
  BY <1>1, PagesSafeInit, PagesSafeNext, PTL DEF PagesSpec

(* Whatever is drawn, polled and interrupted, and however early NMIs and   *)
(* VBlanks interleave, the hardware's OAM is the sprites of the frame that *)
(* is shown: the page of that frame, projected as a whole.                 *)
THEOREM SpritesOfTheFrame == PagesSpec => []HardwareShowsFrame
<1>1. PagesSafe => HardwareShowsFrame
  BY DEF PagesSafe, PagesInv
<1> QED
  BY <1>1, PagesSafeInit, PagesSafeNext, PTL DEF PagesSpec

(* No NMI that runs while a snapshot waits projects into its page.         *)
THEOREM SnapshotKeepsItsPage == PagesSpec => []SnapshotPageKept
<1>1. PagesSafe => SnapshotPageKept
  BY DEF PagesSafe, PagesInv, OwnerInv, SnapSprites, SnapHolds, SnapshotPageKept
<1> QED
  BY <1>1, PagesSafeInit, PagesSafeNext, PTL DEF PagesSpec

=============================================================================
