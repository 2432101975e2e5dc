------------------------------ MODULE OamPages ------------------------------
(***************************************************************************)
(* The sprite page under frame pacing (runtime/video.asm, ppu.asm,         *)
(* cpu.asm, main.asm).  Two pages hold projected sprites.  The main thread *)
(* projects the virtual OAM into the live page.  A snapshot takes the live *)
(* page instead of copying it; the live side moves to the other page,      *)
(* which is stale ("true contents are the pace page") until the next       *)
(* projection, and whoever needs it first resolves that.                   *)
(*                                                                         *)
(* Composed with FramePacing, whose channel "sprites" is the virtual OAM.  *)
(* The sprites are written by NMI code only: a game that writes OAM from   *)
(* its mainline code can have a half projected page published.             *)
(***************************************************************************)
EXTENDS FramePacing

CONSTANT Torn   \* contents of a page that is half projected

ASSUME SpritesAssumption ==
  /\ Deferred = {"sprites"} /\ Torn \notin Values
  /\ ~Vertical /\ ~Shape

(* The snapshot takes the page in one step.                                *)
ASSUME SnapshotUninterrupted == {"start", "copy", "clean", "valid"} \subseteq ClosedWindows

VARIABLES
  page,      \* contents of nes_gbc_oam_shadow and nes_pace_oam
  livePage,  \* nes_oam_live_page
  pacePage,  \* nes_oam_pace_page
  dmaPage,   \* nes_oam_dma_page
  stale,     \* nes_oam_live_stale
  ready,     \* nes_oam_shadow_ready
  snapReady, \* the same cell in nes_pace_snap
  oam        \* the hardware's OAM

pages    == <<page, livePage, pacePage, dmaPage, stale, ready, snapReady>>
pageVars == <<vars, pages, oam>>

Pages == {"shadow", "pace"}

Image == live["sprites"]

PagesInit ==
  /\ Init
  /\ page = [p \in Pages |-> Image] /\ oam = Image
  /\ livePage = "shadow" /\ dmaPage = "shadow" /\ pacePage = "pace"
  /\ stale = FALSE /\ ready = FALSE /\ snapReady = FALSE

-----------------------------------------------------------------------------
Core == <<poll, pace, prep, shown, done, dirty>>

StoreOam(next) ==
  /\ active
  /\ Goto("run", next)
  /\ writing' = "sprites"
  /\ \E v \in Values : live' = [live EXCEPT !["sprites"] = v]
  /\ UNCHANGED <<Core, pages, oam>>

(* $4014: the virtual OAM is replaced and projected at once.  A change of  *)
(* PPUCTRL's sprite bits projects it again too (the same value).           *)
OamDma == StoreOam("project")

BeginProjection ==
  /\ Goto("project", "emit")
  /\ stale' = FALSE
  /\ page' = [page EXCEPT ![livePage] = Torn]
  /\ UNCHANGED <<Core, live, writing, livePage, pacePage, dmaPage, ready, snapReady, oam>>

EndProjection ==
  /\ Goto("emit", "flag")
  /\ page' = [page EXCEPT ![livePage] = Image]
  /\ ready' = TRUE
  /\ UNCHANGED <<Core, live, writing, livePage, pacePage, dmaPage, stale, snapReady, oam>>

(* $2004: the projected page no longer matches.                            *)
OamData == StoreOam("unready")

Unready ==
  /\ Goto("unready", "flag")
  /\ ready' = FALSE
  /\ UNCHANGED <<Core, live, writing, page, livePage, pacePage, dmaPage, stale, snapReady, oam>>

-----------------------------------------------------------------------------
(* nes_oam_resolve_stale.                                                  *)
ResolvedNever == livePage                   \* mutant: a stale page is used
Resolved      == IF stale THEN pacePage ELSE livePage

SamePage(p)  == p                           \* mutant: the live side does not move
OtherPage(p) == IF p = "shadow" THEN "pace" ELSE "shadow"

(* The projection that a commit or a snapshot makes up for.                *)
Projected(isReady) == IF isReady THEN page ELSE [page EXCEPT ![livePage] = Image]
Target(isReady)    == IF isReady THEN Resolved ELSE livePage

SnapshotPage ==
  /\ CopySnapshot
  /\ IF "sprites" \in dirty
       THEN /\ page' = Projected(ready)
            /\ pacePage' = Target(ready)
            /\ livePage' = OtherPage(Target(ready))
            /\ dmaPage' = livePage'
            /\ stale' = TRUE /\ ready' = TRUE /\ snapReady' = TRUE
       ELSE /\ snapReady' = ready
            /\ UNCHANGED <<page, livePage, pacePage, dmaPage, stale, ready>>
  /\ UNCHANGED oam

FrameReady == IF Paced THEN snapReady ELSE ready

Resolves == stale /\ FrameReady

(* The page nes_video_sync_oam_hw copies.                                  *)
DmaSource == IF Paced \/ Resolves THEN pacePage ELSE dmaPage

(* The DMA page follows the live page again after a paced publication.     *)
DmaKept(p)     == IF Paced THEN pacePage ELSE p   \* mutant: it is not restored
DmaRestored(p) == IF Paced THEN livePage' ELSE p

(* The sprites of a commit.                                                *)
CommitPage ==
  /\ VBlankCommit
  /\ IF "sprites" \in FrameDirty
       THEN /\ page' = Projected(FrameReady)
            /\ oam' = page'[DmaSource]
            /\ livePage' = Target(FrameReady)
            /\ dmaPage' = DmaRestored(IF Resolves THEN pacePage ELSE dmaPage)
            /\ stale' = FALSE
            /\ IF Paced THEN snapReady' = TRUE /\ UNCHANGED ready
                        ELSE ready' = TRUE /\ UNCHANGED snapReady
       ELSE /\ UNCHANGED <<page, livePage, stale, ready, snapReady, oam>>
            /\ dmaPage' = DmaRestored(dmaPage)
  /\ UNCHANGED pacePage

(* The rest of the pacing protocol: routines the main thread has entered,  *)
(* and the other steps.                                                    *)
Routines ==
  \/ FlagDeferred \/ CheckArmed \/ Consume \/ Activate \/ Drop \/ NormalStart \/ EarlyStart
  \/ CleanLive \/ ValidateSnapshot \/ ForgetUnpublished \/ SetEarly
  \/ MarkUnpublished \/ SpendCredit \/ Arm \/ SetPending

Elsewhere ==
  /\ WriteCtrl \/ Poll \/ Rti \/ Routines \/ VBlankSkip
  /\ UNCHANGED <<pages, oam>>

PagesNext ==
  \/ OamDma \/ BeginProjection \/ EndProjection \/ OamData \/ Unready
  \/ SnapshotPage \/ CommitPage \/ Elsewhere

PagesSpec == PagesInit /\ [][PagesNext]_pageVars

(* The fairness of FramePacing, for the steps that also carry the pages.   *)
PagesVBlank   == CommitPage \/ (VBlankSkip /\ UNCHANGED <<pages, oam>>)
PagesContinue ==
  \/ BeginProjection \/ EndProjection \/ Unready \/ SnapshotPage
  \/ Routines /\ UNCHANGED <<pages, oam>>
PagesRti      == Rti /\ UNCHANGED <<pages, oam>>

PagesFairness == SF_pageVars(PagesVBlank) /\ WF_pageVars(PagesContinue) /\ SF_pageVars(PagesRti)

PagesFairSpec == PagesSpec /\ PagesFairness

-----------------------------------------------------------------------------
(* The cells of the page protocol, and "Non-paced DMA source follows the   *)
(* live page" (nes_pace_take_snapshot).                                    *)
PagesTypeOK ==
  /\ pc \in PCs \cup {"project", "emit", "unready"}
  /\ page \in [Pages -> Values \cup {Torn}] /\ oam \in Values \cup {Torn}
  /\ livePage \in Pages /\ pacePage \in Pages
  /\ stale \in BOOLEAN /\ ready \in BOOLEAN /\ snapReady \in BOOLEAN
  /\ dmaPage = livePage

(* The two pages implement the deferred channel "sprites" of FramePacing:  *)
(* the hardware holds the sprites of the frame that is shown, whole, never *)
(* a half projected page and never one of an older frame.                  *)
HardwareShowsFrame == oam = shown["sprites"]

(* The page of an unpublished snapshot keeps the snapshot's sprites while  *)
(* the next NMI projects its own ("nobody writes the pace page but         *)
(* projectors that owned it as live", cpu.asm).                            *)
SnapshotPageKept ==
  snapValid /\ "sprites" \in snapDirty => page[pacePage] = snap["sprites"]
=============================================================================
