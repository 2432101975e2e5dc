------------------------------ MODULE NmiRate ------------------------------
(***************************************************************************)
(* FramePacing with a history variable that relates NMI starts to host     *)
(* VBlanks.                                                                *)
(***************************************************************************)
EXTENDS FramePacing

CONSTANT SlackCap   \* bound of slack

ASSUME SlackCapAssumption == SlackCap \in Nat \ {0}

VARIABLE slack      \* VBlanks minus NMI starts so far, saturating at SlackCap

rateVars == <<vars, slack>>

RateInit == Init /\ slack = 0

CountVBlank ==
  /\ VBlank
  /\ slack' = IF slack < SlackCap THEN slack + 1 ELSE slack

CountStart == Activate /\ slack' = slack - 1

CountNothing ==
  /\ Write \/ Poll \/ Rti \/ Drop \/ (Continue /\ pc # "activate")
  /\ UNCHANGED slack

RateNext == CountVBlank \/ CountStart \/ CountNothing

RateSpec == RateInit /\ [][RateNext]_rateVars
RateFairSpec == RateSpec /\ Fairness

(* NMI starts never outnumber host VBlanks, whatever mix of events, armed  *)
(* starts and credits delivered them (main.asm: "Never more than one NMI   *)
(* start per host VBlank (60 NES fps cap)"); and because slack saturates,  *)
(* no idle stretch is saved up for a burst of more than SlackCap starts.   *)
StartsWithinVBlanks == slack >= 0
=============================================================================
