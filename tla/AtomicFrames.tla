---------------------------- MODULE AtomicFrames ----------------------------
(***************************************************************************)
(* What frame pacing promises the player: the display only ever moves from *)
(* one completed NES frame to a later completed one, all channels at once, *)
(* however many host frames the drawing of the next frame takes.           *)
(*                                                                         *)
(* Mainline code may also write a channel between two frames; until such a *)
(* write is settled the channel may show its old value or the new one.     *)
(***************************************************************************)
CONSTANTS Channels, Values

VARIABLES
  live,     \* what the game has drawn
  done,     \* the last completed frame
  shown,    \* what the player sees
  open,     \* a frame is being drawn
  inflight  \* channels mainline code is writing

vars == <<live, done, shown, open, inflight>>

Init ==
  /\ \E v \in Values : live = [c \in Channels |-> v]
  /\ done = live /\ shown = live
  /\ open = FALSE /\ inflight = {}

Draw(c) ==
  /\ \E v \in Values : live' = [live EXCEPT ![c] = v]
  /\ inflight' = IF open THEN {} ELSE {c}
  /\ UNCHANGED <<done, shown, open>>

Settle ==
  /\ done' = [c \in Channels |-> IF c \in inflight THEN live[c] ELSE done[c]]
  /\ inflight' = {}
  /\ UNCHANGED <<live, shown, open>>

Begin == ~open /\ open' = TRUE /\ inflight = {} /\ UNCHANGED <<live, done, shown, inflight>>

Finish ==
  /\ open /\ open' = FALSE
  /\ done' = live
  /\ UNCHANGED <<live, shown, inflight>>

Publish ==
  /\ shown' \in [Channels -> Values]
  /\ \A c \in Channels \ inflight : shown'[c] = done[c]
  /\ \A c \in inflight : shown'[c] \in {shown[c], live[c]}
  /\ UNCHANGED <<live, done, open, inflight>>

Next == (\E c \in Channels : Draw(c)) \/ Settle \/ Begin \/ Finish \/ Publish

Spec == Init /\ [][Next]_vars
=============================================================================
