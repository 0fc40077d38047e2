----------------------------- MODULE LatestFrame -----------------------------
(* What the host's frame exchange promises (src/docs/design.md, "Host          *)
(* application"): the worker publishes frames one at a time, and the UI loop    *)
(* presents the newest snapshot.  Nothing is queued and nothing is repeated     *)
(* out of order.                                                                *)
EXTENDS Naturals

VARIABLES
  published,   \* the number of the newest published frame
  taken        \* the number of the frame the UI last took

Init == published = 0 /\ taken = 0

Publish == published' = published + 1 /\ UNCHANGED taken
Take    == taken' = published /\ UNCHANGED published

Next == Publish \/ Take

Spec == Init /\ [][Next]_<<published, taken>>
==============================================================================
