--------------------------- MODULE MCFrameExchange ---------------------------
(* Four frames: enough for the worker to publish twice while the UI draws one *)
(* snapshot, and for every index to visit every snapshot.                     *)
EXTENDS FrameExchange

MCMaxFrame == 4
==============================================================================
