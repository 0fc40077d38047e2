---------------------------- MODULE FrameExchange ----------------------------
(***************************************************************************)
(* The exchange of finished frames between lib8bit's emulation worker and  *)
(* its UI thread (src/app/app.cpp): three snapshots and the indices write, *)
(* ready and read; the coalesced UI tick the worker posts after a frame;   *)
(* the notices that travel with it; pause, and the shutdown that joins the *)
(* worker.                                                                 *)
(*                                                                         *)
(* A snapshot is the number of the frame its pixels were copied from.  A   *)
(* section under g_frame_mutex is one step; what the code does outside the *)
(* mutex, and each access of an atomic, is a step of its own.              *)
(***************************************************************************)
EXTENDS Naturals

CONSTANT MaxFrame      \* bounds the number of frames the worker emulates
ASSUME MaxFrameIsNat == MaxFrame \in Nat

VARIABLES
  slot,          \* g_frames: snapshot -> the frame its pixels show
  write, ready, read, fresh,
  emulated,      \* how many frames the machine has run
  worker,        \* where emulation_worker is
  sidStopped,    \* its local sid_stopped
  ui,            \* where the UI thread is
  posted,        \* UI tasks of request_ui_tick not yet begun
  tickPending,   \* g_ui_tick_pending
  notices,       \* "sid": g_sid_stopped_pending, "audio": g_audio_failure_pending
  sized,         \* g_client is not empty
  invalid,       \* the window awaits a repaint
  shown,         \* the snapshot last drawn
  paused, stopping, shuttingDown

buffers == <<slot, write, ready, read, fresh>>
flags   == <<paused, stopping, shuttingDown>>
vars    == <<buffers, emulated, worker, sidStopped, ui, posted, tickPending,
             notices, sized, invalid, shown, flags>>

Slots == 0..2

WorkerAt == {"loop", "copying", "copied", "published", "request", "posting", "done"}
UiAt     == {"idle", "tick", "audio", "invalidate", "drawing", "joining", "closed"}

Init ==
  /\ slot = [i \in Slots |-> 0]
  /\ write = 0 /\ ready = 1 /\ read = 2 /\ fresh = FALSE
  /\ emulated = 0
  /\ worker = "loop" /\ sidStopped = FALSE
  /\ ui = "idle" /\ posted = 0 /\ tickPending = FALSE /\ notices = {}
  /\ sized = FALSE /\ invalid = FALSE /\ shown = 0
  /\ paused = FALSE /\ stopping = FALSE /\ shuttingDown = FALSE

-----------------------------------------------------------------------------
(* The worker. *)

WorkerGoes(from, to) == worker = from /\ worker' = to

\* Mutation: the pause is looked at before the stop.
WorkerStops_PauseFirst ==
  /\ stopping /\ ~paused
  /\ WorkerGoes("loop", "done")
  /\ UNCHANGED <<buffers, emulated, sidStopped, ui, posted, tickPending, notices,
                 sized, invalid, shown, flags>>

\* The loop head, or the check of g_worker_stop under the machine mutex.
WorkerStops ==
  /\ stopping
  /\ WorkerGoes("loop", "done")
  /\ UNCHANGED <<buffers, emulated, sidStopped, ui, posted, tickPending, notices,
                 sized, invalid, shown, flags>>

\* Under the machine mutex: one frame is emulated, an audio failure may be noticed,
\* and the copy of the frame buffer into the write snapshot begins.
WorkerEmulates ==
  /\ ~stopping /\ ~paused
  /\ emulated < MaxFrame
  /\ WorkerGoes("loop", "copying")
  /\ emulated' = emulated + 1
  /\ \E rejected \in BOOLEAN : notices' = IF rejected THEN notices \cup {"audio"} ELSE notices
  /\ UNCHANGED <<buffers, sidStopped, ui, posted, tickPending, sized, invalid, shown, flags>>

\* The copy ends; a tune may have stopped itself during the frame.
WorkerCopies ==
  /\ WorkerGoes("copying", "copied")
  /\ slot' = [slot EXCEPT ![write] = emulated]
  /\ sidStopped' \in BOOLEAN
  /\ UNCHANGED <<write, ready, read, fresh, emulated, ui, posted, tickPending, notices,
                 sized, invalid, shown, flags>>

\* Mutation: the frame is offered to the UI without giving the write snapshot away.
WorkerPublishes_NoSwap ==
  /\ WorkerGoes("copied", "published")
  /\ ready' = write /\ fresh' = TRUE
  /\ UNCHANGED <<slot, write, read, emulated, sidStopped, ui, posted, tickPending, notices,
                 sized, invalid, shown, flags>>
WorkerPublishes ==
  /\ WorkerGoes("copied", "published")
  /\ write' = ready /\ ready' = write /\ fresh' = TRUE
  /\ UNCHANGED <<slot, read, emulated, sidStopped, ui, posted, tickPending, notices,
                 sized, invalid, shown, flags>>

WorkerNotices ==
  /\ WorkerGoes("published", "request")
  /\ notices' = IF sidStopped THEN notices \cup {"sid"} ELSE notices
  /\ UNCHANGED <<buffers, emulated, sidStopped, ui, posted, tickPending, sized, invalid, shown, flags>>

\* request_ui_tick: g_ui_tick_pending.exchange(true), then run_ui unless a tick is pending.
WorkerRequests ==
  /\ worker = "request"
  /\ worker' = IF tickPending THEN "loop" ELSE "posting"
  /\ tickPending' = TRUE
  /\ UNCHANGED <<buffers, emulated, sidStopped, ui, posted, notices, sized, invalid, shown, flags>>

WorkerPosts ==
  /\ WorkerGoes("posting", "loop")
  /\ posted' = posted + 1
  /\ UNCHANGED <<buffers, emulated, sidStopped, ui, tickPending, notices, sized, invalid, shown, flags>>

Worker ==
  \/ WorkerStops \/ WorkerEmulates \/ WorkerCopies \/ WorkerPublishes
  \/ WorkerNotices \/ WorkerRequests \/ WorkerPosts

-----------------------------------------------------------------------------
(* The UI thread. *)

UiGoes(from, to) == ui = from /\ ui' = to

\* Mutation: the tick does not clear g_ui_tick_pending.
UiTick_NeverClears ==
  /\ posted > 0
  /\ UiGoes("idle", IF shuttingDown THEN "idle" ELSE "tick")
  /\ posted' = posted - 1
  /\ UNCHANGED <<buffers, emulated, worker, sidStopped, tickPending, notices, sized, invalid, shown, flags>>

\* The posted task begins by clearing g_ui_tick_pending; during a shutdown it ends there.
UiTick ==
  /\ posted > 0
  /\ UiGoes("idle", IF shuttingDown THEN "idle" ELSE "tick")
  /\ posted' = posted - 1 /\ tickPending' = FALSE
  /\ UNCHANGED <<buffers, emulated, worker, sidStopped, notices, sized, invalid, shown, flags>>

UiTakesSid ==
  /\ UiGoes("tick", "audio")
  /\ notices' = notices \ {"sid"}
  /\ UNCHANGED <<buffers, emulated, worker, sidStopped, posted, tickPending, sized, invalid, shown, flags>>

UiTakesAudio ==
  /\ UiGoes("audio", "invalidate")
  /\ notices' = notices \ {"audio"}
  /\ UNCHANGED <<buffers, emulated, worker, sidStopped, posted, tickPending, sized, invalid, shown, flags>>

\* Mutation: the tick does not invalidate the window.
UiInvalidates_Forgets ==
  /\ UiGoes("invalidate", "idle")
  /\ UNCHANGED <<buffers, emulated, worker, sidStopped, posted, tickPending, notices, sized, invalid,
                 shown, flags>>

UiInvalidates ==
  /\ UiGoes("invalidate", "idle")
  /\ invalid' = TRUE
  /\ UNCHANGED <<buffers, emulated, worker, sidStopped, posted, tickPending, notices, sized, shown, flags>>

\* Mutation: the swap does not look at fresh.
UiSwaps_Always ==
  /\ invalid /\ sized
  /\ UiGoes("idle", "drawing")
  /\ invalid' = FALSE /\ ready' = read /\ read' = ready /\ fresh' = FALSE
  /\ UNCHANGED <<slot, write, emulated, worker, sidStopped, posted, tickPending, notices,
                 sized, shown, flags>>

\* A repaint: compose() up to the end of its section under the frame mutex.
UiSwaps ==
  /\ invalid /\ sized
  /\ UiGoes("idle", "drawing")
  /\ invalid' = FALSE
  /\ IF fresh THEN ready' = read /\ read' = ready ELSE UNCHANGED <<ready, read>>
  /\ fresh' = FALSE
  /\ UNCHANGED <<slot, write, emulated, worker, sidStopped, posted, tickPending, notices,
                 sized, shown, flags>>

\* A repaint of a window without a client area: compose() returns before it looks for a
\* frame.
UiPaintsNothing ==
  /\ invalid /\ ~sized
  /\ UiGoes("idle", "idle")
  /\ invalid' = FALSE
  /\ UNCHANGED <<buffers, emulated, worker, sidStopped, posted, tickPending, notices, sized,
                 shown, flags>>

\* Mutation: a new size does not invalidate the window.
UiResizes_Forgets ==
  /\ UiGoes("idle", "idle")
  /\ sized' \in BOOLEAN
  /\ UNCHANGED <<buffers, emulated, worker, sidStopped, posted, tickPending, notices, invalid,
                 shown, flags>>

\* handle_size: the window is laid out, minimised or restored.
UiResizes ==
  /\ UiGoes("idle", "idle")
  /\ sized' \in BOOLEAN /\ invalid' = TRUE
  /\ UNCHANGED <<buffers, emulated, worker, sidStopped, posted, tickPending, notices, shown, flags>>

\* The rest of compose(): the read snapshot is drawn without the mutex.
UiDraws ==
  /\ UiGoes("drawing", "idle")
  /\ shown' = slot[read]
  /\ UNCHANGED <<buffers, emulated, worker, sidStopped, posted, tickPending, notices,
                 sized, invalid, flags>>

UiTogglesPause ==
  /\ UiGoes("idle", "idle")
  /\ paused' = ~paused /\ invalid' = TRUE
  /\ UNCHANGED <<buffers, emulated, worker, sidStopped, posted, tickPending, notices, sized, shown,
                 stopping, shuttingDown>>

\* The close message: the worker is told to stop and joined.
UiCloses ==
  /\ ~shuttingDown
  /\ UiGoes("idle", "joining")
  /\ shuttingDown' = TRUE /\ stopping' = TRUE
  /\ UNCHANGED <<buffers, emulated, worker, sidStopped, posted, tickPending, notices, sized, invalid,
                 shown, paused>>

UiJoins ==
  /\ worker = "done"
  /\ UiGoes("joining", "idle")
  /\ UNCHANGED <<buffers, emulated, worker, sidStopped, posted, tickPending, notices, sized, invalid,
                 shown, flags>>

\* The destroy message ends the frame loop.
UiExits ==
  /\ shuttingDown
  /\ UiGoes("idle", "closed")
  /\ UNCHANGED <<buffers, emulated, worker, sidStopped, posted, tickPending, notices, sized, invalid,
                 shown, flags>>

UiRuns   == UiTick \/ UiTakesSid \/ UiTakesAudio \/ UiInvalidates \/ UiDraws \/ UiJoins
UiPaints == UiSwaps \/ UiPaintsNothing
User     == UiTogglesPause \/ UiResizes \/ UiCloses

Next == Worker \/ UiRuns \/ UiPaints \/ UiExits \/ User

Spec == Init /\ [][Next]_vars

\* The worker and the UI thread are scheduled; every pass of run_frame_loop pumps both
\* the window's messages and the UI tasks, so neither starves the other.
Fairness ==
  /\ WF_vars(Worker)
  /\ WF_vars(UiTakesSid \/ UiTakesAudio \/ UiInvalidates \/ UiDraws \/ UiJoins)
  /\ SF_vars(UiTick) /\ SF_vars(UiPaints)

FairSpec == Spec /\ Fairness

-----------------------------------------------------------------------------
(* Properties. *)

\* The newest published frame: where a compose() that ran now would find it.
Newest == IF fresh THEN slot[ready] ELSE slot[read]

TypeOK ==
  /\ slot \in [Slots -> Nat] /\ emulated \in Nat /\ shown \in Nat
  /\ write \in Slots /\ ready \in Slots /\ read \in Slots /\ fresh \in BOOLEAN
  /\ worker \in WorkerAt /\ sidStopped \in BOOLEAN
  /\ ui \in UiAt /\ posted \in Nat /\ tickPending \in BOOLEAN
  /\ notices \in SUBSET {"sid", "audio"} /\ sized \in BOOLEAN /\ invalid \in BOOLEAN
  /\ paused \in BOOLEAN /\ stopping \in BOOLEAN /\ shuttingDown \in BOOLEAN

\* The snapshot the UI draws from outside the mutex is never the one the worker is
\* copying into outside the mutex (app.cpp:1003, 1110).
NoTearing == ~(worker = "copying" /\ ui = "drawing" /\ write = read)

\* A compose() always finds the last published frame, published or already taken:
\* no swap loses it, however often the worker overtakes the UI.
NewestKept == Newest = IF worker \in {"copying", "copied"} THEN emulated - 1 ELSE emulated

\* A fresh frame or a raised notice is always followed by a tick: one is posted, is
\* about to be, or has not yet reached the step that takes it (app.cpp:1042-1060); a
\* window that has a size again is repainted for the frame it could not draw.
WorkerWillRequest == worker \in {"copying", "copied", "published", "request"}
TickComing == posted > 0 \/ worker \in {"published", "request", "posting"}
NoLostWakeup ==
  shuttingDown
  \/ /\ tickPending => posted = 1 \/ worker = "posting"
     /\ posted <= 1
     /\ fresh => TickComing \/ ui \in {"tick", "audio", "invalidate"} \/ invalid \/ ~sized
     /\ "sid" \in notices => TickComing \/ ui = "tick"
     /\ "audio" \in notices => TickComing \/ WorkerWillRequest \/ ui \in {"tick", "audio"}

\* What is drawn never goes back to an older frame.
ShownMonotone == [][shown' >= shown]_vars

\* The exchange implements the promise of LatestFrame.
Promise == INSTANCE LatestFrame WITH published <- Newest, taken <- slot[read]
ImplementsLatestFrame == Promise!Spec

\* Every published frame, or a newer one, is drawn by a window that comes to keep a client
\* area and does not close: one published while it had none is drawn once it has.
FrameShown ==
  <>[]sized => \A n \in 1..MaxFrame : (Newest = n) ~> (shown >= n \/ shuttingDown)

\* Every notice is taken, even when the worker pauses right after raising it.
NoticeTaken ==
  \A k \in {"sid", "audio"} : (k \in notices) ~> (k \notin notices \/ shuttingDown)

\* Closing joins the worker and returns, from any point of either thread, paused or not.
ShutdownEnds == shuttingDown ~> (worker = "done" /\ ui # "joining")
==============================================================================
