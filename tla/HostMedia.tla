------------------------------ MODULE HostMedia ------------------------------
(***************************************************************************)
(* What lib8bit's window says is in the machine, and what is (src/app/     *)
(* app.cpp).  The UI thread opens files, resets and ejects; a tune stops   *)
(* itself in a frame of the emulation worker, which tells the UI by a      *)
(* notice stamped with the media generation.                               *)
(*                                                                         *)
(* A section under g_machine_mutex is one step; what runs after it, and    *)
(* each access of an atomic outside it, is a step of its own.  How the     *)
(* frame itself reaches the window is module FrameExchange.  A file that   *)
(* is refused changes nothing.  The program is not paused.                 *)
(***************************************************************************)
EXTENDS Naturals

CONSTANTS
  Tunes,          \* SID files
  NoMedia,        \* "no media" in the title
  Files,          \* what the user opens while the program runs
  StartFiles,     \* what the command line may name
  MaxGeneration   \* bounds g_media_generation: how often media change

Others == {"cartridge", "disk", "program"}

ASSUME FilesAssumption ==
  /\ Tunes \cap Others = {} /\ NoMedia \notin Tunes \cup Others
  /\ Files \subseteq Tunes \cup Others /\ StartFiles \subseteq Tunes \cup Others
ASSUME GenerationAssumption == MaxGeneration \in Nat \ {0}

VARIABLES
  machine,        \* g_machine: the tune its player runs, its cartridge and disk
  stopKey,        \* a press of X waits in the key queue
  playing,        \* g_sid_playing
  generation, stoppedGeneration,   \* g_media_generation, g_sid_stopped_generation
  stoppedPending, tickPending,     \* g_sid_stopped_pending, g_ui_tick_pending
  posted,         \* UI tasks of request_ui_tick not yet begun
  worker,         \* where emulation_worker is
  sidStopped,     \* its local sid_stopped
  ui,             \* where the UI thread is
  opened,         \* the path load_file was given
  media, inserted \* g_media; which of g_cart_inserted and g_disk_inserted are set

notice == <<stoppedPending, tickPending, posted>>
title  == <<media, inserted>>
vars   == <<machine, stopKey, playing, generation, stoppedGeneration, notice,
            worker, sidStopped, ui, opened, title>>

NoTune == NoMedia

\* What a file leaves in the machine: all but a cartridge and a disk start from a
\* reset that keeps both.
Loaded(m, file) ==
  [tune     |-> IF file \in Tunes THEN file ELSE NoTune,
   inserted |-> m.inserted \cup ({file} \cap {"cartridge", "disk"})]

Empty == [tune |-> NoTune, inserted |-> {}]

\* The command line's file is opened as the window is created, before the worker starts.
Init ==
  /\ \E file \in StartFiles \cup {NoMedia} :
       /\ machine = Loaded(Empty, file)
       /\ media = file /\ inserted = machine.inserted
       /\ playing = (file \in Tunes)
       /\ generation = IF file = NoMedia THEN 0 ELSE 1
  /\ stopKey = FALSE /\ stoppedGeneration = 0
  /\ stoppedPending = FALSE /\ tickPending = FALSE /\ posted = 0
  /\ worker = "loop" /\ sidStopped = FALSE
  /\ ui = "idle" /\ opened = NoMedia

-----------------------------------------------------------------------------
(* The worker. *)

\* Under the machine mutex: a frame, in which X stops the tune, and the stamp.
WorkerFrame ==
  /\ worker = "loop" /\ worker' = "published"
  /\ stopKey' = FALSE
  /\ machine' = [machine EXCEPT !.tune = IF stopKey THEN NoTune ELSE @]
  /\ sidStopped' = (playing /\ machine'.tune = NoTune)
  /\ playing' = (playing /\ ~sidStopped')
  /\ stoppedGeneration' = IF sidStopped' THEN generation ELSE stoppedGeneration
  /\ UNCHANGED <<generation, notice, ui, opened, title>>

\* Mutation: every frame says whether a tune stopped in it, over a notice not yet taken.
WorkerNotices_Overwrites ==
  /\ worker = "published" /\ worker' = "request"
  /\ stoppedPending' = sidStopped
  /\ UNCHANGED <<machine, stopKey, playing, generation, stoppedGeneration, tickPending,
                 posted, sidStopped, ui, opened, title>>

WorkerNotices ==
  /\ worker = "published" /\ worker' = "request"
  /\ stoppedPending' = (stoppedPending \/ sidStopped)
  /\ UNCHANGED <<machine, stopKey, playing, generation, stoppedGeneration, tickPending,
                 posted, sidStopped, ui, opened, title>>

WorkerRequests ==
  /\ worker = "request" /\ worker' = IF tickPending THEN "loop" ELSE "posting"
  /\ tickPending' = TRUE
  /\ UNCHANGED <<machine, stopKey, playing, generation, stoppedGeneration, stoppedPending,
                 posted, sidStopped, ui, opened, title>>

WorkerPosts ==
  /\ worker = "posting" /\ worker' = "loop"
  /\ posted' = posted + 1
  /\ UNCHANGED <<machine, stopKey, playing, generation, stoppedGeneration, stoppedPending,
                 tickPending, sidStopped, ui, opened, title>>

-----------------------------------------------------------------------------
(* The UI thread. *)

\* X goes to the key queue.
UiPressesStop ==
  /\ ui = "idle" /\ ~stopKey /\ stopKey' = TRUE
  /\ UNCHANGED <<machine, playing, generation, stoppedGeneration, notice, worker,
                 sidStopped, ui, opened, title>>

\* load_file under the machine mutex.  A disk or a program is started by
\* machine::reset, which empties the key queue; a tune or a cartridge is not.
UiLoads(file) ==
  /\ ui = "idle" /\ ui' = "loaded"
  /\ generation < MaxGeneration
  /\ opened' = file
  /\ machine' = Loaded(machine, file)
  /\ stopKey' = (stopKey /\ file \notin {"disk", "program"})
  /\ playing' = (file \in Tunes)
  /\ UNCHANGED <<generation, stoppedGeneration, notice, worker, sidStopped, title>>

\* Mutation: the media change without a new generation.
UiNames_SameGeneration ==
  /\ ui = "loaded" /\ ui' = "idle"
  /\ media' = opened
  /\ inserted' = inserted \cup ({opened} \cap {"cartridge", "disk"})
  /\ UNCHANGED <<machine, stopKey, playing, generation, stoppedGeneration, notice, worker,
                 sidStopped, opened>>

\* load_file after it released the mutex.
UiNames ==
  /\ ui = "loaded" /\ ui' = "idle"
  /\ generation' = generation + 1
  /\ media' = opened
  /\ inserted' = inserted \cup ({opened} \cap {"cartridge", "disk"})
  /\ UNCHANGED <<machine, stopKey, playing, stoppedGeneration, notice, worker,
                 sidStopped, opened>>

\* reset_machine: only a tune that still plays is forgotten with the reset.
UiResets ==
  /\ ui = "idle"
  /\ generation < MaxGeneration /\ generation' = generation + 1
  /\ machine' = [machine EXCEPT !.tune = NoTune]
  /\ stopKey' = FALSE
  /\ playing' = FALSE
  /\ media' = IF playing THEN NoMedia ELSE media
  /\ UNCHANGED <<stoppedGeneration, notice, worker, sidStopped, ui, opened, inserted>>

\* Mutation: the disk stays in the drive.
UiEjects_KeepsDisk ==
  /\ ui = "idle"
  /\ generation < MaxGeneration /\ generation' = generation + 1
  /\ machine' = [Empty EXCEPT !.inserted = machine.inserted \ {"cartridge"}]
  /\ playing' = FALSE
  /\ media' = NoMedia /\ inserted' = {}
  /\ UNCHANGED <<stopKey, stoppedGeneration, notice, worker, sidStopped, ui, opened>>

UiEjects ==
  /\ ui = "idle"
  /\ generation < MaxGeneration /\ generation' = generation + 1
  /\ machine' = Empty
  /\ playing' = FALSE
  /\ media' = NoMedia /\ inserted' = {}
  /\ UNCHANGED <<stopKey, stoppedGeneration, notice, worker, sidStopped, ui, opened>>

\* The tick allows the next one to be posted, ...
UiTick ==
  /\ ui = "idle" /\ posted > 0 /\ ui' = "tick"
  /\ posted' = posted - 1
  /\ tickPending' = FALSE
  /\ UNCHANGED <<machine, stopKey, playing, generation, stoppedGeneration, stoppedPending,
                 worker, sidStopped, opened, title>>

\* ... takes the notice ...
UiTakes ==
  /\ ui = "tick" /\ ui' = IF stoppedPending THEN "notice" ELSE "idle"
  /\ stoppedPending' = FALSE
  /\ UNCHANGED <<machine, stopKey, playing, generation, stoppedGeneration, tickPending,
                 posted, worker, sidStopped, opened, title>>

\* ... and honours it if the media are those the tune was of.
UiHonours ==
  /\ ui = "notice" /\ ui' = "idle"
  /\ media' = IF stoppedGeneration = generation THEN NoMedia ELSE media
  /\ UNCHANGED <<machine, stopKey, playing, generation, stoppedGeneration, notice, worker,
                 sidStopped, opened, inserted>>

Next ==
  \/ WorkerFrame \/ WorkerNotices \/ WorkerRequests \/ WorkerPosts
  \/ UiPressesStop \/ UiNames \/ UiResets \/ UiEjects
  \/ UiTick \/ UiTakes \/ UiHonours
  \/ \E file \in Files : UiLoads(file)

Spec == Init /\ [][Next]_vars

-----------------------------------------------------------------------------
(* Properties. *)

TypeOK ==
  /\ machine \in [tune : Tunes \cup {NoTune}, inserted : SUBSET {"cartridge", "disk"}]
  /\ stopKey \in BOOLEAN /\ playing \in BOOLEAN
  /\ generation \in 0..MaxGeneration /\ stoppedGeneration \in 0..MaxGeneration
  /\ stoppedPending \in BOOLEAN /\ tickPending \in BOOLEAN /\ posted \in 0..1
  /\ worker \in {"loop", "published", "request", "posting"} /\ sidStopped \in BOOLEAN
  /\ ui \in {"idle", "loaded", "tick", "notice"}
  /\ opened \in Tunes \cup Others \cup {NoMedia}
  /\ media \in Tunes \cup Others \cup {NoMedia}
  /\ inserted \in SUBSET {"cartridge", "disk"}

\* While a tune plays the title names it: whatever notice of an earlier tune is still on
\* its way, and however it interleaves with the load, it never clears the newer name.
PlayingTuneNamed ==
  ui # "loaded" /\ machine.tune # NoTune => media = machine.tune /\ playing

\* Eject is offered exactly when there is something to eject, and one eject takes all.
EjectOffered == ui # "loaded" => inserted = machine.inserted
=============================================================================
