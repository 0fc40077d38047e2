---------------------------- MODULE Media_proofs ----------------------------
(***************************************************************************)
(* Proofs about the media: HostMedia, what the window says is in the       *)
(* machine, for any files and any bound on the generation (of MCHostMedia  *)
(* only the history `raced` is used), and DiskLoad, what a disk image      *)
(* gives to the program that reads it, for any images, sectors and RAM.    *)
(*                                                                         *)
(* A walk along a chain is the first so many sectors of a way that meets   *)
(* none twice (Way).  A way that cannot go on is the longest, and the only *)
(* one of its length, because a chain never forks (WayIs).                 *)
(***************************************************************************)
EXTENDS MCHostMedia, DiskLoad, FiniteSetTheorems, WellFoundedInduction, TLAPS

-----------------------------------------------------------------------------
(* HostMedia: the invariant. *)

\* A tick is on its way at most once: g_ui_tick_pending covers the two steps that post it
\* and the task itself until it begins.
Coalesced ==
  /\ posted > 0 \/ worker = "posting" => tickPending
  /\ ~(posted > 0 /\ worker = "posting")

\* g_sid_playing is the player's state at the end of every section under the mutex.
Followed == playing <=> machine.tune # NoTune

\* Between the two halves of load_file the window lags behind by the file in hand.
Lag ==
  IF ui = "loaded"
  THEN /\ generation < MaxGeneration
       /\ machine.tune # NoTune => machine.tune = opened
       /\ machine.inserted = inserted \cup ({opened} \cap {"cartridge", "disk"})
  ELSE /\ machine.tune # NoTune => media = machine.tune
       /\ machine.inserted = inserted

\* A stamp of the current generation is of a tune that no longer plays.
Stamp ==
  /\ stoppedGeneration <= generation
  /\ stoppedGeneration = generation /\ ui # "loaded" => ~playing

IInv == TypeOK /\ Coalesced /\ Followed /\ Lag /\ Stamp

LEMMA InitInv == Init => IInv
  <1> SUFFICES ASSUME Init PROVE IInv
    OBVIOUS
  <1>1. PICK file \in StartFiles \cup {NoMedia} :
          /\ machine = Loaded(Empty, file)
          /\ media = file /\ inserted = machine.inserted
          /\ playing = (file \in Tunes)
          /\ generation = IF file = NoMedia THEN 0 ELSE 1
    BY DEF Init
  <1>2. file \in Tunes \cup Others \cup {NoMedia}
    BY FilesAssumption
  <1>3. /\ machine.tune = (IF file \in Tunes THEN file ELSE NoTune)
        /\ machine.inserted = {} \cup ({file} \cap {"cartridge", "disk"})
        /\ machine = [tune |-> machine.tune, inserted |-> machine.inserted]
    BY <1>1 DEF Loaded, Empty
  <1>4. TypeOK
    <2>1. machine \in [tune : Tunes \cup {NoTune}, inserted : SUBSET {"cartridge", "disk"}]
      BY <1>3
    <2>2. inserted \in SUBSET {"cartridge", "disk"}
      BY <1>1, <1>3
    <2>3. playing \in BOOLEAN /\ generation \in 0..MaxGeneration
      BY <1>1, GenerationAssumption
    <2>4. media \in Tunes \cup Others \cup {NoMedia}
      BY <1>1, <1>2
    <2>5. stopKey \in BOOLEAN /\ stoppedPending \in BOOLEAN /\ tickPending \in BOOLEAN
      BY DEF Init
    <2>7. stoppedGeneration \in 0..MaxGeneration /\ posted \in 0..1
      <3>1. stoppedGeneration = 0 /\ posted = 0
        BY DEF Init
      <3> QED BY <3>1, GenerationAssumption
    <2>6. /\ worker \in {"loop", "published", "request", "posting"} /\ sidStopped \in BOOLEAN
          /\ ui \in {"idle", "loaded", "tick", "notice"}
          /\ opened \in Tunes \cup Others \cup {NoMedia}
      BY DEF Init
    <2> QED BY <2>1, <2>2, <2>3, <2>4, <2>5, <2>6, <2>7 DEF TypeOK
  <1>5. Coalesced
    BY DEF Init, Coalesced
  <1>6. Followed
    BY <1>1, <1>2, <1>3, FilesAssumption DEF Followed, NoTune
  <1>7. Lag
    BY <1>1, <1>3, FilesAssumption DEF Init, Lag, NoTune
  <1>8. Stamp
    <2>1. CASE file = NoMedia
      <3>1. ~playing
        BY <1>1, <2>1, FilesAssumption
      <3>2. generation = 0 /\ stoppedGeneration = 0
        BY <1>1, <2>1 DEF Init
      <3> QED BY <3>1, <3>2 DEF Stamp
    <2>2. CASE file # NoMedia
      <3>1. generation = 1 /\ stoppedGeneration = 0
        BY <1>1, <2>2 DEF Init
      <3> QED BY <3>1 DEF Stamp
    <2> QED BY <2>1, <2>2
  <1> QED BY <1>4, <1>5, <1>6, <1>7, <1>8 DEF IInv

LEMMA StepInv == IInv /\ [Next]_vars => IInv'
  <1> SUFFICES ASSUME IInv, [Next]_vars PROVE IInv'
    OBVIOUS
  <1>1. CASE WorkerFrame
    <2>1. machine' \in [tune : Tunes \cup {NoTune}, inserted : SUBSET {"cartridge", "disk"}]
      BY <1>1 DEF IInv, TypeOK, WorkerFrame
    <2>2. TypeOK'
      BY <1>1, <2>1 DEF IInv, TypeOK, Coalesced, Lag, WorkerFrame, notice, title
    <2>3. Coalesced'
      BY <1>1 DEF IInv, TypeOK, Coalesced, WorkerFrame, notice
    <2>4. Followed'
      BY <1>1 DEF IInv, TypeOK, Followed, NoTune, WorkerFrame
    <2>5. Lag'
      BY <1>1 DEF IInv, TypeOK, Followed, Lag, NoTune, WorkerFrame, title
    <2>6. Stamp'
      <3>1. /\ generation' = generation /\ ui' = ui
            /\ generation \in Nat /\ stoppedGeneration \in Nat
        BY <1>1 DEF WorkerFrame, IInv, TypeOK
      <3>2. CASE sidStopped'
        <4>1. stoppedGeneration' = generation /\ ~playing'
          BY <1>1, <3>2 DEF WorkerFrame
        <4> QED BY <3>1, <4>1 DEF Stamp
      <3>3. CASE ~sidStopped'
        <4>1. stoppedGeneration' = stoppedGeneration /\ (playing' => playing)
          BY <1>1, <3>3 DEF WorkerFrame
        <4> QED BY <3>1, <4>1 DEF IInv, Stamp
      <3> QED BY <3>2, <3>3
    <2> QED BY <2>2, <2>3, <2>4, <2>5, <2>6 DEF IInv
  <1>2. CASE WorkerNotices
    <2>1. machine' \in [tune : Tunes \cup {NoTune}, inserted : SUBSET {"cartridge", "disk"}]
      BY <1>2 DEF IInv, TypeOK, WorkerNotices
    <2>2. TypeOK'
      BY <1>2, <2>1 DEF IInv, TypeOK, Coalesced, Lag, WorkerNotices, notice, title
    <2>3. Coalesced'
      BY <1>2 DEF IInv, TypeOK, Coalesced, WorkerNotices, notice
    <2>4. Followed'
      BY <1>2 DEF IInv, TypeOK, Followed, NoTune, WorkerNotices
    <2>5. Lag'
      BY <1>2 DEF IInv, TypeOK, Followed, Lag, NoTune, WorkerNotices, title
    <2>6. Stamp'
      BY <1>2 DEF IInv, TypeOK, Followed, Stamp, NoTune, WorkerNotices
    <2> QED BY <2>2, <2>3, <2>4, <2>5, <2>6 DEF IInv
  <1>3. CASE WorkerRequests
    <2>1. machine' \in [tune : Tunes \cup {NoTune}, inserted : SUBSET {"cartridge", "disk"}]
      BY <1>3 DEF IInv, TypeOK, WorkerRequests
    <2>2. TypeOK'
      BY <1>3, <2>1 DEF IInv, TypeOK, Coalesced, Lag, WorkerRequests, notice, title
    <2>3. Coalesced'
      BY <1>3 DEF IInv, TypeOK, Coalesced, WorkerRequests, notice
    <2>4. Followed'
      BY <1>3 DEF IInv, TypeOK, Followed, NoTune, WorkerRequests
    <2>5. Lag'
      BY <1>3 DEF IInv, TypeOK, Followed, Lag, NoTune, WorkerRequests, title
    <2>6. Stamp'
      BY <1>3 DEF IInv, TypeOK, Followed, Stamp, NoTune, WorkerRequests
    <2> QED BY <2>2, <2>3, <2>4, <2>5, <2>6 DEF IInv
  <1>4. CASE WorkerPosts
    <2>1. machine' \in [tune : Tunes \cup {NoTune}, inserted : SUBSET {"cartridge", "disk"}]
      BY <1>4 DEF IInv, TypeOK, WorkerPosts
    <2>2. TypeOK'
      BY <1>4, <2>1 DEF IInv, TypeOK, Coalesced, Lag, WorkerPosts, notice, title
    <2>3. Coalesced'
      BY <1>4 DEF IInv, TypeOK, Coalesced, WorkerPosts, notice
    <2>4. Followed'
      BY <1>4 DEF IInv, TypeOK, Followed, NoTune, WorkerPosts
    <2>5. Lag'
      BY <1>4 DEF IInv, TypeOK, Followed, Lag, NoTune, WorkerPosts, title
    <2>6. Stamp'
      BY <1>4 DEF IInv, TypeOK, Followed, Stamp, NoTune, WorkerPosts
    <2> QED BY <2>2, <2>3, <2>4, <2>5, <2>6 DEF IInv
  <1>5. CASE UiPressesStop
    <2>1. machine' \in [tune : Tunes \cup {NoTune}, inserted : SUBSET {"cartridge", "disk"}]
      BY <1>5 DEF IInv, TypeOK, UiPressesStop
    <2>2. TypeOK'
      BY <1>5, <2>1 DEF IInv, TypeOK, Coalesced, Lag, UiPressesStop, notice, title
    <2>3. Coalesced'
      BY <1>5 DEF IInv, TypeOK, Coalesced, UiPressesStop, notice
    <2>4. Followed'
      BY <1>5 DEF IInv, TypeOK, Followed, NoTune, UiPressesStop
    <2>5. Lag'
      BY <1>5 DEF IInv, TypeOK, Followed, Lag, NoTune, UiPressesStop, title
    <2>6. Stamp'
      BY <1>5 DEF IInv, TypeOK, Followed, Stamp, NoTune, UiPressesStop
    <2> QED BY <2>2, <2>3, <2>4, <2>5, <2>6 DEF IInv
  <1>6. CASE UiNames
    <2>1. machine' \in [tune : Tunes \cup {NoTune}, inserted : SUBSET {"cartridge", "disk"}]
      BY <1>6 DEF IInv, TypeOK, UiNames
    <2>2. TypeOK'
      BY <1>6, <2>1, GenerationAssumption DEF IInv, TypeOK, Coalesced, Lag, UiNames, notice, title
    <2>3. Coalesced'
      BY <1>6 DEF IInv, TypeOK, Coalesced, UiNames, notice
    <2>4. Followed'
      BY <1>6, GenerationAssumption DEF IInv, TypeOK, Followed, NoTune, UiNames
    <2>5. Lag'
      BY <1>6, GenerationAssumption DEF IInv, TypeOK, Followed, Lag, NoTune, UiNames, title
    <2>6. Stamp'
      BY <1>6, GenerationAssumption DEF IInv, TypeOK, Followed, Stamp, NoTune, UiNames
    <2> QED BY <2>2, <2>3, <2>4, <2>5, <2>6 DEF IInv
  <1>7. CASE UiResets
    <2>1. machine' \in [tune : Tunes \cup {NoTune}, inserted : SUBSET {"cartridge", "disk"}]
      BY <1>7 DEF IInv, TypeOK, UiResets
    <2>2. TypeOK'
      <3>1. generation' \in 0..MaxGeneration
        BY <1>7, GenerationAssumption DEF IInv, TypeOK, UiResets
      <3>2. /\ stopKey' \in BOOLEAN /\ playing' \in BOOLEAN
            /\ media' \in Tunes \cup Others \cup {NoMedia}
            /\ inserted' \in SUBSET {"cartridge", "disk"}
        BY <1>7 DEF IInv, TypeOK, UiResets
      <3> QED BY <1>7, <2>1, <3>1, <3>2 DEF IInv, TypeOK, UiResets, notice
    <2>3. Coalesced'
      BY <1>7 DEF IInv, TypeOK, Coalesced, UiResets, notice
    <2>4. Followed'
      BY <1>7 DEF IInv, TypeOK, Followed, NoTune, UiResets
    <2>5. Lag'
      BY <1>7 DEF IInv, TypeOK, Followed, Lag, NoTune, UiResets, title
    <2>6. Stamp'
      BY <1>7 DEF IInv, TypeOK, Followed, Stamp, NoTune, UiResets
    <2> QED BY <2>2, <2>3, <2>4, <2>5, <2>6 DEF IInv
  <1>8. CASE UiEjects
    <2>1. machine' \in [tune : Tunes \cup {NoTune}, inserted : SUBSET {"cartridge", "disk"}]
      BY <1>8 DEF IInv, TypeOK, UiEjects, Empty
    <2>2. TypeOK'
      <3>1. generation' \in 0..MaxGeneration
        BY <1>8, GenerationAssumption DEF IInv, TypeOK, UiEjects
      <3>2. /\ stopKey' \in BOOLEAN /\ playing' \in BOOLEAN
            /\ media' \in Tunes \cup Others \cup {NoMedia}
            /\ inserted' \in SUBSET {"cartridge", "disk"}
        BY <1>8 DEF IInv, TypeOK, UiEjects
      <3> QED BY <1>8, <2>1, <3>1, <3>2 DEF IInv, TypeOK, UiEjects, notice
    <2>3. Coalesced'
      BY <1>8 DEF IInv, TypeOK, Coalesced, UiEjects, Empty, notice
    <2>4. Followed'
      BY <1>8 DEF IInv, TypeOK, Followed, NoTune, UiEjects, Empty
    <2>5. Lag'
      BY <1>8 DEF IInv, TypeOK, Followed, Lag, NoTune, UiEjects, Empty, title
    <2>6. Stamp'
      BY <1>8 DEF IInv, TypeOK, Followed, Stamp, NoTune, UiEjects, Empty
    <2> QED BY <2>2, <2>3, <2>4, <2>5, <2>6 DEF IInv
  <1>9. CASE UiTick
    <2>1. machine' \in [tune : Tunes \cup {NoTune}, inserted : SUBSET {"cartridge", "disk"}]
      BY <1>9 DEF IInv, TypeOK, UiTick
    <2>2. TypeOK'
      <3>1. tickPending' \in BOOLEAN
        BY <1>9 DEF UiTick
      <3>3. posted' \in 0..1
        <4>1. posted \in 0..1 /\ posted > 0 /\ posted' = posted - 1
          BY <1>9 DEF IInv, TypeOK, UiTick
        <4> QED BY <4>1
      <3>2. ui' \in {"idle", "loaded", "tick", "notice"}
        BY <1>9 DEF UiTick
      <3> QED BY <1>9, <2>1, <3>1, <3>2, <3>3 DEF IInv, TypeOK, UiTick, title
    <2>3. Coalesced'
      BY <1>9 DEF IInv, TypeOK, Coalesced, UiTick, notice
    <2>4. Followed'
      BY <1>9 DEF IInv, TypeOK, Followed, NoTune, UiTick
    <2>5. Lag'
      BY <1>9 DEF IInv, TypeOK, Followed, Lag, NoTune, UiTick, title
    <2>6. Stamp'
      BY <1>9 DEF IInv, TypeOK, Followed, Stamp, NoTune, UiTick
    <2> QED BY <2>2, <2>3, <2>4, <2>5, <2>6 DEF IInv
  <1>10. CASE UiTakes
    <2>1. machine' \in [tune : Tunes \cup {NoTune}, inserted : SUBSET {"cartridge", "disk"}]
      BY <1>10 DEF IInv, TypeOK, UiTakes
    <2>2. TypeOK'
      BY <1>10, <2>1 DEF IInv, TypeOK, Coalesced, Lag, UiTakes, notice, title
    <2>3. Coalesced'
      BY <1>10 DEF IInv, TypeOK, Coalesced, UiTakes, notice
    <2>4. Followed'
      BY <1>10 DEF IInv, TypeOK, Followed, NoTune, UiTakes
    <2>5. Lag'
      BY <1>10 DEF IInv, TypeOK, Followed, Lag, NoTune, UiTakes, title
    <2>6. Stamp'
      BY <1>10 DEF IInv, TypeOK, Followed, Stamp, NoTune, UiTakes
    <2> QED BY <2>2, <2>3, <2>4, <2>5, <2>6 DEF IInv
  <1>11. CASE UiHonours
    <2>1. machine' \in [tune : Tunes \cup {NoTune}, inserted : SUBSET {"cartridge", "disk"}]
      BY <1>11 DEF IInv, TypeOK, UiHonours
    <2>2. TypeOK'
      BY <1>11, <2>1 DEF IInv, TypeOK, Coalesced, Lag, UiHonours, notice, title
    <2>3. Coalesced'
      BY <1>11 DEF IInv, TypeOK, Coalesced, UiHonours, notice
    <2>4. Followed'
      BY <1>11 DEF IInv, TypeOK, Followed, NoTune, UiHonours
    <2>5. Lag'
      BY <1>11 DEF IInv, TypeOK, Followed, Lag, Stamp, NoTune, UiHonours, title
    <2>6. Stamp'
      BY <1>11 DEF IInv, TypeOK, Followed, Stamp, NoTune, UiHonours
    <2> QED BY <2>2, <2>3, <2>4, <2>5, <2>6 DEF IInv
  <1>12. ASSUME NEW file \in Files, UiLoads(file) PROVE IInv'
    <2>1. file \in Tunes \cup Others /\ file # NoMedia
      BY FilesAssumption
    <2>2. /\ machine'.tune = (IF file \in Tunes THEN file ELSE NoTune)
          /\ machine'.inserted = machine.inserted \cup ({file} \cap {"cartridge", "disk"})
      BY <1>12 DEF UiLoads, Loaded
    <2>3. machine' \in [tune : Tunes \cup {NoTune}, inserted : SUBSET {"cartridge", "disk"}]
      BY <1>12, <2>2 DEF UiLoads, Loaded, IInv, TypeOK
    <2>4. TypeOK'
      BY <1>12, <2>1, <2>3 DEF IInv, TypeOK, UiLoads, notice, title
    <2>5. Coalesced'
      BY <1>12 DEF IInv, Coalesced, UiLoads, notice
    <2>6. Followed'
      BY <1>12, <2>1, <2>2, FilesAssumption DEF Followed, NoTune, UiLoads
    <2>7. Lag'
      <3>1. /\ ui = "idle" /\ ui' = "loaded" /\ opened' = file /\ inserted' = inserted
            /\ generation' = generation /\ generation < MaxGeneration
        BY <1>12 DEF UiLoads, title
      <3>2. machine.inserted = inserted
        BY <3>1 DEF IInv, Lag
      <3>3. machine'.tune # NoTune => machine'.tune = opened'
        BY <2>2, <3>1
      <3>4. machine'.inserted = inserted' \cup ({opened'} \cap {"cartridge", "disk"})
        BY <2>2, <3>1, <3>2
      <3>5. generation' < MaxGeneration
        BY <3>1
      <3> HIDE DEF NoTune
      <3> QED BY <3>1, <3>3, <3>4, <3>5, Zenon DEF Lag
    <2>8. Stamp'
      BY <1>12 DEF IInv, TypeOK, Stamp, UiLoads
    <2> QED BY <2>4, <2>5, <2>6, <2>7, <2>8 DEF IInv
  <1>13. CASE UNCHANGED vars
    BY <1>13 DEF IInv, TypeOK, Coalesced, Followed, Lag, Stamp, vars, notice, title
  <1> QED BY <1>1, <1>2, <1>3, <1>4, <1>5, <1>6, <1>7, <1>8, <1>9, <1>10, <1>11, <1>12, <1>13
          DEF Next

LEMMA Invariance == Spec => []IInv
  BY InitInv, StepInv, PTL DEF Spec

\* Every variable of load_file, the stop notice and the tick keeps its type; one tick
\* at most is posted (request_ui_tick).
THEOREM MediaTypeCorrect == Spec => []TypeOK
  <1>1. IInv => TypeOK
    BY DEF IInv
  <1> QED BY <1>1, Invariance, PTL

\* No notice of an earlier tune clears the title of the one that plays
\* (request_ui_tick's comparison of generations).
THEOREM PlayingNamed == Spec => []PlayingTuneNamed
  <1>1. IInv => PlayingTuneNamed
    BY DEF IInv, Followed, Lag, PlayingTuneNamed
  <1> QED BY <1>1, Invariance, PTL

\* g_cart_inserted and g_disk_inserted are what the machine holds.
THEOREM EjectExact == Spec => []EjectOffered
  <1>1. IInv => EjectOffered
    BY DEF IInv, Lag, EjectOffered
  <1> QED BY <1>1, Invariance, PTL

-----------------------------------------------------------------------------
(* The title and the stop notice, with the history `raced`. *)

\* A pending tick is being posted or waits.
TickComes == tickPending => worker = "posting" \/ posted > 0

\* A notice has a tick behind it that takes it.
NoticeComes ==
  stoppedPending => worker \in {"request", "posting"} \/ posted > 0 \/ ui = "tick"

\* Where the notice of the last stop may be.
Coming == (worker = "published" /\ sidStopped) \/ stoppedPending \/ ui = "notice"

\* A stopped tune is named only while its notice comes, and the notice will be honoured.
Told ==
  ui # "loaded" /\ ~playing /\ media \in Tunes /\ ~raced
    => Coming /\ stoppedGeneration = generation

TitleInv == IInv /\ TickComes /\ NoticeComes /\ Told

LEMMA TitleInit == MCInit => TitleInv
  <1> SUFFICES ASSUME MCInit PROVE TitleInv
    OBVIOUS
  <1>1. IInv
    BY InitInv DEF MCInit
  <1>2. TickComes /\ NoticeComes
    BY DEF MCInit, Init, TickComes, NoticeComes
  <1>3. Told
    BY DEF MCInit, Init, Told
  <1> QED BY <1>1, <1>2, <1>3 DEF TitleInv

LEMMA TitleStep == TitleInv /\ [MCNext]_<<vars, raced>> => TitleInv'
  <1> SUFFICES ASSUME TitleInv, [MCNext]_<<vars, raced>> PROVE TitleInv'
    OBVIOUS
  <1>1. CASE UNCHANGED <<vars, raced>>
    <2>1. IInv'
      BY <1>1, StepInv DEF TitleInv
    <2>2. TickComes' /\ NoticeComes' /\ Told'
      BY <1>1 DEF TitleInv, TickComes, NoticeComes, Told, Coming, vars, notice, title
    <2> QED BY <2>1, <2>2 DEF TitleInv
  <1>2. CASE MCNext
    <2>1. IInv'
      BY <1>2, StepInv DEF TitleInv, MCNext
    <2>2. /\ posted \in 0..1 /\ generation \in Nat /\ NoMedia \notin Tunes
          /\ raced' = IF generation' = generation THEN raced
                      ELSE ~playing /\ (IF ui = "loaded" THEN opened ELSE media) \in Tunes
      BY <1>2, FilesAssumption, GenerationAssumption DEF TitleInv, IInv, TypeOK, MCNext
    <2> DEFINE Rest == TickComes' /\ NoticeComes' /\ Told'
    <2>3. ASSUME WorkerFrame PROVE Rest
      BY <2>2, <2>3 DEF TitleInv, TickComes, NoticeComes, Told, Coming, WorkerFrame, notice, title
    <2>4. ASSUME WorkerNotices PROVE Rest
      BY <2>2, <2>4 DEF TitleInv, TickComes, NoticeComes, Told, Coming, WorkerNotices, notice, title
    <2>5. ASSUME WorkerRequests PROVE Rest
      BY <2>2, <2>5 DEF TitleInv, TickComes, NoticeComes, Told, Coming, WorkerRequests, notice, title
    <2>6. ASSUME WorkerPosts PROVE Rest
      BY <2>2, <2>6 DEF TitleInv, TickComes, NoticeComes, Told, Coming, WorkerPosts, notice, title
    <2>7. ASSUME UiPressesStop PROVE Rest
      BY <2>2, <2>7 DEF TitleInv, TickComes, NoticeComes, Told, Coming, UiPressesStop, notice, title
    <2>8. ASSUME UiNames PROVE Rest
      <3>1. TickComes' /\ NoticeComes'
        BY <2>8 DEF TitleInv, TickComes, NoticeComes, UiNames, notice
      <3>2. generation' # generation /\ ui = "loaded"
        BY <2>2, <2>8 DEF UiNames
      <3>3. raced' = (~playing /\ opened \in Tunes)
        BY <2>2, <3>2
      <3>4. Told'
        BY <2>8, <3>3 DEF Told, UiNames
      <3> QED BY <3>1, <3>4
    <2>9. ASSUME UiResets PROVE Rest
      BY <2>2, <2>9 DEF TitleInv, TickComes, NoticeComes, Told, Coming, UiResets, notice, title
    <2>10. ASSUME UiEjects PROVE Rest
      BY <2>2, <2>10 DEF TitleInv, TickComes, NoticeComes, Told, Coming, UiEjects, notice, title
    <2>11. ASSUME UiTick PROVE Rest
      BY <2>2, <2>11 DEF TitleInv, TickComes, NoticeComes, Told, Coming, UiTick, notice, title
    <2>12. ASSUME UiTakes PROVE Rest
      BY <2>2, <2>12 DEF TitleInv, TickComes, NoticeComes, Told, Coming, UiTakes, notice, title
    <2>13. ASSUME UiHonours PROVE Rest
      BY <2>2, <2>13 DEF TitleInv, TickComes, NoticeComes, Told, Coming, UiHonours, notice, title
    <2>14. ASSUME NEW file \in Files, UiLoads(file) PROVE Rest
      BY <2>2, <2>14 DEF TitleInv, TickComes, NoticeComes, Told, Coming, UiLoads, notice, title
    <2>15. Rest
      BY <1>2, <2>3, <2>4, <2>5, <2>6, <2>7, <2>8, <2>9, <2>10, <2>11, <2>12, <2>13, <2>14 DEF MCNext, Next
    <2> QED BY <2>1, <2>15 DEF TitleInv
  <1> QED BY <1>1, <1>2

\* Once nothing is on its way to the window its title names no stopped tune, unless a
\* reset or a load renewed the generation between the stop and its tick.
THEOREM TitleIsCurrent == MCSpec => []TitleCurrent
  <1>1. TitleInv => TitleCurrent
    BY DEF TitleInv, IInv, Followed, NoticeComes, Told, Coming, TitleCurrent
  <1> QED BY <1>1, TitleInit, TitleStep, PTL DEF MCSpec

-----------------------------------------------------------------------------
(* Numbers. *)

\* Induction up to n, for a set: the least number that is not in it has none before it.
Climbs(S, n) == 0 \in S /\ \A i \in 1..n : i - 1 \in S => i \in S

LEMMA Climb ==
  ASSUME NEW n \in Nat, NEW S, Climbs(S, n)
  PROVE  n \in S
<1> DEFINE D == {i \in 0..n : i \notin S}
           R == OpToRel(<, Nat)
<1>1. SUFFICES ASSUME D # {} PROVE FALSE
  OBVIOUS
<1>2. PICK d \in D : \A e \in D : ~(<<e, d>> \in R)
  <2>1. IsWellFoundedOn(R, Nat)
    BY NatLessThanWellFounded
  <2>2. D \in SUBSET Nat
    OBVIOUS
  <2> HIDE DEF D, R
  <2> QED
    BY <1>1, <2>1, <2>2, WFMin, Zenon
<1>3. d \in 1..n /\ d \notin S
  <2> HIDE DEF R
  <2>1. d \in 0..n /\ d \notin S
    BY <1>2
  <2>2. d # 0
    BY <2>1 DEF Climbs
  <2> QED
    BY <2>1, <2>2
<1>4. d - 1 \in 0..n /\ ~(d - 1 \in D)
  <2>1. d - 1 \in Nat /\ d \in Nat /\ d - 1 < d /\ d - 1 \in 0..n
    BY <1>3
  <2>2. d - 1 \in D => <<d - 1, d>> \in R
    BY <2>1 DEF OpToRel
  <2> QED
    BY <1>2, <2>1, <2>2
<1> QED
  BY <1>3, <1>4 DEF Climbs

\* A product grows with its factor.
LEMMA Monotone ==
  ASSUME NEW k \in Int, NEW l \in Int, k < l, NEW p \in Nat \ {0}
  PROVE  k * p + p <= l * p
<1>1. (l - k - 1) * p >= 0
  OBVIOUS
<1>2. (l - k - 1) * p = l * p - k * p - p
  OBVIOUS
<1> QED
  BY <1>1, <1>2


\* A number in its period.
LEMMA ModIs ==
  ASSUME NEW m \in Nat \ {0}, NEW x \in Int, NEW q \in Int, NEW r \in 0..(m - 1), x = q * m + r
  PROVE  x % m = r
<1> DEFINE d == x \div m
           s == x % m
<1>1. d \in Int /\ s \in 0..(m - 1) /\ x = d * m + s
  OBVIOUS
<1> HIDE DEF d, s
<1>2. ~(d < q)
  <2>1. d < q => d * m + m <= q * m
    BY <1>1, Monotone
  <2>2. d * m \in Int /\ q * m \in Int
    BY <1>1
  <2> QED
    BY <1>1, <2>1, <2>2
<1>3. ~(q < d)
  <2>1. q < d => q * m + m <= d * m
    BY <1>1, Monotone
  <2>2. d * m \in Int /\ q * m \in Int
    BY <1>1
  <2> QED
    BY <1>1, <2>1, <2>2
<1>4. d = q
  BY <1>1, <1>2, <1>3
<1> QED
  BY <1>1, <1>4 DEF s

\* Counting on from within the period is counting on.
LEMMA ModAdds ==
  ASSUME NEW m \in Nat \ {0}, NEW x \in Int, NEW y \in Int
  PROVE  ((x % m) + y) % m = (x + y) % m
<1> DEFINE d == x \div m
           s == x % m
           z == s + y
           e == z \div m
           r == z % m
           q == d + e
           w == x + y
<1>1. d \in Int /\ s \in 0..(m - 1) /\ x = d * m + s
  OBVIOUS
<1> HIDE DEF d, s
<1>2. z \in Int
  BY <1>1
<1> HIDE DEF z
<1>3. e \in Int /\ r \in 0..(m - 1) /\ z = e * m + r
  BY <1>2
<1> HIDE DEF e, r
<1>4. q * m = d * m + e * m /\ q \in Int
  BY <1>1, <1>3
<1>5. w = q * m + r /\ w \in Int
  BY <1>1, <1>3, <1>4 DEF z
<1> HIDE DEF q, w
<1>6. w % m = r
  BY <1>3, <1>4, <1>5, ModIs
<1> QED
  BY <1>6 DEF w, r, z, s

-----------------------------------------------------------------------------
(* Sequences put behind one another. *)

\* What FlattenSeq makes of the first i sequences, in turn.
Joined(a1, a2) == a1 \o a2

Joins(f, s, n) == f = [i \in 1..n |-> IF i = 1 THEN s[i] ELSE Joined(f[i - 1], s[i])]

LEMMA JoinsAt ==
  ASSUME NEW f, NEW s, NEW n, Joins(f, s, n), NEW i \in 1..n
  PROVE  /\ i = 1 => f[i] = s[i]
         /\ i # 1 => f[i] = Joined(f[i - 1], s[i])
<1> DEFINE h == [j \in 1..n |-> IF j = 1 THEN s[j] ELSE Joined(f[j - 1], s[j])]
<1>1. f = h
  BY DEF Joins
<1>2. h[i] = IF i = 1 THEN s[i] ELSE Joined(f[i - 1], s[i])
  OBVIOUS
<1> HIDE DEF h
<1>3. f[i] = h[i]
  BY <1>1
<1> QED
  BY <1>2, <1>3

LEMMA JoinsExist ==
  ASSUME NEW s, NEW n \in Nat
  PROVE  \E f : Joins(f, s, n)
<1> DEFINE S == {i \in 0..n : \E f : Joins(f, s, i)}
<1>1. 0 \in S
  <2>1. Joins(<<>>, s, 0)
    BY DEF Joins
  <2> QED
    BY <2>1
<1>2. ASSUME NEW i \in 1..n, i - 1 \in S PROVE i \in S
  <2>1. PICK f : Joins(f, s, i - 1)
    BY <1>2
  <2> DEFINE g == [j \in 1..i |-> IF j = 1 THEN s[1] ELSE IF j < i THEN f[j] ELSE Joined(f[j - 1], s[j])]
  <2>2. ASSUME NEW j \in 1..i
        PROVE  g[j] = (IF j = 1 THEN s[j] ELSE Joined(g[j - 1], s[j]))
    <3>1. CASE j = 1
      BY <3>1
    <3>2. CASE j # 1
      <4>1. j - 1 \in 1..(i - 1) /\ j - 1 < i
        BY <3>2
      <4>2. g[j - 1] = f[j - 1]
        <5>1. j - 1 = 1 => f[1] = s[1]
          BY <2>1, <4>1, JoinsAt
        <5> QED
          BY <4>1, <5>1
      <4>3. j < i => f[j] = Joined(f[j - 1], s[j])
        <5> DEFINE k == i - 1
        <5>1. Joins(f, s, k)
          BY <2>1
        <5>2. j < i => j \in 1..k
          OBVIOUS
        <5> HIDE DEF k
        <5> QED
          BY <3>2, <5>1, <5>2, JoinsAt
      <4> QED
        BY <3>2, <4>2, <4>3
    <3> QED
      BY <3>1, <3>2
  <2>3. Joins(g, s, i)
    <3> DEFINE h == [j \in 1..i |-> IF j = 1 THEN s[j] ELSE Joined(g[j - 1], s[j])]
    <3>1. \A j \in 1..i : g[j] = h[j]
      BY <2>2
    <3>2. g = [j \in 1..i |-> g[j]] /\ h = [j \in 1..i |-> h[j]]
      OBVIOUS
    <3> HIDE DEF g
    <3>3. g = h
      BY <3>1, <3>2
    <3> QED
      BY <3>3 DEF Joins
  <2> QED
    BY <2>3
<1>3. n \in S
  <2> HIDE DEF S
  <2> QED
    BY <1>1, <1>2, Climb DEF Climbs
<1> QED
  BY <1>3

\* Two that start alike go on alike.
LEMMA JoinsAgree ==
  ASSUME NEW s, NEW t, NEW f, NEW g, NEW m \in Nat, NEW n \in Nat, NEW k \in Nat,
         Joins(f, s, m), Joins(g, t, n), k <= m, k <= n, \A i \in 1..k : s[i] = t[i]
  PROVE  k > 0 => f[k] = g[k]
<1> DEFINE S == {i \in 0..k : i > 0 => f[i] = g[i]}
<1>1. 0 \in S
  OBVIOUS
<1>2. ASSUME NEW i \in 1..k, i - 1 \in S PROVE i \in S
  <2>1. /\ f[i] = (IF i = 1 THEN s[i] ELSE Joined(f[i - 1], s[i]))
        /\ g[i] = (IF i = 1 THEN t[i] ELSE Joined(g[i - 1], t[i]))
    <3>1. i \in 1..m /\ i \in 1..n
      OBVIOUS
    <3> QED
      BY <3>1, JoinsAt
  <2>2. i # 1 => f[i - 1] = g[i - 1]
    BY <1>2
  <2> QED
    BY <2>1, <2>2
<1>3. k \in S
  <2> HIDE DEF S
  <2> QED
    BY <1>1, <1>2, Climb DEF Climbs
<1> QED
  BY <1>3

LEMMA FlattenIs ==
  ASSUME NEW s, NEW n \in Nat \ {0}, Len(s) = n
  PROVE  \E f : Joins(f, s, n) /\ FlattenSeq(s) = f[n]
<1> DEFINE F == CHOOSE f : f = [i \in 1..n |-> IF i = 1 THEN s[i] ELSE Joined(f[i - 1], s[i])]
<1>1. Joins(F, s, n)
  BY JoinsExist DEF Joins
<1>2. FlattenSeq(s) = F[n]
  BY DEF FlattenSeq, Joined
<1> QED
  BY <1>1, <1>2

\* One more at the end.
LEMMA FlattenMore ==
  ASSUME NEW n \in Nat, NEW s, NEW t, Len(s) = n, Len(t) = n + 1,
         n = 0 => s = <<>>, \A i \in 1..n : s[i] = t[i],
         NEW S, t[n + 1] \in Seq(S)
  PROVE  FlattenSeq(t) = FlattenSeq(s) \o t[n + 1]
<1> DEFINE m == n + 1
<1>1. m \in Nat \ {0} /\ Len(t) = m
  OBVIOUS
<1> HIDE DEF m
<1>2. PICK g : Joins(g, t, m) /\ FlattenSeq(t) = g[m]
  BY <1>1, FlattenIs
<1>3. CASE n = 0
  <2>1. g[m] = t[m] /\ m = 1
    BY <1>1, <1>2, <1>3, JoinsAt DEF m
  <2>2. s = <<>>
    BY <1>3
  <2>3. FlattenSeq(s) = <<>>
    BY <2>2 DEF FlattenSeq
  <2>4. t[n + 1] = t[m]
    BY DEF m
  <2>5. <<>> \o t[m] = t[m]
    BY <2>4
  <2> QED
    BY <1>2, <2>1, <2>3, <2>4, <2>5
<1>4. CASE n # 0
  <2>1. PICK f : Joins(f, s, n) /\ FlattenSeq(s) = f[n]
    BY <1>4, FlattenIs
  <2>2. f[n] = g[n]
    BY <1>1, <1>2, <1>4, <2>1, JoinsAgree DEF m
  <2>3. g[m] = Joined(g[m - 1], t[m]) /\ m - 1 = n
    <3>1. m \in 1..m /\ m # 1 /\ m - 1 = n
      BY <1>1, <1>4 DEF m
    <3>2. Joins(g, t, m)
      BY <1>2
    <3>3. g[m] = Joined(g[m - 1], t[m])
      BY <3>1, <3>2, JoinsAt
    <3> QED
      BY <3>1, <3>3
  <2> QED
    BY <1>2, <2>1, <2>2, <2>3 DEF m, Joined
<1> QED
  BY <1>3, <1>4

-----------------------------------------------------------------------------
(* Chains. *)

\* The first n of p are those of the chain from sector b.
Follows(next, p, n, b) ==
  /\ n > 0 => p[1] = b
  /\ \A i \in 1..(n - 1) : p[i + 1] = next[p[i]]

\* p is the way from sector b, n sectors long, to what follows them.
Way(next, p, n, b, at, visited) ==
  /\ n \in Nat /\ p \in [1..n -> Blocks]
  /\ Follows(next, p, n, b)
  /\ \A i, j \in 1..n : p[i] = p[j] => i = j
  /\ visited = {p[i] : i \in 1..n}
  /\ at = IF n = 0 THEN b ELSE next[p[n]]

LEMMA WayStarts ==
  ASSUME NEW next, NEW b
  PROVE  Way(next, <<>>, 0, b, b, {})
BY DEF Way, Follows

Onward(p, n, b) == [i \in 1..(n + 1) |-> IF i <= n THEN p[i] ELSE b]

LEMMA WayGoesOn ==
  ASSUME NEW next, NEW p, NEW n, NEW b, NEW at, NEW visited,
         Way(next, p, n, b, at, visited), at \in Blocks \ visited
  PROVE  Way(next, Onward(p, n, at), n + 1, b, next[at], visited \cup {at})
<1> DEFINE q == Onward(p, n, at)
<1>1. n \in Nat /\ p \in [1..n -> Blocks]
  BY DEF Way, Follows
<1>2. q \in [1..(n + 1) -> Blocks] /\ q[n + 1] = at /\ \A i \in 1..n : q[i] = p[i]
  BY <1>1 DEF Onward
<1> HIDE DEF q
<1>3. q[1] = b
  <2>1. CASE n = 0
    BY <1>2, <2>1 DEF Way, Follows
  <2>2. CASE n > 0
    BY <1>1, <1>2, <2>2 DEF Way, Follows
  <2> QED
    BY <1>1, <2>1, <2>2
<1>4. ASSUME NEW i \in 1..n PROVE q[i + 1] = next[q[i]]
  <2>1. CASE i = n
    BY <1>1, <1>2, <2>1 DEF Way, Follows
  <2>2. CASE i < n
    <3>1. i \in 1..(n - 1) /\ i + 1 \in 1..n
      BY <1>1, <2>2
    <3> QED
      BY <1>2, <3>1 DEF Way, Follows
  <2> QED
    BY <1>1, <2>1, <2>2
<1>5. \A i \in 1..n : p[i] \in visited
  BY DEF Way, Follows
<1>6. ASSUME NEW i \in 1..(n + 1), NEW j \in 1..(n + 1), q[i] = q[j] PROVE i = j
  <2>1. \A k \in 1..(n + 1) : k \in 1..n \/ k = n + 1
    BY <1>1
  <2>2. CASE i \in 1..n /\ j \in 1..n
    BY <1>2, <1>6, <2>2 DEF Way, Follows
  <2> QED
    BY <1>2, <1>5, <1>6, <2>1, <2>2
<1>7. visited \cup {at} = {q[i] : i \in 1..(n + 1)}
  <2>1. visited = {p[i] : i \in 1..n}
    BY DEF Way, Follows
  <2>2. {q[i] : i \in 1..(n + 1)} = {q[i] : i \in 1..n} \cup {q[n + 1]}
    BY <1>1
  <2>3. {q[i] : i \in 1..n} = {p[i] : i \in 1..n}
    BY <1>2
  <2> QED
    BY <1>2, <2>1, <2>2, <2>3
<1>8. Way(next, q, n + 1, b, next[at], visited \cup {at})
  BY <1>1, <1>2, <1>3, <1>4, <1>6, <1>7 DEF Way, Follows
<1> QED
  BY <1>8 DEF q

\* Two ways from a sector agree as far as both go.
LEMMA WaysAgree ==
  ASSUME NEW next, NEW b, NEW p, NEW q, NEW m \in Nat, NEW n \in Nat,
         Follows(next, p, m, b), Follows(next, q, n, b),
         NEW k \in Nat, k <= m, k <= n
  PROVE  k > 0 => p[k] = q[k]
<1> DEFINE S == {i \in 0..k : i > 0 => p[i] = q[i]}
<1>1. 0 \in S
  OBVIOUS
<1>2. ASSUME NEW i \in 1..k, i - 1 \in S PROVE i \in S
  <2>1. CASE i = 1
    BY <2>1 DEF Follows
  <2>2. CASE i # 1
    <3> DEFINE j == i - 1
    <3>1. j \in 1..(m - 1) /\ j \in 1..(n - 1) /\ j + 1 = i /\ p[j] = q[j]
      BY <1>2, <2>2
    <3> HIDE DEF j
    <3>2. p[j + 1] = q[j + 1]
      BY <3>1 DEF Follows
    <3> QED
      BY <3>1, <3>2
  <2> QED
    BY <2>1, <2>2
<1>3. k \in S
  <2> HIDE DEF S
  <2> QED
    BY <1>1, <1>2, Climb DEF Climbs
<1> QED
  BY <1>3

\* A walk that cannot go on has gone the longest way there is, and the only one.
LEMMA WayIs ==
  ASSUME NEW img, NEW p, NEW n, NEW b, NEW at, NEW visited,
         Way(img.next, p, n, b, at, visited), at \notin Blocks \ visited
  PROVE  WayFrom(img, b) = p
<1> DEFINE ways == {q \in UNION {[1..k -> Blocks] : k \in 0..Cardinality(Blocks)} :
                      /\ Len(q) > 0 => q[1] = b
                      /\ \A i \in 1..(Len(q) - 1) : q[i + 1] = img.next[q[i]]
                      /\ \A i, j \in DOMAIN q : q[i] = q[j] => i = j}
           Longest(q) == \A r \in ways : Len(r) <= Len(q)
<1>1. n \in Nat /\ p \in [1..n -> Blocks]
  BY DEF Way, Follows
<1>2. Len(p) = n /\ DOMAIN p = 1..n
  BY <1>1
<1>3. n <= Cardinality(Blocks) /\ Cardinality(Blocks) \in Nat
  <2>1. p \in Injection(1..n, Blocks)
    BY <1>1 DEF Way, Follows, Injection, IsInjective
  <2>2. IsFiniteSet(Blocks)
    BY DiskAssumption
  <2>3. Cardinality(1..n) <= Cardinality(Blocks) /\ Cardinality(Blocks) \in Nat
    BY <2>1, <2>2, FS_Injection, FS_CardinalityType
  <2>4. Cardinality(1..n) = n
    BY <1>1, FS_Interval
  <2> QED
    BY <2>3, <2>4
<1>4. p \in ways
  <2>1. p \in UNION {[1..k -> Blocks] : k \in 0..Cardinality(Blocks)}
    BY <1>1, <1>3
  <2>2. /\ Len(p) > 0 => p[1] = b
        /\ \A i \in 1..(Len(p) - 1) : p[i + 1] = img.next[p[i]]
        /\ \A i, j \in DOMAIN p : p[i] = p[j] => i = j
    BY <1>1, <1>2 DEF Way, Follows
  <2> QED
    BY <2>1, <2>2
<1>5. ASSUME NEW q \in ways PROVE /\ Len(q) \in Nat /\ q \in [1..Len(q) -> Blocks]
                                  /\ Len(q) <= n
                                  /\ \A i \in 1..Len(q) : q[i] = p[i]
  <2>1. PICK k \in 0..Cardinality(Blocks) : q \in [1..k -> Blocks]
    OBVIOUS
  <2>2. Len(q) = k /\ DOMAIN q = 1..k /\ k \in Nat
    BY <1>3, <2>1
  <2>3. /\ k > 0 => q[1] = b
        /\ \A i \in 1..(k - 1) : q[i + 1] = img.next[q[i]]
        /\ \A i, j \in 1..k : q[i] = q[j] => i = j
    BY <2>2
  <2> HIDE DEF ways
  <2>4. ASSUME NEW i \in 1..k, i <= n PROVE q[i] = p[i]
    <3>1. Follows(img.next, p, n, b) /\ Follows(img.next, q, k, b)
      BY <2>3 DEF Way, Follows
    <3>2. i \in Nat /\ i > 0 /\ i <= k
      BY <2>2
    <3> QED
      BY <1>1, <2>2, <2>4, <3>1, <3>2, WaysAgree
  <2>5. k <= n
    <3> SUFFICES ASSUME n < k PROVE FALSE
      BY <1>1, <2>2
    <3>1. n + 1 \in 1..k /\ n \in 0..k /\ (n > 0 => n \in 1..(k - 1))
      BY <1>1, <2>2
    <3>2. q[n + 1] = at
      <4>1. CASE n = 0
        BY <2>3, <3>1, <4>1 DEF Way, Follows
      <4>2. CASE n > 0
        <5>1. n \in 1..k /\ n <= n
          BY <1>1, <3>1, <4>2
        <5>2. q[n] = p[n]
          BY <2>4, <5>1
        <5>3. q[n + 1] = img.next[q[n]]
          BY <2>3, <3>1, <4>2
        <5> QED
          BY <4>2, <5>2, <5>3 DEF Way, Follows
      <4> QED
        BY <1>1, <4>1, <4>2
    <3>3. at \in visited
      BY <2>1, <3>1, <3>2
    <3>4. PICK i \in 1..n : at = p[i]
      BY <3>3 DEF Way, Follows
    <3>5. i \in 1..k /\ i <= n /\ i # n + 1
      BY <1>1, <2>2
    <3>6. q[i] = p[i]
      BY <2>4, <3>5
    <3> QED
      BY <2>3, <3>1, <3>2, <3>4, <3>5, <3>6
  <2> QED
    BY <1>1, <2>1, <2>2, <2>4, <2>5
<1>6. WayFrom(img, b) = CHOOSE q \in ways : Longest(q)
  BY DEF WayFrom
<1> DEFINE c == CHOOSE q \in ways : Longest(q)
<1>7. Longest(p)
  BY <1>2, <1>5
<1>8. c \in ways /\ Longest(c)
  <2> HIDE DEF ways, Longest
  <2> QED
    BY <1>4, <1>7
<1>9. c = p
  <2>1. Len(p) <= Len(c)
    BY <1>4, <1>8
  <2> HIDE DEF c, ways, Longest
  <2>2. /\ Len(c) \in Nat /\ c \in [1..Len(c) -> Blocks] /\ Len(c) <= n
        /\ \A i \in 1..Len(c) : c[i] = p[i]
    BY <1>5, <1>8
  <2>3. Len(c) = n
    <3>1. n <= Len(c) /\ Len(c) <= n
      BY <1>2, <2>1, <2>2
    <3>2. \A k \in Nat : n <= k /\ k <= n => k = n
      BY <1>1
    <3> QED
      BY <2>2, <3>1, <3>2
  <2>4. c \in [1..n -> Blocks] /\ \A i \in 1..n : c[i] = p[i]
    BY <2>2, <2>3
  <2> QED
    BY <1>1, <2>4
<1> QED
  BY <1>6, <1>9

\* What is read along a way, when F is what each sector holds.
ReadOf(F, p, n) == FlattenSeq([i \in 1..n |-> F[p[i]]])

LEMMA ReadNone ==
  ASSUME NEW F, NEW p
  PROVE  ReadOf(F, p, 0) = <<>>
<1> DEFINE s == [i \in 1..0 |-> F[p[i]]]
<1>1. s = <<>>
  OBVIOUS
<1> QED
  BY <1>1 DEF ReadOf, FlattenSeq

LEMMA ReadMore ==
  ASSUME NEW S, NEW F \in [Blocks -> Seq(S)],
         NEW next, NEW p, NEW n, NEW b, NEW at, NEW visited,
         Way(next, p, n, b, at, visited), at \in Blocks \ visited
  PROVE  ReadOf(F, Onward(p, n, at), n + 1) = ReadOf(F, p, n) \o F[at]
<1> DEFINE q == Onward(p, n, at)
           m == n + 1
           s == [i \in 1..n |-> F[p[i]]]
           t == [i \in 1..m |-> F[q[i]]]
<1>1. n \in Nat /\ p \in [1..n -> Blocks]
  BY DEF Way
<1>2. q[n + 1] = at /\ \A i \in 1..n : q[i] = p[i]
  BY <1>1 DEF Onward
<1> HIDE DEF q
<1>3. /\ Len(s) = n /\ Len(t) = n + 1 /\ \A i \in 1..n : s[i] = t[i]
      /\ n = 0 => s = <<>>
  BY <1>1, <1>2
<1>4. t[n + 1] = F[at] /\ F[at] \in Seq(S)
  BY <1>1, <1>2
<1>5. ReadOf(F, q, n + 1) = FlattenSeq(t) /\ ReadOf(F, p, n) = FlattenSeq(s)
  BY DEF ReadOf
<1> HIDE DEF s, t, m
<1>6. FlattenSeq(t) = FlattenSeq(s) \o t[n + 1]
  BY <1>1, <1>3, <1>4, FlattenMore
<1> QED
  BY <1>4, <1>5, <1>6 DEF q

-----------------------------------------------------------------------------
(* Entries and bytes. *)

Upto(kept, k) == {j \in kept : j <= k}

LEMMA UptoMore ==
  ASSUME NEW l \in Nat, NEW kept \in SUBSET (1..l), NEW k \in 1..l, NEW h \in Nat, k = h + 1
  PROVE  /\ Cardinality(Upto(kept, h)) \in Nat
         /\ Cardinality(Upto(kept, k))
              = Cardinality(Upto(kept, h)) + (IF k \in kept THEN 1 ELSE 0)
<1>1. IsFiniteSet(1..l)
  BY FS_Interval
<1>2. IsFiniteSet(kept)
  BY <1>1, FS_Subset
<1>3. \A j \in kept : j \in Nat /\ (j <= k <=> j <= h \/ j = k)
  OBVIOUS
<1>4. Upto(kept, h) \subseteq kept /\ k \notin Upto(kept, h)
  BY DEF Upto
<1>5. IsFiniteSet(Upto(kept, h)) /\ Cardinality(Upto(kept, h)) \in Nat
  BY <1>2, <1>4, FS_Subset, FS_CardinalityType
<1>6. CASE k \in kept
  <2>1. Upto(kept, k) = Upto(kept, h) \cup {k}
    BY <1>3, <1>6 DEF Upto
  <2> QED
    BY <1>4, <1>5, <1>6, <2>1, FS_AddElement
<1>7. CASE k \notin kept
  <2>1. Upto(kept, k) = Upto(kept, h)
    BY <1>3, <1>7 DEF Upto
  <2> QED
    BY <1>5, <1>7, <2>1
<1> QED
  BY <1>6, <1>7

\* The entries that are listed are as many as there are to list.
LEMMA RankTaken ==
  ASSUME NEW l \in Nat, NEW kept \in SUBSET (1..l), NEW n \in 1..Cardinality(kept)
  PROVE  \E i \in kept : Cardinality(Upto(kept, i)) = n
<1> DEFINE S == {k \in 0..l : Cardinality(Upto(kept, k)) >= n =>
                                \E i \in kept : Cardinality(Upto(kept, i)) = n}
<1>1. n \in Nat \ {0} /\ n <= Cardinality(kept) /\ Cardinality(kept) \in Nat
  <2>1. IsFiniteSet(1..l)
    BY FS_Interval
  <2>2. IsFiniteSet(kept)
    BY <2>1, FS_Subset
  <2> QED
    BY <2>2, FS_CardinalityType
<1>2. 0 \in S
  <2>1. Upto(kept, 0) = {}
    <3>1. \A j \in kept : ~(j <= 0)
      OBVIOUS
    <3> HIDE DEF S
    <3> QED
      BY <3>1, Zenon DEF Upto
  <2>2. Cardinality(Upto(kept, 0)) = 0
    BY <2>1, FS_EmptySet
  <2> QED
    BY <1>1, <2>2
<1>3. ASSUME NEW k \in 1..l, k - 1 \in S PROVE k \in S
  <2> DEFINE h == k - 1
  <2>1. h \in Nat /\ k = h + 1 /\ h \in S
    BY <1>3
  <2> HIDE DEF h
  <2>2. /\ Cardinality(Upto(kept, h)) \in Nat
        /\ Cardinality(Upto(kept, k))
             = Cardinality(Upto(kept, h)) + (IF k \in kept THEN 1 ELSE 0)
    BY <2>1, UptoMore
  <2>3. CASE Cardinality(Upto(kept, h)) >= n
    BY <2>1, <2>3
  <2>4. CASE Cardinality(Upto(kept, h)) < n
    <3>1. Cardinality(Upto(kept, k)) >= n => k \in kept /\ Cardinality(Upto(kept, k)) = n
      BY <1>1, <2>2, <2>4
    <3> QED
      BY <3>1
  <2> QED
    BY <1>1, <2>2, <2>3, <2>4
<1>4. l \in S
  <2> HIDE DEF S
  <2> QED
    BY <1>2, <1>3, Climb DEF Climbs
<1>5. Upto(kept, l) = kept
  <2>1. \A j \in kept : j <= l
    OBVIOUS
  <2> HIDE DEF S
  <2> QED
    BY <2>1, Zenon DEF Upto
<1> QED
  BY <1>1, <1>4, <1>5

LEMMA ListedOK ==
  ASSUME NEW slots \in Seq(File)
  PROVE  Listed(slots) \in Seq(File)
<1> DEFINE kept == {i \in DOMAIN slots : slots[i].type # "DEL"}
           At(n) == CHOOSE i \in kept : Cardinality({j \in kept : j <= i}) = n
<1>1. Len(slots) \in Nat /\ kept \in SUBSET (1..Len(slots))
  OBVIOUS
<1>2. IsFiniteSet(kept)
  BY <1>1, FS_Interval, FS_Subset
<1>3. Cardinality(kept) \in Nat
  BY <1>2, FS_CardinalityType
<1>4. ASSUME NEW n \in 1..Cardinality(kept) PROVE slots[At(n)] \in File
  <2> HIDE DEF kept
  <2>1. \E i \in kept : Cardinality({j \in kept : j <= i}) = n
    BY <1>1, RankTaken DEF Upto
  <2>2. At(n) \in kept
    BY <2>1
  <2> HIDE DEF At
  <2>3. At(n) \in 1..Len(slots)
    BY <1>1, <2>2
  <2> QED
    BY <2>3
<1>5. Listed(slots) = [n \in 1..Cardinality(kept) |-> slots[At(n)]]
  BY DEF Listed
<1> HIDE DEF kept, At
<1> QED
  BY <1>3, <1>4, <1>5

ListedIn(img) == [b \in Blocks |-> Listed(img.slots[b])]
BytesIn(img)  ==
  [b \in Blocks |-> CellsOf(b, IF img.next[b] = End THEN img.used[b] ELSE Cells)]

LEMMA CellsOK ==
  ASSUME NEW b \in Blocks, NEW n \in Nat
  PROVE  CellsOf(b, n) \in Seq(Int)
<1>1. ASSUME NEW i \in 1..n PROVE Cell(b, i) \in Int
  BY DiskAssumption, RamAssumption DEF Cell, Ram
<1> QED
  BY <1>1 DEF CellsOf

LEMMA SectorsOK ==
  ASSUME NEW img \in Images
  PROVE  /\ ListedIn(img) \in [Blocks -> Seq(File)]
         /\ BytesIn(img) \in [Blocks -> Seq(Int)]
<1>1. /\ img.next \in [Blocks -> Link] /\ img.used \in [Blocks -> 0..Cells]
      /\ img.slots \in [Blocks -> Seq(File)]
  BY ImageAssumption DEF Image
<1>2. \A b \in Blocks : Listed(img.slots[b]) \in Seq(File)
  BY <1>1, ListedOK
<1>3. ASSUME NEW b \in Blocks
      PROVE  CellsOf(b, IF img.next[b] = End THEN img.used[b] ELSE Cells) \in Seq(Int)
  <2>1. (IF img.next[b] = End THEN img.used[b] ELSE Cells) \in Nat
    BY <1>1, DiskAssumption
  <2> QED
    BY <2>1, CellsOK
<1> QED
  BY <1>2, <1>3 DEF ListedIn, BytesIn

LEMMA EntriesAre ==
  ASSUME NEW img, NEW p, NEW n, NEW at, NEW visited,
         Way(img.next, p, n, img.next[Header], at, visited), at \notin Blocks \ visited
  PROVE  Entries(img) = ReadOf(ListedIn(img), p, n)
<1>1. WayFrom(img, img.next[Header]) = p
  BY WayIs
<1>2. p \in [1..n -> Blocks]
  BY DEF Way
<1>3. [i \in DOMAIN p |-> Listed(img.slots[p[i]])] = [i \in 1..n |-> ListedIn(img)[p[i]]]
  BY <1>2 DEF ListedIn
<1> QED
  BY <1>1, <1>3 DEF Entries, ReadOf

LEMMA ContentsAre ==
  ASSUME NEW img, NEW b, NEW p, NEW n, NEW at, NEW visited,
         Way(img.next, p, n, b, at, visited), at \notin Blocks \ visited
  PROVE  Contents(img, b) = ReadOf(BytesIn(img), p, n)
<1>1. WayFrom(img, b) = p
  BY WayIs
<1>2. p \in [1..n -> Blocks]
  BY DEF Way
<1>3. [i \in DOMAIN p |-> CellsOf(p[i], IF img.next[p[i]] = End THEN img.used[p[i]] ELSE Cells)]
        = [i \in 1..n |-> BytesIn(img)[p[i]]]
  BY <1>2 DEF BytesIn
<1> QED
  BY <1>1, <1>3 DEF Contents, ReadOf

-----------------------------------------------------------------------------
(* Types. *)

Phases == {"idle", "directory", "chain", "done"}
Walk   == [phase : Phases, for : {"load", "start"}, at : Link, visited : SUBSET Blocks,
           files : Seq(File), prg : Seq(Int)]
Asked  == [name : Seq(STRING), device : Nat, verify : Nat, secondary : Nat, address : Ram]

\* What the model's bound has spent is left out.
DiskTypeOK ==
  /\ disk \in Images \cup {NoDisk} /\ kernal_on \in BOOLEAN
  /\ pc \in Ram /\ a \in Nat /\ carry \in BOOLEAN /\ xy \in Ram /\ sp \in 0..(Slots - 1)
  /\ RAM \in [Ram -> Int]
  /\ request \in Asked
  /\ walk \in Walk /\ (walk.phase = "idle" => walk = Idle) /\ (walk # Idle => disk \in Images)

LEMMA RamIs ==
  /\ \A x \in Int : x % Size \in Ram
  /\ \A i \in 0..(Slots - 1) : /\ Stack + i \in Ram \ {STATUS, END_ADDR}
                               /\ (i + 1) % Slots \in 0..(Slots - 1)
                               /\ (i + Slots - 1) % Slots \in 0..(Slots - 1)
  /\ {VERIFY, STATUS, END_ADDR, VARTAB, NDX, Trap, Basic} \subseteq Ram
  /\ Ram \subseteq Int /\ 0 \in Ram
<1>1. \A x \in Int : x % Size \in Ram
  BY RamAssumption DEF Ram
<1>2. \A i \in 0..(Slots - 1) : /\ (i + 1) % Slots \in 0..(Slots - 1)
                                /\ (i + Slots - 1) % Slots \in 0..(Slots - 1)
  BY RamAssumption
<1>3. \A i \in 0..(Slots - 1) : Stack + i \in Stack..(Stack + Slots - 1)
  BY RamAssumption
<1> QED
  BY <1>1, <1>2, <1>3, RamAssumption DEF Ram

LEMMA RamInt == Ram \subseteq Int /\ Basic \in Int
BY RamAssumption DEF Ram

LEMMA IdleOK == Idle \in Walk /\ NoRequest \in Asked
BY RamIs DEF Idle, Walk, Phases, Link, NoRequest, Asked

\* The links, entries and use of an image's sectors.
LEMMA ImageIs ==
  ASSUME NEW img \in Images
  PROVE  /\ img.next \in [Blocks -> Link] /\ img.used \in [Blocks -> 0..Cells]
         /\ img.slots \in [Blocks -> Seq(File)]
         /\ img.next[Header] \in Link
BY ImageAssumption, DiskAssumption DEF Image

\* What a chain's sector adds is what the image has in it.
LEMMA SectorIs ==
  ASSUME disk \in Images, NEW b \in Blocks
  PROVE  /\ Listed(disk.slots[b]) = ListedIn(disk)[b] /\ Listed(disk.slots[b]) \in Seq(File)
         /\ CellsOf(b, Used(b)) = BytesIn(disk)[b] /\ CellsOf(b, Used(b)) \in Seq(Int)
<1>1. /\ Listed(disk.slots[b]) = ListedIn(disk)[b]
      /\ CellsOf(b, Used(b)) = BytesIn(disk)[b]
  BY DEF ListedIn, BytesIn, Used
<1> QED
  BY <1>1, SectorsOK

LEMMA ListingOK ==
  ASSUME NEW files \in Seq(File)
  PROVE  Listing(files) \in Seq(Int)
<1> DEFINE ones == [i \in 1..(Len(files) + 2) |-> 1]
<1>1. Basic \in Int
  BY RamIs
<1>2. ones \in Seq(Int)
  OBVIOUS
<1> HIDE DEF ones
<1> QED
  BY <1>1, <1>2 DEF Listing

LEMMA FirstOK ==
  ASSUME NEW files \in Seq(File), NEW p, Fitting(files, p) # {}
  PROVE  files[First(Fitting(files, p))].first \in Link
<1> DEFINE fit == Fitting(files, p)
           R == OpToRel(<, Nat)
<1>1. fit \subseteq DOMAIN files /\ fit \subseteq Nat
  BY DEF Fitting
<1> HIDE DEF fit
<1>2. PICK i \in fit : \A j \in fit : ~(<<j, i>> \in R)
  <2> HIDE DEF R
  <2>1. IsWellFoundedOn(R, Nat)
    BY NatLessThanWellFounded DEF R
  <2> QED
    BY <1>1, <2>1, WFMin, Zenon DEF fit
<1>3. \A j \in fit : i <= j
  <2> SUFFICES ASSUME NEW j \in fit PROVE i <= j
    OBVIOUS
  <2>1. i \in Nat /\ j \in Nat
    BY <1>1
  <2>2. j < i => <<j, i>> \in R
    BY <2>1 DEF OpToRel
  <2> HIDE DEF R
  <2> QED
    BY <1>2, <2>1, <2>2
<1>4. First(fit) \in fit
  <2> HIDE DEF R
  <2> QED
    BY <1>2, <1>3 DEF First
<1>5. files[First(fit)] \in File
  BY <1>1, <1>4
<1> QED
  BY <1>5 DEF fit, File

LEMMA DiskInitType == DiskInit => DiskTypeOK
<1> SUFFICES ASSUME DiskInit PROVE DiskTypeOK
  OBVIOUS
<1>1. pc \in Ram /\ sp \in 0..(Slots - 1) /\ xy \in Ram /\ RAM \in [Ram -> Int]
  BY RamIs, RamAssumption DEF DiskInit
<1> QED
  BY <1>1, IdleOK DEF DiskInit, DiskTypeOK

\* A set of numbers up to n has a greatest.
LEMMA Greatest ==
  ASSUME NEW n \in Nat, NEW T \in SUBSET (1..n), T # {}
  PROVE  \E i \in T : \A j \in T : j <= i
<1> DEFINE S == {k \in 0..n : (\E j \in T : j <= k) =>
                                \E i \in T : \A j \in T : j <= k => j <= i}
<1>1. 0 \in S
  OBVIOUS
<1>2. ASSUME NEW k \in 1..n, k - 1 \in S PROVE k \in S
  <2>1. CASE k \in T
    BY <2>1
  <2>2. CASE k \notin T
    <3> DEFINE h == k - 1
    <3>1. h \in S /\ \A j \in T : j <= k <=> j <= h
      BY <1>2, <2>2
    <3> HIDE DEF h
    <3> QED
      BY <3>1
  <2> QED
    BY <2>1, <2>2
<1>3. n \in S
  <2> HIDE DEF S
  <2> QED
    BY <1>1, <1>2, Climb DEF Climbs
<1>4. \A j \in T : j <= n
  OBVIOUS
<1>5. PICK i \in T : \A j \in T : j <= n => j <= i
  BY <1>3, <1>4
<1> QED
  BY <1>4, <1>5

LEMMA CopiedOK ==
  ASSUME RAM \in [Ram -> Int], NEW prg \in Seq(Int), NEW load \in Int
  PROVE  Copied(prg, load) \in [Ram -> Int]
<1> SUFFICES ASSUME NEW x \in Ram PROVE Copied(prg, load)[x] \in Int
  BY DEF Copied
<1> DEFINE at == {i \in 2..Len(prg) : (load + i - 2) % Size = x}
<1>1. Copied(prg, load)[x] = IF at = {} THEN RAM[x] ELSE prg[CHOOSE i \in at : \A j \in at : j <= i]
  BY DEF Copied
<1>2. RAM[x] \in Int
  OBVIOUS
<1>3. at \in SUBSET (1..Len(prg)) /\ Len(prg) \in Nat
  OBVIOUS
<1> HIDE DEF at
<1> DEFINE last == CHOOSE i \in at : \A j \in at : j <= i
<1>4. at # {} => last \in at
  BY <1>3, Greatest
<1> HIDE DEF last
<1>5. ASSUME at # {} PROVE prg[last] \in Int
  <2>1. last \in 1..Len(prg)
    BY <1>3, <1>4, <1>5
  <2> QED
    BY <2>1
<1> QED
  BY <1>1, <1>2, <1>5 DEF last

LEMMA CallLoadType ==
  ASSUME DiskTypeOK, NEW caller \in Callers, NEW r \in Requests, CallLoad(caller, r)
  PROVE  DiskTypeOK'
<1>1. /\ r \in Asked /\ r.verify \in Nat
  BY RequestAssumption DEF Asked
<1>2. Stack + sp \in Ram /\ caller \in Int
  BY RamIs, RamAssumption DEF DiskTypeOK
<1>3. RAM' \in [Ram -> Int] /\ sp' \in 0..(Slots - 1)
  BY <1>2, RamIs DEF DiskTypeOK, CallLoad
<1> QED
  BY <1>1, <1>3, RamIs DEF DiskTypeOK, CallLoad

LEMMA PushType ==
  ASSUME DiskTypeOK, NEW caller \in Callers, Push(caller)
  PROVE  DiskTypeOK'
<1>1. Stack + sp \in Ram /\ caller \in Int
  BY RamIs, RamAssumption DEF DiskTypeOK
<1>2. RAM' \in [Ram -> Int] /\ sp' \in 0..(Slots - 1)
  BY <1>1, RamIs DEF DiskTypeOK, Push
<1> QED
  BY <1>2 DEF DiskTypeOK, Push

\* A return address is a cell of the stack.
LEMMA PoppedOK ==
  ASSUME DiskTypeOK
  PROVE  /\ Popped \in 0..(Slots - 1) /\ Stack + Popped \in Ram \ {STATUS, END_ADDR}
         /\ (RAM[Stack + Popped] + 1) % Size \in Ram
<1>1. Popped \in 0..(Slots - 1)
  BY RamIs DEF DiskTypeOK, Popped
<1>2. Stack + Popped \in Ram \ {STATUS, END_ADDR}
  BY <1>1, RamIs
<1>3. RAM[Stack + Popped] + 1 \in Int
  BY <1>2 DEF DiskTypeOK
<1> QED
  BY <1>1, <1>2, <1>3, RamIs

LEMMA StartOK ==
  ASSUME NEW for \in {"load", "start"}, NEW img \in Images
  PROVE  /\ Start(for, img) \in Walk /\ Start(for, img).phase = "directory"
         /\ Start(for, img) # Idle
BY ImageIs DEF Start, Walk, Phases, Idle

LEMMA TrapStartsType == DiskTypeOK /\ TrapStarts => DiskTypeOK'
<1> SUFFICES ASSUME DiskTypeOK, TrapStarts PROVE DiskTypeOK'
  OBVIOUS
<1>1. disk \in Images
  BY DEF DiskTypeOK, TrapStarts, Trapped
<1>2. RAM' \in [Ram -> Int]
  <2>1. RAM' = [RAM EXCEPT ![VERIFY] = 0, ![STATUS] = 0] /\ RAM \in [Ram -> Int]
    BY DEF DiskTypeOK, TrapStarts
  <2> DEFINE once == [RAM EXCEPT ![VERIFY] = 0]
  <2>2. once \in [Ram -> Int]
    BY <2>1, RamIs
  <2>3. RAM' = [once EXCEPT ![STATUS] = 0]
    BY <2>1
  <2> HIDE DEF once
  <2> QED
    BY <2>2, <2>3, RamIs
<1>3. walk' \in Walk /\ walk'.phase = "directory" /\ walk' # Idle
  BY <1>1, StartOK DEF TrapStarts
<1> QED
  BY <1>1, <1>2, <1>3 DEF DiskTypeOK, TrapStarts, cpu

LEMMA UntrappedType == DiskTypeOK /\ Untrapped => DiskTypeOK'
BY PoppedOK DEF DiskTypeOK, Untrapped, NotFound

\* The step of a walk, by the fields it changes.
LEMMA WalkType ==
  ASSUME DiskTypeOK, walk # Idle, UNCHANGED <<disk, kernal_on, cpu, RAM, request>>,
         NEW w \in Walk, walk' = w, w.phase # "idle"
  PROVE  DiskTypeOK'
<1>1. w # Idle
  BY DEF Idle
<1> QED
  BY <1>1 DEF DiskTypeOK, cpu

LEMMA NotIdle == DiskTypeOK /\ walk.phase # "idle" => walk # Idle /\ disk \in Images
BY DEF DiskTypeOK, Idle

LEMMA ReadDirectoryType == DiskTypeOK /\ ReadDirectorySector => DiskTypeOK'
<1> SUFFICES ASSUME DiskTypeOK, ReadDirectorySector PROVE DiskTypeOK'
  OBVIOUS
<1>1. walk # Idle /\ disk \in Images
  BY NotIdle DEF ReadDirectorySector
<1>2. walk \in Walk /\ walk.at \in Blocks /\ walk.phase = "directory"
  BY DEF DiskTypeOK, ReadDirectorySector, Unread
<1>3. Listed(disk.slots[walk.at]) \in Seq(File) /\ disk.next[walk.at] \in Link
  BY <1>1, <1>2, SectorIs, ImageIs
<1> DEFINE w == [walk EXCEPT !.visited = @ \cup {walk.at}, !.at = disk.next[walk.at],
                   !.files = @ \o Listed(disk.slots[walk.at])]
<1>4. walk.files \o Listed(disk.slots[walk.at]) \in Seq(File)
  BY <1>2, <1>3 DEF Walk
<1>5. w \in Walk /\ w.phase = "directory"
  BY <1>2, <1>3, <1>4 DEF Walk
<1>6. walk' = w /\ UNCHANGED <<disk, kernal_on, cpu, RAM, request>>
  BY DEF ReadDirectorySector
<1> HIDE DEF w
<1> QED
  BY <1>1, <1>5, <1>6, WalkType

LEMMA ReadFileType == DiskTypeOK /\ ReadFileSector => DiskTypeOK'
<1> SUFFICES ASSUME DiskTypeOK, ReadFileSector PROVE DiskTypeOK'
  OBVIOUS
<1>1. walk # Idle /\ disk \in Images
  BY NotIdle DEF ReadFileSector
<1>2. walk \in Walk /\ walk.at \in Blocks /\ walk.phase = "chain"
  BY DEF DiskTypeOK, ReadFileSector, Unread
<1>3. CellsOf(walk.at, Used(walk.at)) \in Seq(Int) /\ disk.next[walk.at] \in Link
  BY <1>1, <1>2, SectorIs, ImageIs
<1> DEFINE w == [walk EXCEPT !.visited = @ \cup {walk.at}, !.at = disk.next[walk.at],
                   !.prg = @ \o CellsOf(walk.at, Used(walk.at))]
<1>4. walk.prg \o CellsOf(walk.at, Used(walk.at)) \in Seq(Int)
  BY <1>2, <1>3 DEF Walk
<1>5. w \in Walk /\ w.phase = "chain"
  BY <1>2, <1>3, <1>4 DEF Walk
<1>6. walk' = w /\ UNCHANGED <<disk, kernal_on, cpu, RAM, request>>
  BY DEF ReadFileSector
<1> HIDE DEF w
<1> QED
  BY <1>1, <1>5, <1>6, WalkType

LEMMA ChainEndsType == DiskTypeOK /\ ChainEnds => DiskTypeOK'
<1> SUFFICES ASSUME DiskTypeOK, ChainEnds PROVE DiskTypeOK'
  OBVIOUS
<1>1. walk # Idle
  BY NotIdle DEF ChainEnds
<1> DEFINE w == [walk EXCEPT !.phase = "done"]
<1>2. w \in Walk /\ w.phase = "done"
  BY DEF DiskTypeOK, Walk, Phases
<1>3. walk' = w /\ UNCHANGED <<disk, kernal_on, cpu, RAM, request>>
  BY DEF ChainEnds
<1> HIDE DEF w
<1> QED
  BY <1>1, <1>2, <1>3, WalkType

LEMMA DirectoryEndsType == DiskTypeOK /\ DirectoryEnds => DiskTypeOK'
<1> SUFFICES ASSUME DiskTypeOK, DirectoryEnds PROVE DiskTypeOK'
  OBVIOUS
<1>1. walk # Idle
  BY NotIdle DEF DirectoryEnds
<1> DEFINE fit == Fitting(walk.files, Pattern)
           first == walk.files[First(fit)].first
<1>2. walk \in Walk /\ walk.files \in Seq(File)
  BY DEF DiskTypeOK, Walk
<1>3. fit # {} => first \in Link
  BY <1>2, FirstOK
<1>4. Listing(walk.files) \in Seq(Int)
  BY <1>2, ListingOK
<1>5. /\ \/ walk' = [walk EXCEPT !.phase = "done", !.prg = Listing(walk.files)]
         \/ walk' = [walk EXCEPT !.phase = "done"]
         \/ fit # {} /\ walk' = [walk EXCEPT !.phase = "chain", !.at = first, !.visited = {}]
      /\ UNCHANGED <<disk, kernal_on, cpu, RAM, request>>
  BY DEF DirectoryEnds
<1> HIDE DEF fit, first
<1> DEFINE w == walk'
<1>6. walk' \in Walk /\ walk'.phase # "idle"
  BY <1>2, <1>3, <1>4, <1>5 DEF Walk, Phases
<1> QED
  BY <1>1, <1>5, <1>6 DEF DiskTypeOK, Idle, cpu

LEMMA AfterOK ==
  ASSUME NEW prg \in Seq(Int), NEW load \in Int
  PROVE  After(prg, load) \in Ram
<1>1. load + Len(prg) - 1 \in Int
  OBVIOUS
<1> QED
  BY <1>1, RamIs DEF After

LEMMA LoadAddressOK ==
  ASSUME DiskTypeOK, Len(walk.prg) >= 2
  PROVE  LoadAddress \in Int /\ walk.prg \in Seq(Int)
<1>1. walk.prg \in Seq(Int) /\ request.address \in Int
  BY RamIs DEF DiskTypeOK, Walk, Asked
<1>2. walk.prg[1] \in Int
  BY <1>1
<1> QED
  BY <1>1, <1>2 DEF LoadAddress

LEMMA ResultsOK ==
  ASSUME DiskTypeOK, NEW load \in Int
  PROVE  Results(load) \in [Ram -> Int]
<1>1. walk.prg \in Seq(Int) /\ RAM \in [Ram -> Int]
  BY DEF DiskTypeOK, Walk
<1>2. Copied(walk.prg, load) \in [Ram -> Int]
  BY <1>1, CopiedOK
<1>3. After(walk.prg, load) \in Int /\ Eoi \in Int
  <2>1. After(walk.prg, load) \in Ram
    BY <1>1, AfterOK
  <2>2. Eoi \in Int
    BY DEF Eoi
  <2>3. After(walk.prg, load) \in Int
    BY <2>1, RamInt
  <2> QED
    BY <2>2, <2>3
<1> DEFINE once == [Copied(walk.prg, load) EXCEPT ![END_ADDR] = After(walk.prg, load)]
<1>4. once \in [Ram -> Int]
  BY <1>2, <1>3, RamIs
<1>5. Results(load) = [once EXCEPT ![STATUS] = Eoi]
  BY DEF Results
<1> HIDE DEF once
<1> QED
  BY <1>3, <1>4, <1>5, RamIs

LEMMA TrapReturnsType == DiskTypeOK /\ TrapReturns => DiskTypeOK'
<1> SUFFICES ASSUME DiskTypeOK, TrapReturns PROVE DiskTypeOK'
  OBVIOUS
<1>1. sp' \in 0..(Slots - 1) /\ pc' \in Ram
  BY PoppedOK DEF TrapReturns
<1>2. walk' = Idle /\ UNCHANGED <<disk, kernal_on, request>>
  BY DEF TrapReturns
<1>3. RAM' \in [Ram -> Int] /\ a' \in Nat /\ carry' \in BOOLEAN /\ xy' \in Ram
  <2>1. CASE Len(walk.prg) < 2
    BY <2>1 DEF TrapReturns, DiskTypeOK, NotFound
  <2>2. CASE ~(Len(walk.prg) < 2)
    <3>1. walk.prg \in Seq(Int)
      BY DEF DiskTypeOK, Walk
    <3>2. Len(walk.prg) >= 2
      BY <2>2, <3>1
    <3>3. LoadAddress \in Int
      BY <3>2, LoadAddressOK
    <3>4. /\ a' = 0 /\ carry' = FALSE /\ RAM' = Results(LoadAddress)
          /\ xy' = After(walk.prg, LoadAddress)
      BY <2>2 DEF TrapReturns
    <3> QED
      BY <3>1, <3>3, <3>4, ResultsOK, AfterOK
  <2> QED
    BY <2>1, <2>2
<1> QED
  BY <1>1, <1>2, <1>3, IdleOK DEF DiskTypeOK

LEMMA HostStartsType ==
  ASSUME NEW img \in Images, HostStarts(img)
  PROVE  DiskTypeOK'
<1>1. walk' \in Walk /\ walk'.phase = "directory" /\ disk' = img
  BY StartOK DEF HostStarts
<1>2. RAM' \in [Ram -> Int] /\ xy' \in Ram /\ pc' \in Ram
  BY RamIs, RamAssumption DEF HostStarts
<1>3. sp' \in 0..(Slots - 1)
  BY RamAssumption DEF HostStarts
<1> QED
  BY <1>1, <1>2, <1>3, IdleOK DEF DiskTypeOK, HostStarts

LEMMA HostLoadsType == DiskTypeOK /\ HostLoadsPrg => DiskTypeOK'
<1> SUFFICES ASSUME DiskTypeOK, HostLoadsPrg PROVE DiskTypeOK'
  OBVIOUS
<1>1. walk.prg \in Seq(Int) /\ RAM \in [Ram -> Int]
  BY DEF DiskTypeOK, Walk
<1>2. RAM' \in [Ram -> Int]
  <2>1. CASE Len(walk.prg) < 2 \/ walk.prg[1] + Len(walk.prg) - 1 > Size
    BY <1>1, <2>1 DEF HostLoadsPrg
  <2>2. CASE ~(Len(walk.prg) < 2 \/ walk.prg[1] + Len(walk.prg) - 1 > Size)
    <3>0. 1 \in 1..Len(walk.prg)
      BY <1>1, <2>2
    <3>1. walk.prg[1] \in Int /\ Basic \in Int
      BY <1>1, <3>0, RamInt
    <3>2. CASE walk.prg[1] # Basic
      BY <1>1, <2>2, <3>1, <3>2, CopiedOK DEF HostLoadsPrg
    <3>3. CASE walk.prg[1] = Basic
      <4> DEFINE once == [Copied(walk.prg, Basic) EXCEPT ![VARTAB] = After(walk.prg, Basic)]
      <4>1. Copied(walk.prg, Basic) \in [Ram -> Int] /\ After(walk.prg, Basic) \in Int
        BY <1>1, <3>1, CopiedOK, AfterOK, RamIs
      <4>2. once \in [Ram -> Int]
        BY <4>1, RamIs
      <4>3. RAM' = [once EXCEPT ![NDX] = 4]
        BY <2>2, <3>3 DEF HostLoadsPrg
      <4> HIDE DEF once
      <4> QED
        BY <4>2, <4>3, RamIs
    <3> QED
      BY <3>2, <3>3
  <2> QED
    BY <2>1, <2>2
<1>3. walk' = Idle /\ UNCHANGED <<disk, kernal_on, cpu, request>>
  BY DEF HostLoadsPrg
<1> QED
  BY <1>2, <1>3, IdleOK DEF DiskTypeOK, cpu

LEMMA DiskStepType == DiskTypeOK /\ [DiskNext]_diskVars => DiskTypeOK'
<1> SUFFICES ASSUME DiskTypeOK, [DiskNext]_diskVars PROVE DiskTypeOK'
  OBVIOUS
<1>1. CASE UNCHANGED diskVars
  BY <1>1 DEF diskVars, cpu, DiskTypeOK
<1>2. CASE \E caller \in Callers, r \in Requests : CallLoad(caller, r)
  BY <1>2, CallLoadType
<1>3. CASE \E caller \in Callers : Push(caller)
  BY <1>3, PushType
<1>4. CASE \E img \in Images : HostStarts(img)
  BY <1>4, HostStartsType
<1>5. CASE EjectDisk
  BY <1>5, IdleOK DEF EjectDisk, DiskTypeOK, cpu
<1>6. CASE SwitchKernal
  BY <1>6 DEF SwitchKernal, DiskTypeOK, cpu
<1>7. CASE Runs
  BY <1>7, TrapStartsType, UntrappedType, TrapReturnsType, HostLoadsType, ReadDirectoryType,
     DirectoryEndsType, ReadFileType, ChainEndsType DEF Runs
<1> QED
  BY <1>1, <1>2, <1>3, <1>4, <1>5, <1>6, <1>7 DEF DiskNext

-----------------------------------------------------------------------------
(* What a walk has read. *)

\* The sectors of the directory up to here are read, ...
DirectoryRead(img, w) ==
  /\ w.prg = <<>>
  /\ \E n, p : /\ Way(img.next, p, n, img.next[Header], w.at, w.visited)
               /\ w.files = ReadOf(ListedIn(img), p, n)

Chosen(img, pattern) == Entries(img)[First(Fitting(Entries(img), pattern))].first

\* ... and of the chosen file.
ChainRead(img, w, pattern) ==
  /\ ~IsDirectory(pattern) /\ Fitting(Entries(img), pattern) # {}
  /\ \E n, p : /\ Way(img.next, p, n, Chosen(img, pattern), w.at, w.visited)
               /\ w.prg = ReadOf(BytesIn(img), p, n)

Wanted(img, pattern) ==
  IF IsDirectory(pattern) THEN Listing(Entries(img))
  ELSE IF Fitting(Entries(img), pattern) = {} THEN <<>> ELSE Contents(img, Chosen(img, pattern))

ReadInv ==
  /\ walk.phase = "directory" => DirectoryRead(disk, walk)
  /\ walk.phase = "chain" => ChainRead(disk, walk, Pattern)
  /\ walk.phase = "done" => walk.prg = Wanted(disk, Pattern)

LEMMA WantedIsRead == ReadInv => FileRead
BY DEF ReadInv, FileRead, Wanted, Chosen

LEMMA StartReads ==
  ASSUME NEW for, NEW img, walk' = Start(for, img), disk' = img
  PROVE  ReadInv'
<1> DEFINE w == Start(for, img)
<1>1. w.phase = "directory" /\ w.prg = <<>> /\ w.files = <<>> /\ w.at = img.next[Header] /\ w.visited = {}
  BY DEF Start
<1> HIDE DEF w
<1>2. Way(img.next, <<>>, 0, img.next[Header], w.at, w.visited) /\ w.files = ReadOf(ListedIn(img), <<>>, 0)
  BY <1>1, WayStarts, ReadNone
<1>3. DirectoryRead(img, w)
  BY <1>1, <1>2 DEF DirectoryRead
<1>4. walk' = w /\ disk' = img
  BY DEF w
<1> QED
  BY <1>1, <1>3, <1>4 DEF ReadInv

LEMMA ReadDirectoryReads == DiskTypeOK /\ ReadInv /\ ReadDirectorySector => ReadInv'
<1> SUFFICES ASSUME DiskTypeOK, ReadInv, ReadDirectorySector PROVE ReadInv'
  OBVIOUS
<1>1. disk \in Images /\ walk \in Walk /\ walk.at \in Blocks \ walk.visited
  BY NotIdle DEF ReadDirectorySector, DiskTypeOK, Unread
<1>2. PICK n, p : /\ Way(disk.next, p, n, disk.next[Header], walk.at, walk.visited)
                  /\ walk.files = ReadOf(ListedIn(disk), p, n)
  BY DEF ReadInv, DirectoryRead, ReadDirectorySector
<1> DEFINE q == Onward(p, n, walk.at)
           m == n + 1
<1>3. Way(disk.next, q, m, disk.next[Header], disk.next[walk.at], walk.visited \cup {walk.at})
  BY <1>1, <1>2, WayGoesOn
<1>4. ListedIn(disk) \in [Blocks -> Seq(File)]
  BY <1>1, SectorsOK
<1>5. ReadOf(ListedIn(disk), q, m) = walk.files \o Listed(disk.slots[walk.at])
  <2>1. ReadOf(ListedIn(disk), q, m) = ReadOf(ListedIn(disk), p, n) \o ListedIn(disk)[walk.at]
    BY <1>1, <1>2, <1>4, ReadMore
  <2>2. ListedIn(disk)[walk.at] = Listed(disk.slots[walk.at])
    BY <1>1, SectorIs
  <2> QED
    BY <1>2, <2>1, <2>2
<1> HIDE DEF q, m
<1>6. /\ walk'.phase = "directory" /\ walk'.prg = <<>> /\ walk'.at = disk.next[walk.at]
      /\ walk'.visited = walk.visited \cup {walk.at}
      /\ walk'.files = walk.files \o Listed(disk.slots[walk.at])
  BY <1>1 DEF ReadDirectorySector, Walk, ReadInv, DirectoryRead
<1>7. disk' = disk
  BY DEF ReadDirectorySector
<1>8. DirectoryRead(disk, walk')
  BY <1>3, <1>5, <1>6 DEF DirectoryRead
<1> QED
  BY <1>6, <1>7, <1>8 DEF ReadInv

\* What a request is for does not change under a walk.
LEMMA SamePattern ==
  ASSUME walk'.for = walk.for, request' = request
  PROVE  Pattern' = Pattern
BY DEF Pattern

LEMMA DirectoryEndsReads == DiskTypeOK /\ ReadInv /\ DirectoryEnds => ReadInv'
<1> SUFFICES ASSUME DiskTypeOK, ReadInv, DirectoryEnds PROVE ReadInv'
  OBVIOUS
<1>1. disk \in Images /\ walk \in Walk /\ walk.at \notin Blocks \ walk.visited
  BY NotIdle DEF DirectoryEnds, DiskTypeOK, Unread
<1>2. PICK n, p : /\ Way(disk.next, p, n, disk.next[Header], walk.at, walk.visited)
                  /\ walk.files = ReadOf(ListedIn(disk), p, n)
  BY DEF ReadInv, DirectoryRead, DirectoryEnds
<1>3. walk.files = Entries(disk)
  BY <1>1, <1>2, EntriesAre
<1>4. walk.prg = <<>>
  BY DEF ReadInv, DirectoryRead, DirectoryEnds
<1>5. disk' = disk /\ request' = request
  BY DEF DirectoryEnds
<1> DEFINE fit == Fitting(Entries(disk), Pattern)
<1>6. CASE IsDirectory(Pattern)
  <2>1. walk' = [walk EXCEPT !.phase = "done", !.prg = Listing(walk.files)]
    BY <1>6 DEF DirectoryEnds
  <2>2. walk'.phase = "done" /\ walk'.prg = Listing(Entries(disk)) /\ walk'.for = walk.for
    BY <1>1, <1>3, <2>1 DEF Walk
  <2>3. Pattern' = Pattern
    BY <1>5, <2>2, SamePattern
  <2>4. walk'.prg = Wanted(disk, Pattern)
    BY <1>6, <2>2 DEF Wanted
  <2> QED
    BY <1>5, <2>2, <2>3, <2>4 DEF ReadInv
<1>7. CASE ~IsDirectory(Pattern) /\ fit = {}
  <2>1. walk' = [walk EXCEPT !.phase = "done"]
    BY <1>3, <1>7 DEF DirectoryEnds
  <2>2. walk'.phase = "done" /\ walk'.prg = <<>> /\ walk'.for = walk.for
    BY <1>1, <1>4, <2>1 DEF Walk
  <2>3. Pattern' = Pattern
    BY <1>5, <2>2, SamePattern
  <2>4. walk'.prg = Wanted(disk, Pattern)
    BY <1>7, <2>2 DEF Wanted
  <2> QED
    BY <1>5, <2>2, <2>3, <2>4 DEF ReadInv
<1>8. CASE ~IsDirectory(Pattern) /\ fit # {}
  <2>1. walk' = [walk EXCEPT !.phase = "chain", !.at = Chosen(disk, Pattern), !.visited = {}]
    BY <1>3, <1>8 DEF DirectoryEnds, Chosen
  <2>2. /\ walk'.phase = "chain" /\ walk'.prg = <<>> /\ walk'.for = walk.for
        /\ walk'.at = Chosen(disk, Pattern) /\ walk'.visited = {}
    BY <1>1, <1>4, <2>1 DEF Walk
  <2>3. Pattern' = Pattern
    BY <1>5, <2>2, SamePattern
  <2>4. /\ Way(disk.next, <<>>, 0, Chosen(disk, Pattern), walk'.at, walk'.visited)
        /\ walk'.prg = ReadOf(BytesIn(disk), <<>>, 0)
    BY <2>2, WayStarts, ReadNone
  <2>5. ChainRead(disk, walk', Pattern)
    BY <1>8, <2>4 DEF ChainRead
  <2> QED
    BY <1>5, <2>2, <2>3, <2>5 DEF ReadInv
<1> QED
  BY <1>6, <1>7, <1>8

LEMMA ReadFileReads == DiskTypeOK /\ ReadInv /\ ReadFileSector => ReadInv'
<1> SUFFICES ASSUME DiskTypeOK, ReadInv, ReadFileSector PROVE ReadInv'
  OBVIOUS
<1>1. disk \in Images /\ walk \in Walk /\ walk.at \in Blocks \ walk.visited
  BY NotIdle DEF ReadFileSector, DiskTypeOK, Unread
<1>2. PICK n, p : /\ Way(disk.next, p, n, Chosen(disk, Pattern), walk.at, walk.visited)
                  /\ walk.prg = ReadOf(BytesIn(disk), p, n)
  BY DEF ReadInv, ChainRead, ReadFileSector
<1> DEFINE q == Onward(p, n, walk.at)
           m == n + 1
<1>3. Way(disk.next, q, m, Chosen(disk, Pattern), disk.next[walk.at], walk.visited \cup {walk.at})
  BY <1>1, <1>2, WayGoesOn
<1>4. BytesIn(disk) \in [Blocks -> Seq(Int)]
  BY <1>1, SectorsOK
<1>5. ReadOf(BytesIn(disk), q, m) = walk.prg \o CellsOf(walk.at, Used(walk.at))
  <2> DEFINE F == BytesIn(disk)
             b == Chosen(disk, Pattern)
             S == Int
  <2>0. F \in [Blocks -> Seq(S)] /\ Way(disk.next, p, n, b, walk.at, walk.visited)
    BY <1>2, <1>4
  <2> HIDE DEF F, b, S
  <2>1. ReadOf(F, q, m) = ReadOf(F, p, n) \o F[walk.at]
    BY <1>1, <2>0, ReadMore
  <2>2. F[walk.at] = CellsOf(walk.at, Used(walk.at))
    BY <1>1, SectorIs DEF F
  <2> QED
    BY <1>2, <2>1, <2>2 DEF F
<1> HIDE DEF q, m
<1>6. /\ walk'.phase = "chain" /\ walk'.for = walk.for /\ walk'.at = disk.next[walk.at]
      /\ walk'.visited = walk.visited \cup {walk.at}
      /\ walk'.prg = walk.prg \o CellsOf(walk.at, Used(walk.at))
  BY <1>1 DEF ReadFileSector, Walk
<1>7. disk' = disk /\ request' = request
  BY DEF ReadFileSector
<1>8. Pattern' = Pattern
  BY <1>6, <1>7, SamePattern
<1>9. ChainRead(disk, walk', Pattern)
  BY <1>3, <1>5, <1>6 DEF ChainRead, ReadInv, ReadFileSector
<1> QED
  BY <1>6, <1>7, <1>8, <1>9 DEF ReadInv

LEMMA ChainEndsReads == DiskTypeOK /\ ReadInv /\ ChainEnds => ReadInv'
<1> SUFFICES ASSUME DiskTypeOK, ReadInv, ChainEnds PROVE ReadInv'
  OBVIOUS
<1>1. disk \in Images /\ walk \in Walk /\ walk.at \notin Blocks \ walk.visited
  BY NotIdle DEF ChainEnds, DiskTypeOK, Unread
<1>2. PICK n, p : /\ Way(disk.next, p, n, Chosen(disk, Pattern), walk.at, walk.visited)
                  /\ walk.prg = ReadOf(BytesIn(disk), p, n)
  BY DEF ReadInv, ChainRead, ChainEnds
<1>3. walk.prg = Contents(disk, Chosen(disk, Pattern))
  BY <1>1, <1>2, ContentsAre
<1>4. walk'.phase = "done" /\ walk'.prg = walk.prg /\ walk'.for = walk.for
  BY <1>1 DEF ChainEnds, Walk
<1>5. disk' = disk /\ request' = request
  BY DEF ChainEnds
<1>6. Pattern' = Pattern
  BY <1>4, <1>5, SamePattern
<1>7. walk'.prg = Wanted(disk, Pattern)
  BY <1>3, <1>4 DEF Wanted, ReadInv, ChainRead, ChainEnds
<1> QED
  BY <1>4, <1>5, <1>6, <1>7 DEF ReadInv

LEMMA IdleReads ==
  ASSUME walk' = Idle
  PROVE  ReadInv'
BY DEF ReadInv, Idle

LEMMA ReadStep == DiskTypeOK /\ ReadInv /\ [DiskNext]_diskVars => ReadInv'
<1> SUFFICES ASSUME DiskTypeOK, ReadInv, [DiskNext]_diskVars PROVE ReadInv'
  OBVIOUS
<1>1. CASE UNCHANGED diskVars
  <2>1. walk' = walk /\ disk' = disk /\ request' = request
    BY <1>1 DEF diskVars
  <2>2. Pattern' = Pattern
    BY <2>1, SamePattern
  <2> QED
    BY <2>1, <2>2 DEF ReadInv
<1>2. CASE \E caller \in Callers, r \in Requests : CallLoad(caller, r)
  <2>1. walk' = Idle
    BY <1>2 DEF CallLoad
  <2> QED
    BY <2>1, IdleReads
<1>3. CASE \E caller \in Callers : Push(caller)
  <2>1. walk' = Idle
    BY <1>3 DEF Push
  <2> QED
    BY <2>1, IdleReads
<1>4. CASE \E img \in Images : HostStarts(img)
  BY <1>4, StartReads DEF HostStarts
<1>5. CASE EjectDisk \/ SwitchKernal \/ Untrapped \/ TrapReturns \/ HostLoadsPrg
  BY <1>5, IdleReads DEF EjectDisk, SwitchKernal, Untrapped, TrapReturns, HostLoadsPrg
<1>6. CASE TrapStarts
  BY <1>6, StartReads DEF TrapStarts
<1>7. CASE ReadDirectorySector \/ DirectoryEnds \/ ReadFileSector \/ ChainEnds
  BY <1>7, ReadDirectoryReads, DirectoryEndsReads, ReadFileReads, ChainEndsReads
<1> QED
  BY <1>1, <1>2, <1>3, <1>4, <1>5, <1>6, <1>7 DEF DiskNext, Runs

DiskInv == DiskTypeOK /\ ReadInv

LEMMA DiskInvHolds == DiskSpec => []DiskInv
<1>1. DiskInit => DiskInv
  <2>1. DiskInit => ReadInv
    BY DEF DiskInit, ReadInv, Idle
  <2> QED
    BY <2>1, DiskInitType DEF DiskInv
<1>2. DiskInv /\ [DiskNext]_diskVars => DiskInv'
  BY DiskStepType, ReadStep DEF DiskInv
<1> QED
  BY <1>1, <1>2, PTL DEF DiskSpec

\* Registers, RAM and the walk stay in range, and nothing is read without a disk.
THEOREM DiskTypeCorrect == DiskSpec => []DiskTypeOK
<1>1. DiskInv => DiskTypeOK
  BY DEF DiskInv
<1> QED
  BY <1>1, DiskInvHolds, PTL

\* Whatever the links of an image say, what is read is the first file that fits, along the
\* longest way that meets no sector twice.
THEOREM FilesAreRead == DiskSpec => []FileRead
<1>1. DiskInv => FileRead
  BY WantedIsRead DEF DiskInv
<1> QED
  BY <1>1, DiskInvHolds, PTL

-----------------------------------------------------------------------------
(* What LOAD leaves. *)

\* The cells of a program, from the second on, in RAM.
LEMMA CopyIs ==
  ASSUME DiskTypeOK, NEW prg \in Seq(Int), NEW load \in Int, NEW x \in Ram
  PROVE  /\ \A k \in 2..Len(prg) :
              /\ (load + k - 2) % Size = x
              /\ \A j \in 2..Len(prg) : (load + j - 2) % Size = x => j <= k
              => Copied(prg, load)[x] = prg[k]
         /\ (\A k \in 2..Len(prg) : (load + k - 2) % Size # x) => Copied(prg, load)[x] = RAM[x]
<1> DEFINE at == {i \in 2..Len(prg) : (load + i - 2) % Size = x}
<1>1. Copied(prg, load)[x] = IF at = {} THEN RAM[x] ELSE prg[CHOOSE i \in at : \A j \in at : j <= i]
  BY DEF Copied
<1>2. ASSUME NEW k \in at, \A j \in at : j <= k
      PROVE  (CHOOSE i \in at : \A j \in at : j <= i) = k
  <2>1. at \subseteq Int
    OBVIOUS
  <2> HIDE DEF at
  <2> DEFINE c == CHOOSE i \in at : \A j \in at : j <= i
  <2>2. c \in at /\ \A j \in at : j <= c
    BY <1>2
  <2> HIDE DEF c
  <2>3. c = k
    BY <1>2, <2>1, <2>2
  <2> QED
    BY <2>3 DEF c
<1>3. \A i \in 2..Len(prg) : i \in at <=> (load + i - 2) % Size = x
  OBVIOUS
<1>4. at \subseteq 2..Len(prg)
  OBVIOUS
<1> HIDE DEF at
<1> QED
  BY <1>1, <1>2, <1>3, <1>4

LEMMA RoutineReturns ==
  ASSUME DiskTypeOK, TrapReturns
  PROVE  RoutineLeft
<1> DEFINE prg  == walk.prg
           load == LoadAddress
           n    == Len(prg) - 1
           At(i) == (load + i - 1) % Size
<1>1. prg \in Seq(Int) /\ Len(prg) \in Nat
  BY DEF DiskTypeOK, Walk
<1>2. CASE n < 1
  <2>1. Len(walk.prg) < 2
    BY <1>1, <1>2
  <2>2. a' = NotFound /\ carry' = TRUE /\ RAM' = RAM
    BY <2>1 DEF TrapReturns
  <2> QED
    BY <1>2, <2>2 DEF RoutineLeft
<1>3. CASE ~(n < 1)
  <2>1. Len(prg) >= 2 /\ n \in Nat /\ n >= 1 /\ ~(Len(walk.prg) < 2)
    BY <1>1, <1>3
  <2>2. load \in Int
    BY <2>1, LoadAddressOK
  <2>3. /\ carry' = FALSE /\ RAM' = Results(load) /\ xy' = After(prg, load)
        /\ sp' = Popped /\ pc' = (RAM[Stack + Popped] + 1) % Size
    BY <2>1 DEF TrapReturns
  <2> DEFINE R == Copied(prg, load)
  <2>4. R \in [Ram -> Int]
    BY <1>1, <2>2, CopiedOK DEF DiskTypeOK
  <2>5. /\ Results(load) = [R EXCEPT ![END_ADDR] = After(prg, load), ![STATUS] = Eoi]
        /\ END_ADDR \in Ram /\ STATUS \in Ram /\ END_ADDR # STATUS
    BY RamAssumption DEF Results
  <2>6. /\ RAM'[END_ADDR] = After(prg, load) /\ RAM'[STATUS] = Eoi
        /\ \A x \in Ram \ {END_ADDR, STATUS} : RAM'[x] = R[x]
    <3> HIDE DEF R, prg, load
    <3> QED
      BY <2>3, <2>4, <2>5
  <2>7. xy' = (At(n) + 1) % Size
    <3> DEFINE b == load + n - 1
               c == 1
    <3>1. Size \in Nat \ {0} /\ b \in Int /\ c \in Int
      BY <2>1, <2>2, RamAssumption
    <3>2. b + c = load + Len(prg) - 1
      BY <1>1, <2>2
    <3> HIDE DEF b, c
    <3>3. ((b % Size) + c) % Size = (b + c) % Size
      BY <3>1, ModAdds
    <3>4. At(n) = b % Size
      BY DEF b
    <3> QED
      BY <2>3, <3>2, <3>3, <3>4 DEF After, c
  <2>8. ASSUME NEW i \in 1..n, At(i) \notin {END_ADDR, STATUS},
               ~ \E j \in (i + 1)..n : At(j) = At(i)
        PROVE  RAM'[At(i)] = prg[i + 1]
    <3> DEFINE x == At(i)
               k == i + 1
    <3>1. x \in Ram
      <4>1. load + i - 1 \in Int
        BY <2>1, <2>2
      <4> QED
        BY <4>1, RamIs
    <3>2. k \in 2..Len(prg) /\ load + k - 2 = load + i - 1
      BY <1>1, <2>1, <2>2
    <3>3. ASSUME NEW j \in 2..Len(prg), (load + j - 2) % Size = x PROVE j <= k
      <4> SUFFICES ASSUME k < j PROVE FALSE
        BY <3>2
      <4> DEFINE h == j - 1
      <4>1. h \in (i + 1)..n /\ load + h - 1 = load + j - 2
        BY <1>1, <2>1, <2>2
      <4>2. At(h) = At(i)
        BY <3>3, <4>1
      <4> HIDE DEF h, At
      <4> QED
        BY <2>8, <4>1, <4>2
    <3>4. (load + k - 2) % Size = x
      BY <3>2
    <3> HIDE DEF x, k, load
    <3>5. R[x] = prg[k]
      BY <1>1, <2>2, <3>1, <3>2, <3>3, <3>4, CopyIs
    <3> QED
      BY <2>6, <2>8, <3>1, <3>5 DEF x, k, load
  <2>9. ASSUME ~ \E i \in 1..n : At(i) = Stack + sp'
        PROVE  pc' = (RAM'[Stack + sp'] + 1) % Size
    <3> DEFINE x == Stack + sp'
    <3>1. x \in Ram \ {END_ADDR, STATUS} /\ x = Stack + Popped
      BY <2>3, PoppedOK
    <3>2. ASSUME NEW k \in 2..Len(prg) PROVE (load + k - 2) % Size # x
      <4> DEFINE i == k - 1
      <4>1. i \in 1..n /\ load + i - 1 = load + k - 2
        BY <1>1, <2>2
      <4>2. At(i) # x
        BY <2>9, <4>1
      <4> QED
        BY <4>1, <4>2
    <3> HIDE DEF x
    <3>3. R[x] = RAM[x]
      <4> HIDE DEF load
      <4> QED
        BY <1>1, <2>2, <3>1, <3>2, CopyIs
    <3>4. RAM'[x] = RAM[x]
      BY <2>6, <3>1, <3>3
    <3> QED
      BY <2>3, <3>1, <3>4 DEF x
  <2> QED
    BY <1>3, <2>3, <2>6, <2>7, <2>8, <2>9 DEF RoutineLeft
<1> QED
  BY <1>2, <1>3

\* A LOAD served from the image leaves memory, registers and stack as the ROM's routine
\* would, for every program, load address, stack and size of RAM.
THEOREM LoadsCorrect == DiskSpec => LoadsAsRoutine
<1>1. DiskInv => (TrapReturns => RoutineLeft)
  BY RoutineReturns DEF DiskInv
<1> QED
  BY <1>1, DiskInvHolds, PTL DEF LoadsAsRoutine
=============================================================================
