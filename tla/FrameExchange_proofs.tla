------------------------ MODULE FrameExchange_proofs ------------------------
(* The safety of the frame exchange and its refinement of LatestFrame, for   *)
(* any number of frames.                                                     *)
EXTENDS FrameExchange, TLAPS

\* The three indices are a permutation of the three snapshots.
Distinct == write # ready /\ write # read /\ ready # read

\* What has been copied, offered, taken and drawn is ordered.
Ordered ==
  /\ worker = "copied" => slot[write] = emulated
  /\ slot[read] <= Newest
  /\ shown <= slot[read]

\* At most one tick is posted or about to be, exactly while g_ui_tick_pending is set.
Coalesced ==
  /\ posted <= 1
  /\ tickPending <=> (posted = 1 \/ worker = "posting")
  /\ worker = "posting" => posted = 0

\* What NoLostWakeup says of a frame and of each notice.
Delivered ==
  \/ shuttingDown
  \/ /\ fresh => TickComing \/ ui \in {"tick", "audio", "invalidate"} \/ invalid \/ ~sized
     /\ "sid" \in notices => TickComing \/ ui = "tick"
     /\ "audio" \in notices => TickComing \/ WorkerWillRequest \/ ui \in {"tick", "audio"}

IInv == TypeOK /\ Distinct /\ NewestKept /\ Ordered /\ Coalesced /\ Delivered

LEMMA InitIInv == Init => IInv
<1> SUFFICES ASSUME Init PROVE IInv
  OBVIOUS
<1>1. TypeOK
  <2>1. slot \in [Slots -> Nat]
    BY DEF Init
  <2>2. write \in Slots /\ ready \in Slots /\ read \in Slots
    BY DEF Init, Slots
  <2>3. QED
    BY <2>1, <2>2 DEF Init, TypeOK, WorkerAt, UiAt
<1>2. Newest = 0 /\ slot[read] = 0
  BY DEF Init, Newest, Slots
<1>3. QED
  BY <1>1, <1>2 DEF Init, IInv, Distinct, NewestKept, Ordered, Coalesced, Delivered

\* Every step preserves the inductive invariant.
LEMMA NextIInv == IInv /\ [Next]_vars => IInv'
<1> SUFFICES ASSUME IInv, [Next]_vars PROVE IInv'
  OBVIOUS
<1> USE DEF IInv, Slots, WorkerAt, UiAt, buffers, flags, WorkerGoes, UiGoes
<1>1. CASE WorkerStops
  BY <1>1 DEF WorkerStops,
         TypeOK, Distinct, NewestKept, Ordered, Newest, Coalesced, Delivered,
         TickComing, WorkerWillRequest
<1>2. CASE WorkerEmulates
  BY <1>2 DEF WorkerEmulates,
         TypeOK, Distinct, NewestKept, Ordered, Newest, Coalesced, Delivered,
         TickComing, WorkerWillRequest
<1>3. CASE WorkerCopies
  BY <1>3 DEF WorkerCopies,
         TypeOK, Distinct, NewestKept, Ordered, Newest, Coalesced, Delivered,
         TickComing, WorkerWillRequest
<1>4. CASE WorkerPublishes
  BY <1>4 DEF WorkerPublishes,
         TypeOK, Distinct, NewestKept, Ordered, Newest, Coalesced, Delivered,
         TickComing, WorkerWillRequest
<1>5. CASE WorkerNotices
  <2>1. TypeOK'
    BY <1>5 DEF WorkerNotices, TypeOK
  <2>2. Distinct' /\ NewestKept' /\ Ordered'
    BY <1>5 DEF WorkerNotices, TypeOK, Distinct, NewestKept, Ordered, Newest
  <2>3. Coalesced'
    BY <1>5 DEF WorkerNotices, TypeOK, Coalesced
  <2>4. Delivered'
    BY <1>5 DEF WorkerNotices, TypeOK, Delivered, TickComing, WorkerWillRequest
  <2>5. QED
    BY <2>1, <2>2, <2>3, <2>4
<1>6. CASE WorkerRequests
  BY <1>6 DEF WorkerRequests,
         TypeOK, Distinct, NewestKept, Ordered, Newest, Coalesced, Delivered,
         TickComing, WorkerWillRequest
<1>7. CASE WorkerPosts
  BY <1>7 DEF WorkerPosts,
         TypeOK, Distinct, NewestKept, Ordered, Newest, Coalesced, Delivered,
         TickComing, WorkerWillRequest
<1>8. CASE UiTick
  <2>1. ui' \in UiAt /\ (shuttingDown \/ ui' = "tick")
    <3>1. CASE shuttingDown
      BY <1>8, <3>1 DEF UiTick
    <3>2. CASE ~shuttingDown
      BY <1>8, <3>2 DEF UiTick
    <3>3. QED
      BY <3>1, <3>2
  <2>2. posted' = 0 /\ worker # "posting" /\ tickPending' = FALSE
    BY <1>8 DEF UiTick, TypeOK, Coalesced
  <2>3. TypeOK'
    <3>1. UNCHANGED <<slot, write, ready, read, fresh, emulated, worker, sidStopped, notices,
                      sized, invalid, shown, paused, stopping, shuttingDown>>
      BY <1>8 DEF UiTick
    <3>2. posted' \in Nat /\ tickPending' \in BOOLEAN /\ ui' \in UiAt
      BY <2>1, <2>2
    <3>3. QED
      BY <3>1, <3>2 DEF TypeOK
  <2>4. Distinct' /\ NewestKept' /\ Ordered'
    BY <1>8 DEF UiTick, TypeOK, Distinct, NewestKept, Ordered, Newest
  <2>5. Coalesced' /\ Delivered'
    BY <1>8, <2>1, <2>2 DEF UiTick, TypeOK, Coalesced, Delivered, TickComing, WorkerWillRequest
  <2>6. QED
    BY <2>3, <2>4, <2>5
<1>9. CASE UiTakesSid
  BY <1>9 DEF UiTakesSid,
         TypeOK, Distinct, NewestKept, Ordered, Newest, Coalesced, Delivered,
         TickComing, WorkerWillRequest
<1>10. CASE UiTakesAudio
  BY <1>10 DEF UiTakesAudio,
         TypeOK, Distinct, NewestKept, Ordered, Newest, Coalesced, Delivered,
         TickComing, WorkerWillRequest
<1>11. CASE UiInvalidates
  BY <1>11 DEF UiInvalidates,
         TypeOK, Distinct, NewestKept, Ordered, Newest, Coalesced, Delivered,
         TickComing, WorkerWillRequest
<1>12. CASE UiDraws
  BY <1>12 DEF UiDraws,
         TypeOK, Distinct, NewestKept, Ordered, Newest, Coalesced, Delivered,
         TickComing, WorkerWillRequest
<1>13. CASE UiJoins
  BY <1>13 DEF UiJoins,
         TypeOK, Distinct, NewestKept, Ordered, Newest, Coalesced, Delivered,
         TickComing, WorkerWillRequest
<1>14. CASE UiSwaps
  <2>1. /\ slot' = slot /\ write' = write /\ fresh' = FALSE
        /\ read' = (IF fresh THEN ready ELSE read)
        /\ ready' = (IF fresh THEN read ELSE ready)
    BY <1>14 DEF UiSwaps
  <2>2. TypeOK'
    BY <1>14, <2>1 DEF UiSwaps, TypeOK
  <2>3. Distinct'
    BY <2>1 DEF Distinct
  <2>4. Newest' = Newest /\ slot'[read'] = Newest
    BY <2>1 DEF Newest
  <2>5. NewestKept' /\ Ordered'
    BY <1>14, <2>2, <2>4 DEF UiSwaps, TypeOK, NewestKept, Ordered, Newest
  <2>6. Coalesced' /\ Delivered'
    BY <1>14 DEF UiSwaps, TypeOK, Coalesced, Delivered, TickComing, WorkerWillRequest
  <2>7. QED
    BY <2>2, <2>3, <2>5, <2>6
<1>15. CASE UiPaintsNothing
  BY <1>15 DEF UiPaintsNothing,
         TypeOK, Distinct, NewestKept, Ordered, Newest, Coalesced, Delivered,
         TickComing, WorkerWillRequest
<1>16. CASE UiResizes
  BY <1>16 DEF UiResizes,
         TypeOK, Distinct, NewestKept, Ordered, Newest, Coalesced, Delivered,
         TickComing, WorkerWillRequest
<1>17. CASE UiExits
  BY <1>17 DEF UiExits,
         TypeOK, Distinct, NewestKept, Ordered, Newest, Coalesced, Delivered,
         TickComing, WorkerWillRequest
<1>18. CASE UiTogglesPause
  BY <1>18 DEF UiTogglesPause,
         TypeOK, Distinct, NewestKept, Ordered, Newest, Coalesced, Delivered,
         TickComing, WorkerWillRequest
<1>19. CASE UiCloses
  BY <1>19 DEF UiCloses,
         TypeOK, Distinct, NewestKept, Ordered, Newest, Coalesced, Delivered,
         TickComing, WorkerWillRequest
<1>20. CASE UNCHANGED vars
  BY <1>20 DEF vars, TypeOK, Distinct, NewestKept, Newest, Ordered, Coalesced, Delivered,
              TickComing, WorkerWillRequest
<1>21. QED
  BY <1>1, <1>2, <1>3, <1>4, <1>5, <1>6, <1>7, <1>8, <1>9,
     <1>10, <1>11, <1>12, <1>13, <1>14, <1>15, <1>16, <1>17, <1>18, <1>19, <1>20
  DEF Next, Worker, UiRuns, UiPaints, User

\* The inductive invariant holds of every reachable state.
THEOREM SpecIInv == Spec => []IInv
<1>1. QED
  BY InitIInv, NextIInv, PTL DEF Spec

\* Every variable always has its type.
THEOREM TypeCorrect == Spec => []TypeOK
<1>1. IInv => TypeOK
  BY DEF IInv
<1>2. QED
  BY <1>1, SpecIInv, PTL

\* The worker never copies into the snapshot the UI is drawing from.
THEOREM NeverTorn == Spec => []NoTearing
<1>1. IInv => NoTearing
  BY DEF IInv, Distinct, NoTearing
<1>2. QED
  BY <1>1, SpecIInv, PTL

\* No swap of either thread loses the newest published frame.
THEOREM NewestNeverLost == Spec => []NewestKept
<1>1. IInv => NewestKept
  BY DEF IInv
<1>2. QED
  BY <1>1, SpecIInv, PTL

\* A fresh frame or a notice always has a tick coming for it.
THEOREM WakeupNeverLost == Spec => []NoLostWakeup
<1>1. IInv => NoLostWakeup
  BY DEF IInv, TypeOK, Coalesced, Delivered, NoLostWakeup
<1>2. QED
  BY <1>1, SpecIInv, PTL

\* The picture never goes back in time.
THEOREM DrawnForward == Spec => ShownMonotone
<1>1. IInv /\ [Next]_vars => [shown' >= shown]_vars
  <2> SUFFICES ASSUME IInv, Next PROVE shown' >= shown
    OBVIOUS
  <2>1. shown \in Nat /\ slot[read] \in Nat /\ shown <= slot[read]
    BY DEF IInv, TypeOK, Ordered, Slots
  <2>2. CASE UiDraws
    BY <2>1, <2>2 DEF UiDraws
  <2>3. CASE ~UiDraws
    <3>1. shown' = shown
      BY <2>3 DEF Next, Worker, UiRuns, User, WorkerStops, WorkerEmulates, WorkerCopies,
                  WorkerPublishes, WorkerNotices, WorkerRequests, WorkerPosts, UiTick, UiTakesSid,
                  UiTakesAudio, UiInvalidates, UiJoins, UiSwaps, UiExits, UiTogglesPause, UiCloses,
                  UiPaints, UiPaintsNothing, UiResizes
    <3>2. QED
      BY <2>1, <3>1
  <2>4. QED
    BY <2>2, <2>3
<1>2. QED
  BY <1>1, SpecIInv, PTL DEF Spec, ShownMonotone

\* The exchange implements the latest-value register of LatestFrame: publishing is the
\* worker's swap, taking is the UI's swap, and every other step is a stutter.
THEOREM Refinement == Spec => ImplementsLatestFrame
<1> USE DEF Promise!Init, Promise!Next, Promise!Publish, Promise!Take
<1>1. Init => Promise!Init
  BY DEF Init, Newest, Slots
<1>2. IInv /\ [Next]_vars => [Promise!Next]_<<Newest, slot[read]>>
  <2> SUFFICES ASSUME IInv, [Next]_vars
               PROVE  Promise!Next \/ UNCHANGED <<Newest, slot[read]>>
    OBVIOUS
  <2> USE DEF buffers, flags
  <2>1. CASE WorkerCopies
    <3>1. slot'[ready] = slot[ready] /\ slot'[read] = slot[read]
      BY <2>1 DEF WorkerCopies, IInv, TypeOK, Distinct, Slots
    <3>2. QED
      BY <2>1, <3>1 DEF WorkerCopies, Newest
  <2>2. CASE WorkerPublishes
    <3>1. Newest' = emulated /\ Newest = emulated - 1 /\ slot'[read'] = slot[read]
      BY <2>2 DEF WorkerPublishes, WorkerGoes, IInv, Ordered, NewestKept, Newest
    <3>2. QED
      BY <3>1 DEF IInv, TypeOK
  <2>3. CASE UiSwaps
    <3>1. slot'[read'] = Newest /\ Newest' = Newest
      BY <2>3 DEF UiSwaps, Newest
    <3>2. QED
      BY <3>1
  <2>4. CASE ~(WorkerCopies \/ WorkerPublishes \/ UiSwaps)
    <3>1. UNCHANGED buffers
      BY <2>4 DEF Next, vars, Worker, UiRuns, User, WorkerStops, WorkerEmulates,
                  WorkerNotices, WorkerRequests, WorkerPosts, UiTick, UiTakesSid,
                  UiTakesAudio, UiInvalidates, UiDraws, UiJoins, UiExits, UiTogglesPause, UiCloses,
                  UiPaints, UiPaintsNothing, UiResizes
    <3>2. QED
      BY <3>1 DEF Newest
  <2>5. QED
    BY <2>1, <2>2, <2>3, <2>4
<1>3. QED
  BY <1>1, <1>2, SpecIInv, PTL DEF Spec, ImplementsLatestFrame, Promise!Spec
=============================================================================
