--------------------------- MODULE Keyboard_proofs --------------------------
(***************************************************************************)
(* Proofs about the keyboard, from the machine's queue (module KeyQueue)   *)
(* up to the host's keys (module HostInput), for every set of keys, every  *)
(* bound on the queue and any number of messages.                          *)
(*                                                                         *)
(* The queue: TypeOK is inductive; the two action properties follow from   *)
(* it and from what the burst is: the longest prefix without a repetition. *)
(* A channel is followed change by change (Grows): a burst has at most one *)
(* of a key, and what is left behind it grows on as it did.                *)
(*                                                                         *)
(* The host: HostInv relates four things that move apart.  The level a     *)
(* switch will have once the queue is applied and the message done (Final) *)
(* is what the keys still sent account for; the presses no frame has shown *)
(* are latched, in flight or in what the worker has read; the changes of a *)
(* shifted key and of its shift stay side by side from the message to the  *)
(* matrix, so that no burst ends between them.                             *)
(***************************************************************************)
EXTENDS HostInput, SequenceTheorems, WellFoundedInduction, TLAPS

\* A nonempty set of numbers up to n has a greatest one.
LEMMA Greatest ==
  ASSUME NEW n \in Nat, NEW T \in SUBSET (0..n), T # {}
  PROVE  \E i \in T : \A j \in T : j <= i
<1> DEFINE D == {n - i : i \in T}
           R == OpToRel(<, Nat)
<1>1. D \in SUBSET Nat /\ D # {}
  <2> HIDE DEF R
  <2>1. \A i \in T : n - i \in Nat
    OBVIOUS
  <2> QED
    BY <2>1
<1>2. PICK d \in D : \A e \in D : ~(<<e, d>> \in R)
  <2> HIDE DEF D, R
  <2>1. IsWellFoundedOn(R, Nat)
    BY NatLessThanWellFounded DEF R
  <2> QED
    BY <1>1, <2>1, WFMin, Zenon
<1>3. \A e \in D : ~(e < d)
  BY <1>1, <1>2 DEF OpToRel
<1>4. PICK i \in T : d = n - i
  BY <1>2
<1>5. \A j \in T : j <= i
  <2> SUFFICES ASSUME NEW j \in T PROVE j <= i
    OBVIOUS
  <2>1. i \in 0..n /\ j \in 0..n
    OBVIOUS
  <2>2. ~(n - j < n - i)
    <3> HIDE DEF R
    <3> QED
      BY <1>3, <1>4
  <2> HIDE DEF D, R
  <2> QED
    BY <2>1, <2>2
<1> QED
  BY <1>5

\* The burst of exec() exists, repeats no key, and is empty only if the queue is.
LEMMA UsedOK ==
  ASSUME NEW q \in Seq(Change)
  PROVE  /\ Used(q) \in 0..Len(q)
         /\ Distinct(q, Used(q))
         /\ q # <<>> => Used(q) >= 1
         /\ Used(q) < Len(q) => ~Distinct(q, Used(q) + 1)
<1> DEFINE T == {n \in 0..Len(q) : Distinct(q, n)}
           P(n) == Distinct(q, n) /\ (n < Len(q) => ~Distinct(q, n + 1))
<1>1. Len(q) \in Nat
  OBVIOUS
<1>2. 0 \in T
  BY <1>1 DEF Distinct
<1>3. PICK m \in T : \A n \in T : n <= m
  <2> HIDE DEF T
  <2>1. T \in SUBSET (0..Len(q))
    BY DEF T
  <2> QED
    BY <1>1, <1>2, <2>1, Greatest
<1>4. m \in 0..Len(q) /\ P(m)
  <2>1. ASSUME m < Len(q), Distinct(q, m + 1) PROVE FALSE
    <3>1. m + 1 \in T
      BY <1>1, <2>1
    <3> QED
      BY <1>1, <1>3, <3>1
  <2> QED
    BY <2>1
<1>5. Used(q) = CHOOSE n \in 0..Len(q) : P(n)
  BY DEF Used
<1>6. Used(q) \in 0..Len(q) /\ P(Used(q))
  <2> HIDE DEF P
  <2> QED
    BY <1>4, <1>5, Zenon
<1>7. q # <<>> => Used(q) >= 1
  <2> SUFFICES ASSUME q # <<>>, Used(q) = 0 PROVE FALSE
    BY <1>1, <1>6
  <2>1. 0 < Len(q)
    BY EmptySeq, <1>1
  <2>2. Distinct(q, 1)
    BY DEF Distinct
  <2> QED
    BY <1>6, <2>1, <2>2
<1> QED
  BY <1>6, <1>7

\* What a burst of n changes leaves in the queue.
LEMMA RestOK ==
  ASSUME NEW q \in Seq(Change), NEW n \in 0..Len(q)
  PROVE  Rest(q, n) \in Seq(Change) /\ Len(Rest(q, n)) = Len(q) - n
<1>1. Len(q) \in Nat
  OBVIOUS
<1>2. \A i \in (n + 1)..Len(q) : q[i] \in Change
  BY <1>1, ElementOfSeq
<1>3. /\ SubSeq(q, n + 1, Len(q)) \in Seq(Change)
      /\ Len(SubSeq(q, n + 1, Len(q))) = Len(q) - n
  BY <1>1, <1>2, SubSeqProperties
<1> QED
  BY <1>3 DEF Rest

LEMMA MatrixType ==
  ASSUME NEW q, NEW m, NEW n PROVE MatrixAfter(q, m, n) \in SUBSET Key
BY DEF MatrixAfter

LEMMA NmiType ==
  ASSUME TypeOK, NEW q, NEW n PROVE NmiAfter(q, n) \in BOOLEAN
BY DEF NmiAfter, TypeOK

\* Queueing a change keeps the queue within its bound, by flushing it if need be.
LEMMA PushType ==
  ASSUME TypeOK, NEW c \in Change, Push(c), UNCHANGED <<nmi_line, entry, player>>
  PROVE  TypeOK'
<1>1. CASE Len(queue) >= MaxQueuedKeys
  <2>1. queue' = <<c>> /\ matrix' \in SUBSET Key /\ nmi_pending' \in BOOLEAN
    BY <1>1, MatrixType, NmiType DEF Push
  <2>2. <<c>> \in Seq(Change) /\ Len(<<c>>) = 1
    OBVIOUS
  <2> QED
    BY <2>1, <2>2, QueueAssumption DEF TypeOK
<1>2. CASE ~(Len(queue) >= MaxQueuedKeys)
  <2>1. queue' = Append(queue, c) /\ UNCHANGED <<matrix, nmi_pending>>
    BY <1>2 DEF Push
  <2>2. Append(queue, c) \in Seq(Change) /\ Len(Append(queue, c)) = Len(queue) + 1
    BY AppendProperties DEF TypeOK
  <2> QED
    BY <1>2, <2>1, <2>2, QueueAssumption DEF TypeOK
<1> QED
  BY <1>1, <1>2

\* Two songs are never both selected.
LEMMA OneSelected ==
  ASSUME NEW m, NEW i \in DOMAIN DigitKey, NEW j \in DOMAIN DigitKey, Selects(m, i), Selects(m, j)
  PROVE  i = j /\ i \in Nat
<1>1. DOMAIN DigitKey = 1..Len(DigitKey) /\ Len(DigitKey) \in Nat
  BY SongAssumption
<1>2. i <= j /\ j <= i
  BY DEF Selects
<1> QED BY <1>1, <1>2

\* The player resets the machine exactly when it does not go on with its song.
LEMMA PlayerStep ==
  ASSUME TypeOK, NEW m \in SUBSET Key
  PROVE  /\ PlayerAfter(m) \in [songs : Nat, song : Nat, prev : SUBSET Key]
         /\ PlayerAfter(m).song = player.song <=> ~PlayerResets(m)
<1>1. player \in [songs : Nat, song : Nat, prev : SUBSET Key]
  BY DEF TypeOK
<1>2. CASE ~Playing
  BY <1>1, <1>2 DEF PlayerAfter, PlayerResets
<1>3. CASE Playing /\ Stops(m)
  <2>1. PlayerAfter(m) = [songs |-> 0, song |-> 0, prev |-> {}]
    BY <1>3 DEF PlayerAfter, NoTune, Tune
  <2> QED BY <1>3, <2>1 DEF PlayerResets, Playing
<1>4. CASE Playing /\ ~Stops(m) /\ Changes(m)
  <2>1. PICK i \in DOMAIN DigitKey : Selects(m, i) /\ i # player.song
    BY <1>4 DEF Changes
  <2> DEFINE c == CHOOSE j \in DOMAIN DigitKey : Selects(m, j)
  <2>2. c \in DOMAIN DigitKey /\ Selects(m, c)
    BY <2>1
  <2>3. PlayerAfter(m) = [songs |-> player.songs, song |-> c, prev |-> {}]
    BY <1>4 DEF PlayerAfter, Tune
  <2> HIDE DEF c
  <2>4. c = i /\ c \in Nat
    BY <2>1, <2>2, OneSelected
  <2> QED BY <1>1, <1>4, <2>1, <2>3, <2>4 DEF PlayerResets
<1>5. CASE Playing /\ ~Stops(m) /\ ~Changes(m)
  <2>1. PlayerAfter(m) = [player EXCEPT !.prev = m]
    BY <1>5 DEF PlayerAfter
  <2> QED BY <1>1, <1>5, <2>1 DEF PlayerResets
<1> QED BY <1>2, <1>3, <1>4, <1>5

\* What exec() leaves, by whether a tune's player reset the machine on the way.
LEMMA ExecType ==
  ASSUME TypeOK, Exec
  PROVE  /\ TypeOK'
         /\ queue' = Rest(queue, Used(queue))
         /\ queue' = SubSeq(queue, Used(queue) + 1, Len(queue))
         /\ Len(queue') = Len(queue) - Used(queue)
         /\ matrix' = IF SongGoesOn THEN MatrixAfter(queue, matrix, Used(queue)) ELSE {}
         /\ entry'.keys = matrix'
         /\ SongGoesOn => entry'.nmi = NmiAfter(queue, Used(queue))
         /\ SongGoesOn <=> ~PlayerResets(MatrixOfBurst)
<1> DEFINE n == Used(queue)
           m == MatrixOfBurst
<1>1. queue \in Seq(Change) /\ Len(queue) \in Nat /\ n \in 0..Len(queue)
  BY UsedOK DEF TypeOK
<1>2. m = MatrixAfter(queue, matrix, n) /\ m \in SUBSET Key
  BY MatrixType DEF MatrixOfBurst
<1>3. /\ queue' = Rest(queue, n) /\ matrix' = (IF PlayerResets(m) THEN {} ELSE m)
      /\ entry' = [keys |-> matrix', nmi |-> ~PlayerResets(m) /\ NmiAfter(queue, n)]
      /\ player' = PlayerAfter(m)
      /\ nmi_line' \in BOOLEAN /\ nmi_pending' \in BOOLEAN
  BY DEF Exec
<1> HIDE DEF n, m
<1>4. queue' \in Seq(Change) /\ Len(queue') = Len(queue) - n
  BY <1>1, <1>3, RestOK
<1>5. SongGoesOn <=> ~PlayerResets(m)
  BY <1>2, <1>3, PlayerStep DEF SongGoesOn
<1>6. player' \in [songs : Nat, song : Nat, prev : SUBSET Key]
  BY <1>2, <1>3, PlayerStep
<1>7. matrix' \in SUBSET Key /\ NmiAfter(queue, n) \in BOOLEAN
  BY <1>2, <1>3, NmiType
<1>8. entry' \in [keys : SUBSET Key, nmi : BOOLEAN]
  <2>1. (~PlayerResets(m) /\ NmiAfter(queue, n)) \in BOOLEAN
    OBVIOUS
  <2> QED BY <1>3, <1>7, <2>1
<1>9. TypeOK'
  BY <1>1, <1>3, <1>4, <1>6, <1>7, <1>8, QueueAssumption DEF TypeOK
<1>10. SongGoesOn => entry'.nmi = NmiAfter(queue, n)
  <2>1. ASSUME SongGoesOn PROVE (~PlayerResets(m) /\ NmiAfter(queue, n)) = NmiAfter(queue, n)
    BY <1>5, <1>7, <2>1
  <2> QED BY <1>3, <2>1
<1> QED
  BY <1>2, <1>3, <1>4, <1>5, <1>9, <1>10 DEF n, m, Rest

LEMMA InitType == Init => TypeOK
<1>1. <<>> \in Seq(Change) /\ Len(<<>>) = 0
  OBVIOUS
<1>2. [keys |-> {}, nmi |-> FALSE] \in [keys : SUBSET Key, nmi : BOOLEAN]
  OBVIOUS
<1>3. 0 <= MaxQueuedKeys
  BY QueueAssumption
<1>4. Init => queue \in Seq(Change) /\ Len(queue) <= MaxQueuedKeys
  BY <1>1, <1>3, Zenon DEF Init
<1>5. Init => matrix \in SUBSET Key /\ nmi_line \in BOOLEAN /\ nmi_pending \in BOOLEAN
  BY DEF Init
<1>6. Init => player \in [songs : Nat, song : Nat, prev : SUBSET Key]
  BY DEF Init, NoTune, Tune
<1> QED
  BY <1>2, <1>4, <1>5, <1>6, Zenon DEF Init, TypeOK

LEMMA StepType == TypeOK /\ [Next]_vars => TypeOK'
<1> SUFFICES ASSUME TypeOK, [Next]_vars PROVE TypeOK'
  OBVIOUS
<1>0. <<>> \in Seq(Change) /\ Len(<<>>) = 0 /\ 0 <= MaxQueuedKeys
  BY QueueAssumption
<1>1. ASSUME NEW k \in Key, NEW p \in BOOLEAN, QueueKey(k, p) PROVE TypeOK'
  BY <1>1, PushType DEF QueueKey, Change
<1>2. ASSUME NEW k \in Key, NEW p \in BOOLEAN, SetKey(k, p) PROVE TypeOK'
  BY <1>2 DEF SetKey, TypeOK
<1>3. CASE PressRestore
  BY <1>3, PushType DEF PressRestore, Change
<1>4. CASE FlushKeys
  <2>1. matrix' \in SUBSET Key /\ nmi_pending' \in BOOLEAN
    BY <1>4, MatrixType, NmiType DEF FlushKeys
  <2> QED
    BY <1>0, <1>4, <2>1 DEF FlushKeys, TypeOK
<1>5. CASE ClearKeys
  BY <1>0, <1>5 DEF ClearKeys, TypeOK
<1>6. CASE Reset
  BY <1>0, <1>6 DEF Reset, NoTune, Tune, TypeOK
<1>7. CASE StateReset
  BY <1>7 DEF StateReset, OpenMatrix, NoTune, Tune, TypeOK
<1>8. CASE Exec
  BY <1>8, ExecType
<1>9. CASE UNCHANGED vars
  BY <1>9 DEF vars, TypeOK
<1>10. ASSUME NEW songs \in 1..MaxSongs, NEW song \in 1..MaxSongs, LoadTune(songs, song)
       PROVE  TypeOK'
  <2>1. songs \in Nat /\ song \in Nat
    BY SongAssumption
  <2> QED BY <1>10, <2>1 DEF LoadTune, OpenMatrix, Tune, TypeOK
<1> QED
  BY <1>1, <1>2, <1>3, <1>4, <1>5, <1>6, <1>7, <1>8, <1>9, <1>10 DEF Next

\* The queue stays within max_queued_keys and the matrix within the keys.
THEOREM TypeCorrect == Spec => []TypeOK
BY InitType, StepType, PTL DEF Spec

\* exec() takes a nonempty prefix of a nonempty queue, and RESTORE in its turn; unless a
\* tune's player resets the machine, RESTORE reaches the CPU.
THEOREM BurstCorrect == Spec => BurstIsPrefix
<1> DEFINE A == Exec /\ queue # <<>> =>
                  \E n \in 1..Len(queue) :
                    /\ queue' = SubSeq(queue, n + 1, Len(queue))
                    /\ (\E i \in 1..n : queue[i].key = RESTORE) /\ nmi_line /\ SongGoesOn
                       => entry'.nmi
<1>1. TypeOK /\ [Next]_vars => [A]_vars
  <2> SUFFICES ASSUME TypeOK, Exec, queue # <<>> PROVE A
    OBVIOUS
  <2> DEFINE n == Used(queue)
  <2>1. n \in 1..Len(queue)
    BY UsedOK DEF TypeOK
  <2>2. /\ queue' = SubSeq(queue, n + 1, Len(queue))
        /\ SongGoesOn => entry'.nmi = NmiAfter(queue, n)
    BY ExecType
  <2>3. (\E i \in 1..n : queue[i].key = RESTORE) /\ nmi_line /\ SongGoesOn => entry'.nmi
    BY <2>2 DEF NmiAfter
  <2> QED
    BY <2>1, <2>2, <2>3
<1> QED
  BY TypeCorrect, <1>1, PTL DEF Spec, BurstIsPrefix

\* A queued RUN/STOP press is held when the RESTORE queued behind it is taken, unless a
\* tune's player resets the machine in that exec().
THEOREM StopThenRestoreCorrect == Spec => StopThenRestore
<1> DEFINE A == Exec /\ SongGoesOn =>
                  \A i, j \in 1..Len(queue) :
                    /\ i < j /\ queue[i] = [key |-> "stop", pressed |-> TRUE]
                    /\ queue[j].key = RESTORE
                    /\ Len(queue') <= Len(queue) - j
                    => "stop" \in entry'.keys
<1>1. TypeOK /\ [Next]_vars => [A]_vars
  <2> SUFFICES ASSUME TypeOK, Exec, SongGoesOn,
                      NEW i \in 1..Len(queue), NEW j \in 1..Len(queue),
                      i < j, queue[i] = [key |-> "stop", pressed |-> TRUE],
                      Len(queue') <= Len(queue) - j
               PROVE  "stop" \in entry'.keys
    BY Zenon
  <2> DEFINE n == Used(queue)
  <2>1. n \in 0..Len(queue) /\ Distinct(queue, n) /\ Len(queue) \in Nat
    BY UsedOK DEF TypeOK
  <2>2. Len(queue') = Len(queue) - n /\ entry'.keys = MatrixAfter(queue, matrix, n)
    BY ExecType
  <2> HIDE DEF n
  <2>3. j <= n /\ i \in 1..n
    BY <2>1, <2>2
  <2>4. \A l \in (i + 1)..n : queue[l].key # "stop"
    BY <2>1, <2>3 DEF Distinct
  <2>5. DownAfter(queue, matrix, n, "stop")
    BY <2>3, <2>4 DEF DownAfter
  <2> QED
    BY <2>2, <2>5, KeyAssumption DEF MatrixAfter
<1> QED
  BY TypeCorrect, <1>1, PTL DEF Spec, StopThenRestore

-----------------------------------------------------------------------------
(* Levels: what switches are down once changes are made. *)

\* A change appended decides its key and leaves the others.
LEMMA DownAppend ==
  ASSUME NEW q \in Seq(Change), NEW c \in Change, NEW m, NEW k
  PROVE  /\ DownAfter(Append(q, c), m, Len(q) + 1, k)
              <=> IF c.key = k THEN c.pressed ELSE DownAfter(q, m, Len(q), k)
         /\ \A n \in 0..Len(q) : DownAfter(Append(q, c), m, n, k) <=> DownAfter(q, m, n, k)
<1> DEFINE r == Append(q, c)
           l == Len(q)
<1>1. l \in Nat /\ r[l + 1] = c /\ \A i \in 1..l : r[i] = q[i]
  BY AppendProperties
<1> HIDE DEF r, l
<1>2. \A n \in 0..l : DownAfter(r, m, n, k) <=> DownAfter(q, m, n, k)
  BY <1>1 DEF DownAfter
<1>3. CASE c.key = k
  <2>1. \A i \in 1..(l + 1) : i \in 1..l \/ i = l + 1
    BY <1>1
  <2>2. l + 1 \in 1..(l + 1) /\ \A j \in (l + 2)..(l + 1) : FALSE
    BY <1>1
  <2>3. c.pressed => DownAfter(r, m, l + 1, k)
    BY <1>1, <1>3, <2>2 DEF DownAfter
  <2>4. ASSUME DownAfter(r, m, l + 1, k) PROVE c.pressed
    <3>1. PICK i \in 1..(l + 1) : /\ r[i].key = k /\ r[i].pressed
                                  /\ \A j \in (i + 1)..(l + 1) : r[j].key # k
      BY <1>1, <1>3, <2>2, <2>4 DEF DownAfter
    <3>2. i = l + 1
      BY <1>1, <1>3, <2>1, <3>1
    <3> QED BY <1>1, <3>1, <3>2
  <2> QED BY <1>2, <1>3, <2>3, <2>4 DEF r, l
<1>4. CASE c.key # k
  <2>1. ASSUME DownAfter(r, m, l + 1, k) PROVE DownAfter(r, m, l, k)
    <3>1. CASE k \in m /\ \A i \in 1..(l + 1) : r[i].key # k
      BY <1>1, <3>1 DEF DownAfter
    <3>2. ASSUME NEW i \in 1..(l + 1), r[i].key = k, r[i].pressed,
                 \A j \in (i + 1)..(l + 1) : r[j].key # k
          PROVE  DownAfter(r, m, l, k)
      <4>1. i \in 1..l
        BY <1>1, <1>4, <3>2
      <4>2. \A j \in (i + 1)..l : j \in (i + 1)..(l + 1)
        BY <1>1
      <4>3. \A j \in (i + 1)..l : r[j].key # k
        BY <3>2, <4>2
      <4> QED BY <3>2, <4>1, <4>3 DEF DownAfter
    <3> QED BY <2>1, <3>1, <3>2 DEF DownAfter
  <2>2. ASSUME DownAfter(r, m, l, k) PROVE DownAfter(r, m, l + 1, k)
    <3>1. CASE k \in m /\ \A i \in 1..l : r[i].key # k
      BY <1>1, <1>4, <3>1 DEF DownAfter
    <3>2. ASSUME NEW i \in 1..l, r[i].key = k, r[i].pressed,
                 \A j \in (i + 1)..l : r[j].key # k
          PROVE  DownAfter(r, m, l + 1, k)
      BY <1>1, <1>4, <3>2 DEF DownAfter
    <3> QED BY <2>2, <3>1, <3>2 DEF DownAfter
  <2>3. DownAfter(r, m, l, k) <=> DownAfter(q, m, l, k)
    BY <1>1, <1>2
  <2> QED BY <1>2, <1>4, <2>1, <2>2, <2>3 DEF r, l
<1> QED BY <1>3, <1>4

\* What is down after the first n changes may be computed at any of them.
LEMMA DownSplit ==
  ASSUME NEW q \in Seq(Change), NEW m, NEW n \in 0..Len(q), NEW i \in 0..(Len(q) - n), NEW k \in Key
  PROVE  DownAfter(Rest(q, n), MatrixAfter(q, m, n), i, k) <=> DownAfter(q, m, n + i, k)
<1> DEFINE r == Rest(q, n)
           v == MatrixAfter(q, m, n)
           l == Len(q)
<1>1. l \in Nat /\ n \in 0..l /\ i \in 0..(l - n) /\ \A j \in 1..(l - n) : r[j] = q[n + j]
  <2>1. Len(q) \in Nat /\ \A j \in (n + 1)..Len(q) : q[j] \in Change
    BY ElementOfSeq
  <2>2. \A j \in 1..(Len(q) - n) : SubSeq(q, n + 1, Len(q))[j] = q[(n + 1) + j - 1]
    BY <2>1, SubSeqProperties
  <2>3. \A j \in 1..(Len(q) - n) : q[(n + 1) + j - 1] = q[n + j]
    BY <2>1
  <2> QED BY <2>1, <2>2, <2>3 DEF Rest
<1>2. k \in v <=> DownAfter(q, m, n, k)
  BY DEF MatrixAfter
<1> HIDE DEF r, v, l
<1>3. ASSUME DownAfter(r, v, i, k) PROVE DownAfter(q, m, n + i, k)
  <2>1. CASE k \in v /\ \A j \in 1..i : r[j].key # k
    <3>1. \A j \in (n + 1)..(n + i) : q[j].key # k
      <4> SUFFICES ASSUME NEW j \in (n + 1)..(n + i) PROVE q[j].key # k
        OBVIOUS
      <4> DEFINE d == j - n
      <4>1. d \in 1..i /\ d \in 1..(l - n) /\ n + d = j
        BY <1>1
      <4> HIDE DEF d
      <4> QED BY <1>1, <2>1, <4>1
    <3>2. CASE k \in m /\ \A j \in 1..n : q[j].key # k
      <4>1. \A j \in 1..(n + i) : q[j].key # k
        BY <1>1, <3>1, <3>2
      <4> QED BY <3>2, <4>1 DEF DownAfter
    <3>3. ASSUME NEW a \in 1..n, q[a].key = k, q[a].pressed, \A j \in (a + 1)..n : q[j].key # k
          PROVE  DownAfter(q, m, n + i, k)
      <4>1. a \in 1..(n + i) /\ \A j \in (a + 1)..(n + i) : q[j].key # k
        BY <1>1, <3>1, <3>3
      <4> QED BY <3>3, <4>1 DEF DownAfter
    <3> QED BY <1>2, <2>1, <3>2, <3>3 DEF DownAfter
  <2>2. ASSUME NEW a \in 1..i, r[a].key = k, r[a].pressed, \A j \in (a + 1)..i : r[j].key # k
        PROVE  DownAfter(q, m, n + i, k)
    <3> DEFINE b == n + a
    <3>1. b \in 1..(n + i) /\ q[b] = r[a]
      BY <1>1
    <3>2. \A j \in (b + 1)..(n + i) : q[j].key # k
      <4> SUFFICES ASSUME NEW j \in (b + 1)..(n + i) PROVE q[j].key # k
        OBVIOUS
      <4> DEFINE d == j - n
      <4>1. d \in (a + 1)..i /\ d \in 1..(l - n) /\ n + d = j
        BY <1>1
      <4> HIDE DEF d
      <4> QED BY <1>1, <2>2, <4>1
    <3> HIDE DEF b
    <3> QED BY <2>2, <3>1, <3>2 DEF DownAfter
  <2> QED BY <1>3, <2>1, <2>2 DEF DownAfter
<1>4. ASSUME DownAfter(q, m, n + i, k) PROVE DownAfter(r, v, i, k)
  <2>1. CASE k \in m /\ \A j \in 1..(n + i) : q[j].key # k
    <3>1. k \in v
      <4>1. \A j \in 1..n : j \in 1..(n + i)
        BY <1>1
      <4>2. \A j \in 1..n : q[j].key # k
        BY <2>1, <4>1
      <4> QED BY <1>2, <2>1, <4>2 DEF DownAfter
    <3>2. \A j \in 1..i : r[j].key # k
      <4>1. \A j \in 1..i : j \in 1..(l - n) /\ n + j \in 1..(n + i)
        BY <1>1
      <4>2. \A j \in 1..i : r[j] = q[n + j]
        BY <1>1, <4>1
      <4> QED BY <2>1, <4>1, <4>2
    <3> QED BY <3>1, <3>2 DEF DownAfter
  <2>2. ASSUME NEW a \in 1..(n + i), q[a].key = k, q[a].pressed,
               \A j \in (a + 1)..(n + i) : q[j].key # k
        PROVE  DownAfter(r, v, i, k)
    <3>1. CASE a <= n
      <4>1. a \in 1..n /\ \A j \in (a + 1)..n : q[j].key # k
        BY <1>1, <2>2, <3>1
      <4>2. k \in v
        BY <1>2, <2>2, <4>1 DEF DownAfter
      <4>3. \A j \in 1..i : r[j].key # k
        BY <1>1, <2>2, <3>1
      <4> QED BY <4>2, <4>3 DEF DownAfter
    <3>2. CASE a > n
      <4> DEFINE d == a - n
      <4>1. d \in 1..i /\ d \in 1..(l - n) /\ n + d = a
        BY <1>1, <3>2
      <4> HIDE DEF d
      <4>2. r[d] = q[a]
        BY <1>1, <4>1
      <4>3. \A j \in (d + 1)..i : r[j].key # k
        BY <1>1, <2>2, <4>1
      <4> QED BY <2>2, <4>1, <4>2, <4>3 DEF DownAfter
    <3> QED BY <1>1, <3>1, <3>2
  <2> QED BY <1>4, <2>1, <2>2 DEF DownAfter
<1> QED BY <1>3, <1>4 DEF r, v

\* A queued change, be the queue full or not, sets its key's final level and no other.
LEMMA PushLevel ==
  ASSUME TypeOK, NEW c \in Change, Push(c), NEW k \in Key
  PROVE  LevelOf(k)' <=> IF c.key = k THEN c.pressed ELSE LevelOf(k)
<1>0. queue \in Seq(Change) /\ Len(queue) \in Nat
  BY DEF TypeOK
<1>1. CASE Len(queue) >= MaxQueuedKeys
  <2> DEFINE v == MatrixAfter(queue, matrix, Len(queue))
  <2>1. queue' = <<c>> /\ matrix' = v
    BY <1>1 DEF Push
  <2> DEFINE none == <<>>
  <2>2. none \in Seq(Change) /\ Len(none) = 0 /\ Append(none, c) = <<c>> /\ Len(<<c>>) = Len(none) + 1
    OBVIOUS
  <2>3. DownAfter(none, v, 0, k) <=> k \in v
    BY DEF DownAfter
  <2>4. k \in v <=> LevelOf(k)
    BY DEF MatrixAfter, LevelOf
  <2> HIDE DEF v, none
  <2>5. DownAfter(Append(none, c), v, Len(none) + 1, k)
          <=> IF c.key = k THEN c.pressed ELSE DownAfter(none, v, Len(none), k)
    BY <2>2, DownAppend
  <2> QED BY <2>1, <2>2, <2>3, <2>4, <2>5 DEF LevelOf
<1>2. CASE ~(Len(queue) >= MaxQueuedKeys)
  <2>1. queue' = Append(queue, c) /\ matrix' = matrix
    BY <1>2 DEF Push
  <2>2. Len(Append(queue, c)) = Len(queue) + 1
    BY <1>0, AppendProperties
  <2>3. LevelOf(k)' <=> DownAfter(Append(queue, c), matrix, Len(queue) + 1, k)
    BY <2>1, <2>2 DEF LevelOf
  <2> QED BY <1>0, <2>3, DownAppend DEF LevelOf
<1> QED BY <1>1, <1>2

\* A frame changes no final level, what it takes from the queue being in the matrix,
\* unless a tune's player resets the machine: then it closes none.
LEMMA ExecLevel ==
  ASSUME TypeOK, Exec, NEW k \in Key
  PROVE  /\ LevelOf(k)' => LevelOf(k)
         /\ SongGoesOn => (LevelOf(k)' <=> LevelOf(k))
<1> DEFINE n == Used(queue)
           l == Len(queue) - n
           m == MatrixAfter(queue, matrix, n)
<1>1. queue \in Seq(Change) /\ Len(queue) \in Nat /\ n \in 0..Len(queue)
  BY UsedOK DEF TypeOK
<1>2. queue' = Rest(queue, n) /\ matrix' = IF SongGoesOn THEN m ELSE {}
  BY ExecType
<1> HIDE DEF n
<1>3. Len(queue') = l /\ l \in 0..(Len(queue) - n) /\ n + l = Len(queue)
  BY <1>1, <1>2, RestOK
<1> HIDE DEF l
<1>4. DownAfter(Rest(queue, n), m, l, k) <=> DownAfter(queue, matrix, n + l, k)
  BY <1>1, <1>3, DownSplit
<1>5. DownAfter(Rest(queue, n), matrix', l, k) => DownAfter(Rest(queue, n), m, l, k)
  <2> HIDE DEF m
  <2> QED BY <1>2 DEF DownAfter
<1> QED BY <1>2, <1>3, <1>4, <1>5 DEF LevelOf

-----------------------------------------------------------------------------
(* One key's channel: the queue serves each key as a queue of its own would. *)

\* Induction up to n, for a set: the least number that is not in it has none before it.
Climbs(S, n) == 0 \in S /\ \A i \in 1..n : i - 1 \in S => i \in S

LEMMA Climb ==
  ASSUME NEW n \in Nat, NEW S, Climbs(S, n)
  PROVE  n \in S
<1> DEFINE D == {i \in 0..n : i \notin S}
           T == {n - i : i \in D}
<1>1. SUFFICES ASSUME D # {} PROVE FALSE
  OBVIOUS
<1>2. PICK d \in D : \A e \in D : d <= e
  <2>1. T \in SUBSET (0..n) /\ T # {}
    BY <1>1
  <2>2. PICK t \in T : \A u \in T : u <= t
    <3> HIDE DEF T, D
    <3> QED BY <2>1, Greatest
  <2>3. PICK d \in D : t = n - d
    BY <2>2
  <2>4. \A e \in D : n - e <= n - d /\ e \in Int
    <3>1. \A e \in D : n - e \in T /\ e \in Int
      OBVIOUS
    <3> QED BY <2>2, <2>3, <3>1
  <2>5. d \in Int /\ \A e \in Int : n - e <= n - d => d <= e
    <3>1. d \in Int
      BY <2>3
    <3> HIDE DEF D, T
    <3> QED BY <3>1
  <2> HIDE DEF D, T
  <2> QED BY <2>3, <2>4, <2>5
<1>3. d \in 0..n /\ d \notin S
  BY <1>2
<1>4. d # 0 /\ d - 1 \in 0..n /\ ~(d - 1 \in D)
  <2>1. d # 0
    BY <1>3 DEF Climbs
  <2>2. d - 1 \in Int /\ ~(d <= d - 1)
    BY <1>3
  <2> HIDE DEF D
  <2> QED BY <1>2, <1>3, <2>1, <2>2
<1> QED
  BY <1>3, <1>4 DEF Climbs

\* What change c does to the channel s of key k.
Added(s, c, k) == IF c.key = k THEN Append(s, c.pressed) ELSE s

\* f is the channel of k in q, change by change up to n.
Grows(f, q, k, n) == \A i \in 0..n : f[i] = IF i = 0 THEN <<>> ELSE Added(f[i - 1], q[i], k)

\* The equation of the recursive definition.
Grown(f, q, k, n) == f = [i \in 0..n |-> IF i = 0 THEN <<>> ELSE Added(f[i - 1], q[i], k)]

\* The recursive definition has a solution, one change longer at a time.
LEMMA GrowsExists ==
  ASSUME NEW q, NEW k, NEW n \in Nat
  PROVE  \E f : Grown(f, q, k, n)
<1> DEFINE Sol(m) == \E f : f = [i \in 0..m |-> IF i = 0 THEN <<>> ELSE Added(f[i - 1], q[i], k)]
           S == {m \in 0..n : Sol(m)}
<1>1. Sol(0)
  <2> DEFINE f == [i \in 0..0 |-> <<>>]
  <2>1. \A i \in 0..0 : i = 0
    OBVIOUS
  <2>2. f = [i \in 0..0 |-> IF i = 0 THEN <<>> ELSE Added(f[i - 1], q[i], k)]
    BY <2>1, Zenon
  <2> QED BY <2>2
<1>2. ASSUME NEW m \in 1..n, Sol(m - 1) PROVE Sol(m)
  <2>1. PICK f : f = [i \in 0..(m - 1) |-> IF i = 0 THEN <<>> ELSE Added(f[i - 1], q[i], k)]
    BY <1>2
  <2> DEFINE g == [i \in 0..m |-> IF i = m THEN Added(f[m - 1], q[m], k) ELSE f[i]]
  <2>2. \A i \in 0..(m - 1) : f[i] = IF i = 0 THEN <<>> ELSE Added(f[i - 1], q[i], k)
    BY <2>1
  <2>3. ASSUME NEW i \in 0..m
        PROVE  g[i] = IF i = 0 THEN <<>> ELSE Added(g[i - 1], q[i], k)
    <3>1. CASE i = m
      <4>1. i - 1 \in 0..m /\ i - 1 # m /\ i # 0
        BY <3>1
      <4>2. g[i - 1] = f[i - 1] /\ g[i] = Added(f[m - 1], q[m], k)
        BY <3>1, <4>1
      <4> HIDE DEF g
      <4> QED BY <3>1, <4>1, <4>2
    <3>2. CASE i # m /\ i # 0
      <4>1. i - 1 \in 0..m /\ i - 1 # m /\ i \in 0..(m - 1)
        BY <3>2
      <4>2. g[i - 1] = f[i - 1] /\ g[i] = f[i]
        BY <3>2, <4>1
      <4> HIDE DEF g
      <4> QED BY <2>2, <3>2, <4>1, <4>2
    <3>3. CASE i # m /\ i = 0
      <4>1. i \in 0..(m - 1) /\ g[i] = f[i]
        BY <3>3
      <4> HIDE DEF g
      <4> QED BY <2>2, <3>3, <4>1
    <3> QED BY <3>1, <3>2, <3>3
  <2>4. g = [i \in 0..m |-> g[i]]
    OBVIOUS
  <2> HIDE DEF g
  <2>5. g = [i \in 0..m |-> IF i = 0 THEN <<>> ELSE Added(g[i - 1], q[i], k)]
    BY <2>3, <2>4, Zenon
  <2> QED BY <2>5
<1> HIDE DEF Sol
<1>3. Climbs(S, n)
  <2>1. \A i \in 1..n : i \in 0..n
    OBVIOUS
  <2>2. 0 \in 0..n
    OBVIOUS
  <2> QED BY <1>1, <1>2, <2>1, <2>2 DEF Climbs
<1> HIDE DEF S
<1>4. n \in S
  BY <1>3, Climb
<1> QED BY <1>4 DEF S, Sol, Grown

LEMMA ChannelIs ==
  ASSUME NEW q \in Seq(Change), NEW k
  PROVE  \E f : Grows(f, q, k, Len(q)) /\ ChannelIn(q, k) = f[Len(q)]
<1> DEFINE n == Len(q)
           own == CHOOSE f : f = [i \in 0..n |-> IF i = 0 THEN <<>> ELSE Added(f[i - 1], q[i], k)]
<1>1. n \in Nat
  OBVIOUS
<1>2. ChannelIn(q, k) = own[n]
  BY DEF ChannelIn, Added
<1> HIDE DEF n
<1>3. own = [i \in 0..n |-> IF i = 0 THEN <<>> ELSE Added(own[i - 1], q[i], k)]
  <2> DEFINE Sol(f) == Grown(f, q, k, n)
  <2>1. \E f : Sol(f)
    BY <1>1, GrowsExists
  <2>2. own = CHOOSE f : Sol(f)
    BY Zenon DEF Grown
  <2> HIDE DEF Sol, own
  <2>3. Sol(own)
    BY <2>1, <2>2, Zenon
  <2> QED BY <2>3, Zenon DEF Sol, Grown
<1> HIDE DEF own
<1>4. \A i \in 0..n : own[i] = IF i = 0 THEN <<>> ELSE Added(own[i - 1], q[i], k)
  BY <1>3
<1> QED BY <1>2, <1>4 DEF Grows, n

\* The first l changes of q are d and then the first n of p.
Behind(q, d, p, n, l) == l = d + n /\ \A i \in 1..n : q[d + i] = p[i]

\* Where two queues hold the same changes, from d on in the first, a channel that was empty
\* there grows as that of the second.
LEMMA SameGrowth ==
  ASSUME NEW q, NEW p, NEW k, NEW f, NEW g, NEW d \in Nat, NEW n \in Nat, NEW l,
         Grows(f, q, k, l), Grows(g, p, k, n), f[d] = <<>>, Behind(q, d, p, n, l)
  PROVE  f[l] = g[n]
<1>0. l = d + n
  BY DEF Behind
<1> DEFINE S == {i \in 0..n : f[d + i] = g[i]}
<1>1. Climbs(S, n)
  <2>1. 0 \in 0..n /\ d + 0 = d
    OBVIOUS
  <2>2. g[0] = <<>>
    BY <2>1 DEF Grows
  <2>3. ASSUME NEW i \in 1..n, f[d + (i - 1)] = g[i - 1] PROVE f[d + i] = g[i]
    <3> DEFINE e == d + i
    <3>1. i \in 0..n /\ i # 0 /\ e \in 0..(d + n) /\ e # 0 /\ e - 1 = d + (i - 1) /\ e \in 0..l
      BY <1>0
    <3>2. q[e] = p[i]
      BY DEF Behind
    <3> HIDE DEF e
    <3>3. f[e] = Added(f[e - 1], q[e], k)
      BY <3>1 DEF Grows
    <3>4. g[i] = Added(g[i - 1], p[i], k)
      BY <3>1 DEF Grows
    <3> QED BY <2>3, <3>1, <3>2, <3>3, <3>4 DEF e
  <2>4. \A i \in 1..n : i \in 0..n /\ i - 1 \in 0..n
    OBVIOUS
  <2> QED BY <2>1, <2>2, <2>3, <2>4 DEF Climbs
<1> HIDE DEF S
<1>2. n \in S
  BY <1>1, Climb
<1> QED BY <1>2 DEF S, Behind

LEMMA GrowthType ==
  ASSUME NEW q \in Seq(Change), NEW k \in Key, NEW f, NEW n \in 0..Len(q), Grows(f, q, k, n)
  PROVE  f[n] \in Seq(BOOLEAN)
<1> DEFINE S == {i \in 0..n : f[i] \in Seq(BOOLEAN)}
<1>0. n \in Nat /\ Len(q) \in Nat
  OBVIOUS
<1>1. Climbs(S, n)
  <2>1. 0 \in 0..n /\ <<>> \in Seq(BOOLEAN)
    BY <1>0
  <2>2. f[0] = <<>>
    BY <2>1 DEF Grows
  <2>3. ASSUME NEW i \in 1..n, f[i - 1] \in Seq(BOOLEAN) PROVE f[i] \in Seq(BOOLEAN)
    <3>1. i \in 0..n /\ i # 0 /\ i \in 1..Len(q)
      BY <1>0
    <3>2. f[i] = Added(f[i - 1], q[i], k)
      BY <3>1 DEF Grows
    <3>3. q[i] \in Change
      BY <3>1, ElementOfSeq
    <3>4. q[i].key = k => q[i].pressed \in BOOLEAN
      BY <3>3 DEF Change
    <3> DEFINE s == f[i - 1]
               b == q[i].pressed
    <3>5. q[i].key = k => Append(s, b) \in Seq(BOOLEAN)
      <4>1. s \in Seq(BOOLEAN)
        BY <2>3
      <4> HIDE DEF s, b
      <4> QED BY <3>4, <4>1, AppendProperties DEF b
    <3> QED BY <2>3, <3>2, <3>5 DEF Added
  <2>4. \A i \in 1..n : i \in 0..n /\ i - 1 \in 0..n
    BY <1>0
  <2> QED BY <2>1, <2>2, <2>3, <2>4 DEF Climbs
<1> HIDE DEF S
<1>2. n \in S
  BY <1>0, <1>1, Climb
<1> QED BY <1>2 DEF S

LEMMA DownNext ==
  ASSUME NEW q \in Seq(Change), NEW m, NEW h \in Nat, NEW k \in Key, h + 1 \in 1..Len(q)
  PROVE  DownAfter(q, m, h + 1, k)
           <=> IF q[h + 1].key = k THEN q[h + 1].pressed ELSE DownAfter(q, m, h, k)
<1> DEFINE n == h + 1
<1>1. n \in 1..n /\ \A i \in 1..n : i = n \/ i \in 1..h
  OBVIOUS
<1>2. n \in Nat /\ h \in Nat /\ n # 0 /\ \A i \in 1..h : i \in 1..n
  OBVIOUS
<1>3. \A i \in (n + 1)..n : FALSE
  OBVIOUS
<1>4. \A i \in Int : n \in (i + 1)..n <=> i <= h
  OBVIOUS
<1>5. \A i \in Int : \A j \in (i + 1)..n : j = n \/ j \in (i + 1)..h
  OBVIOUS
<1>6. \A i \in Int : \A j \in (i + 1)..h : j \in (i + 1)..n
  OBVIOUS
<1>7. \A i \in 1..n : i \in Int
  OBVIOUS
<1>8. \A i \in 1..h : i <= h
  OBVIOUS
<1> HIDE DEF n
<1>9. CASE q[n].key = k
  <2>1. q[n].pressed => DownAfter(q, m, n, k)
    BY <1>1, <1>3, <1>9 DEF DownAfter
  <2>2. DownAfter(q, m, n, k) => q[n].pressed
    BY <1>1, <1>4, <1>7, <1>8, <1>9 DEF DownAfter
  <2> QED BY <1>9, <2>1, <2>2 DEF n
<1>10. CASE q[n].key # k
  <2>1. DownAfter(q, m, n, k) => DownAfter(q, m, h, k)
    BY <1>1, <1>2, <1>6, <1>7, <1>10 DEF DownAfter
  <2>2. DownAfter(q, m, h, k) => DownAfter(q, m, n, k)
    BY <1>1, <1>2, <1>5, <1>7, <1>10 DEF DownAfter
  <2> QED BY <1>10, <2>1, <2>2 DEF n
<1> QED BY <1>9, <1>10

\* The last of a channel is the last change to its key; an empty one has had none.
LEMMA GrowthLast ==
  ASSUME NEW q \in Seq(Change), NEW k \in Key, NEW f, NEW n \in 0..Len(q), Grows(f, q, k, n), NEW m
  PROVE  DownAfter(q, m, n, k) <=> IF f[n] = <<>> THEN k \in m ELSE f[n][Len(f[n])]
<1> DEFINE Lev(i) == DownAfter(q, m, i, k) <=> IF f[i] = <<>> THEN k \in m ELSE f[i][Len(f[i])]
           S == {i \in 0..n : Lev(i)}
<1>0. n \in Nat /\ Len(q) \in Nat
  OBVIOUS
<1>1. Lev(0)
  <2>1. 0 \in 0..n
    BY <1>0
  <2>2. f[0] = <<>>
    BY <2>1 DEF Grows
  <2> QED BY <2>2 DEF DownAfter
<1>2. ASSUME NEW i \in 1..n, Lev(i - 1) PROVE Lev(i)
  <2> DEFINE h == i - 1
  <2>1. i \in 0..n /\ i # 0 /\ i \in 1..Len(q) /\ h \in 0..Len(q) /\ h \in 0..n /\ i = h + 1 /\ h \in Nat
    BY <1>0
  <2>2. f[i] = Added(f[h], q[i], k)
    BY <2>1 DEF Grows
  <2>3. q[i] \in Change
    BY <2>1, ElementOfSeq
  <2> HIDE DEF h
  <2>4. f[h] \in Seq(BOOLEAN)
    <3>1. Grows(f, q, k, h)
      BY <1>0, <2>1 DEF Grows
    <3> QED BY <2>1, <3>1, GrowthType
  <2>5. DownAfter(q, m, i, k) <=> IF q[i].key = k THEN q[i].pressed ELSE DownAfter(q, m, h, k)
    BY <2>1, DownNext
  <2>6. CASE q[i].key = k
    <3> DEFINE s == f[h]
               b == q[i].pressed
    <3>1. s \in Seq(BOOLEAN) /\ b \in BOOLEAN
      BY <2>3, <2>4, <2>6 DEF Change
    <3>2. f[i] = Append(s, b)
      BY <2>2, <2>6 DEF Added
    <3> HIDE DEF s
    <3>3. b = q[i].pressed
      OBVIOUS
    <3> HIDE DEF b
    <3>4. Append(s, b) # <<>> /\ Append(s, b)[Len(Append(s, b))] = b
      BY <3>1, AppendProperties
    <3> QED BY <2>5, <2>6, <3>2, <3>3, <3>4
  <2>7. CASE q[i].key # k
    BY <1>2, <2>2, <2>5, <2>7 DEF Added, h
  <2> QED BY <2>6, <2>7
<1> HIDE DEF Lev
<1>3. Climbs(S, n)
  <2>1. \A i \in 1..n : i \in 0..n
    OBVIOUS
  <2>2. 0 \in 0..n
    BY <1>0
  <2> QED BY <1>1, <1>2, <2>1, <2>2 DEF Climbs
<1> HIDE DEF S
<1>4. n \in S
  BY <1>0, <1>3, Climb
<1> QED BY <1>4 DEF S, Lev

\* The first n changes of a queue that repeat no key hold at most one of key k.
LEMMA GrowthOnce ==
  ASSUME NEW q \in Seq(Change), NEW k \in Key, NEW f, NEW n \in 0..Len(q), Grows(f, q, k, n),
         Distinct(q, n)
  PROVE  \/ f[n] = <<>>
         \/ \E i \in 1..n : q[i].key = k /\ f[n] = <<q[i].pressed>>
<1> DEFINE One1(m) == \/ f[m] = <<>> /\ \A i \in 1..m : q[i].key # k
                     \/ \E i \in 1..m : q[i].key = k /\ f[m] = <<q[i].pressed>>
           S == {m \in 0..n : One1(m)}
<1>0. n \in Nat /\ Len(q) \in Nat
  OBVIOUS
<1>1. One1(0)
  <2>1. 0 \in 0..n /\ \A i \in 1..0 : FALSE
    BY <1>0
  <2>2. f[0] = <<>>
    BY <2>1 DEF Grows
  <2> QED BY <2>1, <2>2
<1>2. ASSUME NEW m \in 1..n, One1(m - 1) PROVE One1(m)
  <2>1. m \in 0..n /\ m # 0 /\ m \in 1..m /\ \A i \in 1..m : i = m \/ i \in 1..(m - 1)
    BY <1>0
  <2>2. f[m] = Added(f[m - 1], q[m], k)
    BY <2>1 DEF Grows
  <2>3. CASE q[m].key # k
    <3>1. f[m] = f[m - 1]
      BY <2>2, <2>3 DEF Added
    <3>2. \A i \in 1..(m - 1) : i \in 1..m
      BY <1>0
    <3> QED BY <1>2, <2>1, <2>3, <3>1, <3>2
  <2>4. CASE q[m].key = k
    <3>1. \A i \in 1..(m - 1) : q[i].key # k
      <4>1. \A i \in 1..(m - 1) : i \in 1..n /\ i # m /\ m \in 1..n
        BY <1>0
      <4> QED BY <2>4, <4>1 DEF Distinct
    <3>2. f[m - 1] = <<>>
      BY <1>2, <3>1
    <3> DEFINE b == q[m].pressed
    <3>3. Append(<<>>, b) = <<b>>
      OBVIOUS
    <3> HIDE DEF b
    <3>4. f[m] = <<b>>
      BY <2>2, <2>4, <3>2, <3>3 DEF Added, b
    <3> QED BY <2>1, <2>4, <3>4 DEF b
  <2> QED BY <2>3, <2>4
<1> HIDE DEF One1
<1>3. Climbs(S, n)
  <2>1. \A i \in 1..n : i \in 0..n
    OBVIOUS
  <2>2. 0 \in 0..n
    BY <1>0
  <2> QED BY <1>1, <1>2, <2>1, <2>2 DEF Climbs
<1> HIDE DEF S
<1>4. n \in S
  BY <1>0, <1>3, Climb
<1> QED BY <1>4 DEF S, One1

\* Beyond a channel's first change, it grows as the channel of what is queued behind that.
LEMMA TailGrowth ==
  ASSUME NEW q \in Seq(Change), NEW p, NEW k \in Key, NEW f, NEW g, NEW d \in Nat, NEW n \in Nat,
         NEW l, l <= Len(q), NEW b \in BOOLEAN,
         Grows(f, q, k, l), Grows(g, p, k, n), f[d] = <<b>>, Behind(q, d, p, n, l)
  PROVE  f[l] # <<>> /\ Head(f[l]) = b /\ Tail(f[l]) = g[n]
<1>0. l = d + n
  BY DEF Behind
<1> DEFINE Past(i) == f[d + i] # <<>> /\ Head(f[d + i]) = b /\ Tail(f[d + i]) = g[i]
           S == {i \in 0..n : Past(i)}
<1>1. Past(0)
  <2>1. 0 \in 0..n /\ d + 0 = d
    OBVIOUS
  <2>2. g[0] = <<>>
    BY <2>1 DEF Grows
  <2>3. <<b>> # <<>> /\ Head(<<b>>) = b /\ Tail(<<b>>) = <<>>
    OBVIOUS
  <2> QED BY <2>1, <2>2, <2>3
<1>2. ASSUME NEW i \in 1..n, Past(i - 1) PROVE Past(i)
  <2> DEFINE e == d + i
             h == e - 1
  <2>1. i \in 0..n /\ i # 0 /\ e \in 0..(d + n) /\ e # 0 /\ h = d + (i - 1) /\ h \in 0..Len(q) /\ e \in 1..Len(q)
        /\ h \in 0..(d + n)
    BY <1>0
  <2>2. q[e] = p[i]
    BY DEF Behind
  <2> HIDE DEF e, h
  <2>3. f[e] = Added(f[h], q[e], k)
    BY <1>0, <2>1 DEF Grows, h
  <2>4. g[i] = Added(g[i - 1], p[i], k)
    BY <2>1 DEF Grows
  <2>5. q[e] \in Change
    BY <2>1, ElementOfSeq
  <2>6. f[h] \in Seq(BOOLEAN)
    <3>1. Grows(f, q, k, h)
      BY <1>0, <2>1 DEF Grows
    <3> QED BY <2>1, <3>1, GrowthType
  <2>7. f[h] # <<>> /\ Head(f[h]) = b /\ Tail(f[h]) = g[i - 1]
    BY <1>2, <2>1
  <2>8. CASE q[e].key = k
    <3> DEFINE s == f[h]
               t == g[i - 1]
               v == q[e].pressed
    <3>1. s \in Seq(BOOLEAN) /\ v \in BOOLEAN /\ s # <<>> /\ Head(s) = b /\ Tail(s) = t
      BY <2>5, <2>6, <2>7, <2>8 DEF Change
    <3>2. f[e] = Append(s, v) /\ g[i] = Append(t, v)
      BY <2>2, <2>3, <2>4, <2>8 DEF Added
    <3> HIDE DEF s, t, v
    <3>3. Append(s, v) # <<>> /\ Head(Append(s, v)) = b /\ Tail(Append(s, v)) = Append(t, v)
      <4>1. Append(s, v) # <<>>
        BY <3>1, AppendProperties
      <4> QED BY <3>1, <4>1, HeadTailAppend
    <3> QED BY <3>2, <3>3 DEF e
  <2>9. CASE q[e].key # k
    BY <2>2, <2>3, <2>4, <2>7, <2>9 DEF Added, e
  <2> QED BY <2>8, <2>9
<1> HIDE DEF Past
<1>3. Climbs(S, n)
  <2>1. \A i \in 1..n : i \in 0..n
    OBVIOUS
  <2>2. 0 \in 0..n
    OBVIOUS
  <2> QED BY <1>1, <1>2, <2>1, <2>2 DEF Climbs
<1> HIDE DEF S
<1>4. n \in S
  BY <1>3, Climb
<1> QED BY <1>0, <1>4 DEF S, Past

LEMMA ChannelType ==
  ASSUME NEW q \in Seq(Change), NEW k \in Key
  PROVE  ChannelIn(q, k) \in Seq(BOOLEAN)
<1> DEFINE n == Len(q)
<1>1. n \in 0..Len(q)
  OBVIOUS
<1>2. PICK f : Grows(f, q, k, n) /\ ChannelIn(q, k) = f[n]
  BY ChannelIs
<1> HIDE DEF n
<1> QED BY <1>1, <1>2, GrowthType

LEMMA ChannelNone ==
  ASSUME NEW k PROVE ChannelIn(<<>>, k) = <<>>
<1> DEFINE q == <<>>
<1>1. q \in Seq(Change) /\ Len(q) = 0 /\ 0 \in 0..0
  OBVIOUS
<1> HIDE DEF q
<1>2. PICK f : Grows(f, q, k, Len(q)) /\ ChannelIn(q, k) = f[Len(q)]
  BY <1>1, ChannelIs
<1>3. f[0] = <<>>
  BY <1>1, <1>2 DEF Grows
<1> QED BY <1>1, <1>2, <1>3 DEF q

\* A change queued is the last of its key's channel, and in no other's.
LEMMA ChannelAppend ==
  ASSUME NEW q \in Seq(Change), NEW c \in Change, NEW k
  PROVE  ChannelIn(Append(q, c), k) = Added(ChannelIn(q, k), c, k)
<1> DEFINE p == Append(q, c)
           n == Len(q)
           m == n + 1
<1>1. /\ p \in Seq(Change) /\ Len(p) = m /\ n \in Nat /\ p[m] = c
      /\ \A i \in 1..n : p[i] = q[i]
  BY AppendProperties
<1>2. m \in 0..m /\ m # 0 /\ m - 1 = n /\ \A i \in 0..n : i \in 0..m
  OBVIOUS
<1>3. PICK g : Grows(g, q, k, n) /\ ChannelIn(q, k) = g[n]
  BY ChannelIs
<1> HIDE DEF p
<1>4. PICK f : Grows(f, p, k, Len(p)) /\ ChannelIn(p, k) = f[Len(p)]
  BY <1>1, ChannelIs
<1> HIDE DEF m, n
<1>5. f[n] = g[n]
  <2> DEFINE d == 0
  <2>1. d \in Nat /\ Behind(p, d, q, n, n)
    BY <1>1 DEF Behind
  <2>2. Grows(f, p, k, n) /\ f[d] = <<>>
    <3>1. 0 \in 0..m
      BY <1>1 DEF m
    <3> QED BY <1>1, <1>2, <1>4, <2>1, <3>1 DEF Grows
  <2> HIDE DEF d
  <2> QED BY <1>1, <1>3, <2>1, <2>2, SameGrowth
<1>6. f[m] = Added(f[m - 1], p[m], k)
  BY <1>1, <1>2, <1>4 DEF Grows
<1> QED BY <1>1, <1>2, <1>3, <1>4, <1>5, <1>6 DEF p

LEMMA ChannelOne ==
  ASSUME NEW c \in Change, NEW k
  PROVE  ChannelIn(<<c>>, k) = IF c.key = k THEN <<c.pressed>> ELSE <<>>
<1> DEFINE q == <<>>
           b == c.pressed
<1>1. q \in Seq(Change) /\ Append(q, c) = <<c>> /\ Append(q, b) = <<b>>
  OBVIOUS
<1>2. ChannelIn(q, k) = q
  BY ChannelNone
<1> HIDE DEF q, b
<1>3. ChannelIn(Append(q, c), k) = Added(ChannelIn(q, k), c, k)
  BY <1>1, ChannelAppend
<1> QED BY <1>1, <1>2, <1>3 DEF Added, b, q

\* Once the whole queue is made, a switch is at the level its channel ends with.
LEMMA ChannelLevel ==
  ASSUME NEW q \in Seq(Change), NEW k \in Key, NEW m
  PROVE  k \in MatrixAfter(q, m, Len(q))
           <=> IF ChannelIn(q, k) = <<>> THEN k \in m ELSE ChannelIn(q, k)[Len(ChannelIn(q, k))]
<1> DEFINE n == Len(q)
<1>1. n \in 0..Len(q)
  OBVIOUS
<1>2. PICK f : Grows(f, q, k, n) /\ ChannelIn(q, k) = f[n]
  BY ChannelIs
<1>3. k \in MatrixAfter(q, m, n) <=> DownAfter(q, m, n, k)
  BY DEF MatrixAfter
<1> HIDE DEF n
<1>4. DownAfter(q, m, n, k) <=> IF f[n] = <<>> THEN k \in m ELSE f[n][Len(f[n])]
  BY <1>1, <1>2, GrowthLast
<1> QED BY <1>2, <1>3, <1>4 DEF n

ServedOnce(q, r, m, v, k) ==
  \/ ChannelIn(r, k) = ChannelIn(q, k) /\ (k \in v <=> k \in m)
  \/ /\ ChannelIn(q, k) # <<>>
     /\ ChannelIn(r, k) = Tail(ChannelIn(q, k))
     /\ (k \in v <=> Head(ChannelIn(q, k)))

\* A burst serves a key not at all or with the oldest change of its channel.
LEMMA BurstServes ==
  ASSUME NEW q \in Seq(Change), NEW k \in Key, NEW m, NEW n \in 0..Len(q), Distinct(q, n)
  PROVE  ServedOnce(q, Rest(q, n), m, MatrixAfter(q, m, n), k)
<1> DEFINE r == Rest(q, n)
           l == Len(q) - n
           v == MatrixAfter(q, m, n)
<1>1. /\ r \in Seq(Change) /\ Len(r) = l /\ l \in Nat /\ n \in Nat /\ Len(q) = n + l
      /\ Len(q) <= Len(q) /\ n \in 0..Len(q) /\ l \in 0..Len(r)
  BY RestOK
<1>2. Behind(q, n, r, l, Len(q))
  <2>1. Len(q) \in Nat /\ \A j \in (n + 1)..Len(q) : q[j] \in Change
    BY ElementOfSeq
  <2>2. \A j \in 1..(Len(q) - n) : SubSeq(q, n + 1, Len(q))[j] = q[(n + 1) + j - 1]
    BY <2>1, SubSeqProperties
  <2>3. \A j \in 1..(Len(q) - n) : q[(n + 1) + j - 1] = q[n + j]
    BY <2>1
  <2> QED BY <1>1, <2>1, <2>2, <2>3 DEF Rest, Behind
<1>3. k \in v <=> DownAfter(q, m, n, k)
  BY DEF MatrixAfter
<1> HIDE DEF r, l, v
<1>4. PICK f : Grows(f, q, k, Len(q)) /\ ChannelIn(q, k) = f[Len(q)]
  BY ChannelIs
<1>5. PICK g : Grows(g, r, k, Len(r)) /\ ChannelIn(r, k) = g[Len(r)]
  BY <1>1, ChannelIs
<1>6. Grows(f, q, k, Len(q)) /\ Grows(g, r, k, l) /\ Grows(f, q, k, n)
  BY <1>1, <1>4, <1>5 DEF Grows
<1>7. DownAfter(q, m, n, k) <=> IF f[n] = <<>> THEN k \in m ELSE f[n][Len(f[n])]
  BY <1>6, GrowthLast
<1>8. CASE f[n] = <<>>
  <2>1. f[Len(q)] = g[l]
    BY <1>1, <1>2, <1>6, <1>8, SameGrowth
  <2>2. k \in v <=> k \in m
    BY <1>3, <1>7, <1>8
  <2> QED BY <1>1, <1>4, <1>5, <2>1, <2>2 DEF ServedOnce, r, v
<1>9. ASSUME NEW i \in 1..n, q[i].key = k, f[n] = <<q[i].pressed>>
      PROVE  ServedOnce(q, r, m, v, k)
  <2> DEFINE b == q[i].pressed
  <2>1. b \in BOOLEAN
    <3>1. i \in 1..Len(q)
      BY <1>1
    <3>2. q[i] \in Change
      BY <3>1, ElementOfSeq
    <3> QED BY <1>9, <3>2, KeyAssumption DEF Change
  <2>2. f[n] = <<b>>
    BY <1>9
  <2> HIDE DEF b
  <2>3. f[Len(q)] # <<>> /\ Head(f[Len(q)]) = b /\ Tail(f[Len(q)]) = g[l]
    BY <1>1, <1>2, <1>6, <2>1, <2>2, TailGrowth
  <2>4. <<b>> # <<>> /\ Len(<<b>>) = 1 /\ <<b>>[1] = b
    OBVIOUS
  <2>5. k \in v <=> b
    BY <1>3, <1>7, <2>2, <2>4
  <2> QED BY <1>1, <1>4, <1>5, <2>3, <2>5 DEF ServedOnce
<1> QED BY <1>6, <1>8, <1>9, GrowthOnce DEF r, v

\* A change queued posts to its key's channel; to flush a full queue hurries every channel.
LEMMA PushServes ==
  ASSUME TypeOK, NEW c \in Change, Push(c), player' = player
  PROVE  \/ UNCHANGED StopChannel!cvars
         \/ StopChannel!Rush
         \/ c.key = "stop" /\ (StopChannel!Post(c.pressed) \/ StopChannel!RushPost(c.pressed))
<1> DEFINE k == "stop"
           s == ChannelIn(queue, k)
<1>1. queue \in Seq(Change) /\ k \in Key /\ s \in Seq(BOOLEAN)
  BY KeyAssumption, ChannelType DEF TypeOK
<1>2. ChannelOf(k) = s /\ ChannelOf(k)' = ChannelIn(queue', k)
  BY DEF ChannelOf
<1>3. (c.key = k => c.pressed \in BOOLEAN) /\ Playing' = Playing
  BY DEF Change, Playing
<1>4. ASSUME Len(queue) >= MaxQueuedKeys
      PROVE  \/ UNCHANGED StopChannel!cvars
             \/ StopChannel!Rush
             \/ c.key = k /\ StopChannel!RushPost(c.pressed)
  <2>1. queue' = <<c>> /\ matrix' = MatrixAfter(queue, matrix, Len(queue))
    BY <1>4 DEF Push
  <2>2. ChannelIn(queue', k) = IF c.key = k THEN <<c.pressed>> ELSE <<>>
    BY <2>1, ChannelOne
  <2>3. k \in matrix' <=> IF s = <<>> THEN k \in matrix ELSE s[Len(s)]
    BY <1>1, <2>1, ChannelLevel
  <2>4. s # <<>> => s[Len(s)] \in BOOLEAN
    BY <1>1
  <2> HIDE DEF s
  <2>5. (k \in matrix') = StopChannel!Level
    BY <1>2, <2>3, <2>4 DEF StopChannel!Level
  <2>6. CASE c.key = k
    BY <1>2, <1>3, <2>2, <2>5, <2>6 DEF StopChannel!RushPost
  <2>7. CASE c.key # k /\ s # <<>>
    BY <1>2, <1>3, <2>2, <2>5, <2>7 DEF StopChannel!Rush
  <2>8. CASE c.key # k /\ s = <<>>
    <3>1. (k \in matrix') = (k \in matrix)
      BY <2>3, <2>8
    <3> QED BY <1>2, <1>3, <2>2, <2>8, <3>1 DEF StopChannel!cvars
  <2> QED BY <2>6, <2>7, <2>8
<1>5. ASSUME ~(Len(queue) >= MaxQueuedKeys)
      PROVE  \/ UNCHANGED StopChannel!cvars
             \/ c.key = k /\ StopChannel!Post(c.pressed)
  <2>1. queue' = Append(queue, c) /\ matrix' = matrix
    BY <1>5 DEF Push
  <2>2. ChannelIn(queue', k) = Added(s, c, k)
    BY <1>1, <2>1, ChannelAppend
  <2> HIDE DEF s
  <2>3. CASE c.key = k
    BY <1>2, <1>3, <2>1, <2>2, <2>3 DEF StopChannel!Post, Added
  <2>4. CASE c.key # k
    BY <1>2, <1>3, <2>1, <2>2, <2>4 DEF StopChannel!cvars, Added
  <2> QED BY <2>3, <2>4
<1> QED BY <1>4, <1>5

\* What queues nothing and flushes nothing of RUN/STOP leaves its channel be.
LEMMA QuietChannel ==
  ASSUME queue' = queue PROVE ChannelOf("stop")' = ChannelOf("stop")
BY DEF ChannelOf

LEMMA EmptyChannel ==
  ASSUME queue' = <<>> PROVE ChannelOf("stop")' = <<>>
BY ChannelNone DEF ChannelOf

LEMMA FlushServes ==
  ASSUME TypeOK, FlushKeys
  PROVE  UNCHANGED StopChannel!cvars \/ StopChannel!Rush
<1> DEFINE k == "stop"
           s == ChannelIn(queue, k)
<1>1. queue \in Seq(Change) /\ k \in Key /\ s \in Seq(BOOLEAN)
  BY KeyAssumption, ChannelType DEF TypeOK
<1>2. ChannelOf(k) = s /\ ChannelOf(k)' = <<>>
  BY EmptyChannel DEF ChannelOf, FlushKeys
<1>3. k \in matrix' <=> IF s = <<>> THEN k \in matrix ELSE s[Len(s)]
  BY <1>1, ChannelLevel DEF FlushKeys
<1>4. s # <<>> => s[Len(s)] \in BOOLEAN
  BY <1>1
<1>8. Playing' = Playing
  BY DEF FlushKeys, Playing
<1> HIDE DEF s
<1>5. (k \in matrix') = StopChannel!Level
  BY <1>2, <1>3, <1>4 DEF StopChannel!Level
<1>6. CASE s # <<>>
  BY <1>2, <1>5, <1>6, <1>8 DEF StopChannel!Rush
<1>7. CASE s = <<>>
  <2>1. (k \in matrix') = (k \in matrix)
    BY <1>3, <1>7
  <2> QED BY <1>2, <1>7, <1>8, <2>1 DEF StopChannel!cvars
<1> QED BY <1>6, <1>7

LEMMA ExecServes ==
  ASSUME TypeOK, Exec, NEW k \in Key
  PROVE  \/ /\ ChannelOf(k)' = ChannelOf(k)
            /\ k \in matrix' <=> SongGoesOn /\ k \in matrix
         \/ /\ ChannelOf(k) # <<>>
            /\ ChannelOf(k)' = Tail(ChannelOf(k))
            /\ k \in matrix' <=> SongGoesOn /\ Head(ChannelOf(k))
<1> DEFINE n == Used(queue)
           m == MatrixAfter(queue, matrix, n)
<1>1. queue \in Seq(Change) /\ n \in 0..Len(queue) /\ Distinct(queue, n)
  BY UsedOK DEF TypeOK
<1>2. queue' = Rest(queue, n) /\ matrix' = IF SongGoesOn THEN m ELSE {}
  BY ExecType
<1> HIDE DEF n
<1>3. ServedOnce(queue, queue', matrix, m, k)
  BY <1>1, <1>2, BurstServes
<1>4. ChannelOf(k) = ChannelIn(queue, k) /\ ChannelOf(k)' = ChannelIn(queue', k)
  BY DEF ChannelOf
<1> HIDE DEF m
<1>5. k \in matrix' <=> SongGoesOn /\ k \in m
  BY <1>2
<1> QED BY <1>3, <1>4, <1>5 DEF ServedOnce

\* In one exec() a key takes no change or exactly its oldest one, and the CPU starts from
\* the level that leaves; a tune's player that resets the machine opens every switch, and
\* consumes the change all the same.
THEOREM EachLastsAnExec == Spec => OneChangePerExec
<1> DEFINE A == Exec =>
                  /\ entry'.keys = matrix'
                  /\ \A k \in Key :
                       \/ /\ ChannelOf(k)' = ChannelOf(k)
                          /\ k \in matrix' <=> SongGoesOn /\ k \in matrix
                       \/ /\ ChannelOf(k) # <<>>
                          /\ ChannelOf(k)' = Tail(ChannelOf(k))
                          /\ k \in matrix' <=> SongGoesOn /\ Head(ChannelOf(k))
<1>1. TypeOK /\ [Next]_vars => [A]_vars
  BY ExecServes, ExecType
<1> QED BY TypeCorrect, <1>1, PTL DEF Spec, OneChangePerExec

\* Every step of the queue is one of RUN/STOP's own channel, or leaves that as it is.
THEOREM QueueServesKey == Spec => StopChannel!Init /\ [][StopChannel!Next]_(StopChannel!cvars)
<1> DEFINE k == "stop"
<1>1. Init => StopChannel!Init
  <2> SUFFICES ASSUME Init PROVE StopChannel!Init
    OBVIOUS
  <2>1. ChannelOf(k) = <<>>
    BY ChannelNone DEF ChannelOf, Init
  <2>2. (k \in matrix) = FALSE /\ Playing = FALSE
    BY DEF Init, Playing, NoTune, Tune
  <2> QED BY <2>1, <2>2 DEF StopChannel!Init
<1>2. TypeOK /\ [Next]_vars => [StopChannel!Next]_(StopChannel!cvars)
  <2> SUFFICES ASSUME TypeOK, [Next]_vars
               PROVE  StopChannel!Next \/ UNCHANGED StopChannel!cvars
    OBVIOUS
  <2>1. ASSUME NEW c \in Change, Push(c), player' = player
        PROVE  StopChannel!Next \/ UNCHANGED StopChannel!cvars
    <3>1. c.key = k => c.pressed \in BOOLEAN
      BY DEF Change
    <3> QED BY <2>1, <3>1, PushServes DEF StopChannel!Next
  <2>2. ASSUME NEW l \in Key, NEW p \in BOOLEAN, QueueKey(l, p)
        PROVE  StopChannel!Next \/ UNCHANGED StopChannel!cvars
    <3>1. [key |-> l, pressed |-> p] \in Change
      BY DEF Change
    <3> QED BY <2>1, <2>2, <3>1 DEF QueueKey
  <2>3. CASE PressRestore
    <3>1. [key |-> RESTORE, pressed |-> TRUE] \in Change
      BY DEF Change
    <3> QED BY <2>1, <2>3, <3>1 DEF PressRestore
  <2>4. ASSUME NEW l \in Key, NEW p \in BOOLEAN, SetKey(l, p)
        PROVE  StopChannel!Next \/ UNCHANGED StopChannel!cvars
    <3>1. ChannelOf(k)' = ChannelOf(k) /\ Playing' = Playing
      BY <2>4, QuietChannel DEF SetKey, Playing
    <3>2. CASE l = k
      <4>1. (k \in matrix') = p
        BY <2>4, <3>2 DEF SetKey
      <4> QED BY <3>1, <4>1 DEF StopChannel!Next, StopChannel!Set
    <3>3. CASE l # k
      <4>1. (k \in matrix') = (k \in matrix)
        BY <2>4, <3>3 DEF SetKey
      <4> QED BY <3>1, <4>1 DEF StopChannel!cvars
    <3> QED BY <3>2, <3>3
  <2>5. CASE FlushKeys
    BY <2>5, FlushServes DEF StopChannel!Next
  <2>6. CASE ClearKeys \/ Reset
    <3>1. ChannelOf(k)' = <<>> /\ (k \in matrix') = FALSE
      BY <2>6, EmptyChannel DEF ClearKeys, Reset
    <3>2. Playing' \in {Playing, FALSE}
      <4>1. CASE ClearKeys
        <5>1. player' = player
          BY <4>1 DEF ClearKeys
        <5> QED BY <5>1 DEF Playing
      <4>2. CASE Reset
        <5>1. player'.song = 0
          BY <4>2 DEF Reset, NoTune, Tune
        <5>2. Playing' = FALSE
          BY <5>1 DEF Playing
        <5> QED BY <5>2
      <4> QED BY <2>6, <4>1, <4>2
    <3> QED BY <3>1, <3>2 DEF StopChannel!Next, StopChannel!Clear
  <2>7. ASSUME OpenMatrix PROVE StopChannel!Next
    <3>1. ChannelOf(k)' = ChannelOf(k) /\ (k \in matrix') = FALSE
      BY <2>7, QuietChannel DEF OpenMatrix
    <3>2. Playing' \in BOOLEAN
      BY DEF Playing
    <3> QED BY <3>1, <3>2 DEF StopChannel!Next, StopChannel!Unplug
  <2>8. CASE Exec
    <3>1. k \in Key /\ ChannelOf(k) \in Seq(BOOLEAN)
      BY KeyAssumption, ChannelType DEF TypeOK, ChannelOf
    <3>2. SongGoesOn => Playing' = Playing
      BY DEF SongGoesOn, Playing
    <3>3. ~SongGoesOn => Playing
      BY <2>8, ExecType DEF PlayerResets
    <3>4. Playing' \in BOOLEAN
      BY DEF Playing
    <3>5. CASE ChannelOf(k)' = ChannelOf(k) /\ (k \in matrix' <=> SongGoesOn /\ k \in matrix)
      <4>1. CASE SongGoesOn
        <5>1. (k \in matrix') = (k \in matrix)
          BY <3>5, <4>1
        <5> QED BY <3>2, <3>5, <4>1, <5>1 DEF StopChannel!cvars
      <4>2. CASE ~SongGoesOn
        <5>1. (k \in matrix') = FALSE
          BY <3>5, <4>2
        <5> QED BY <3>4, <3>5, <5>1 DEF StopChannel!Next, StopChannel!Unplug
      <4> QED BY <4>1, <4>2
    <3>6. CASE /\ ChannelOf(k) # <<>>
               /\ ChannelOf(k)' = Tail(ChannelOf(k))
               /\ (k \in matrix' <=> SongGoesOn /\ Head(ChannelOf(k)))
      <4> DEFINE h == Head(ChannelOf(k))
                 d == k \in matrix'
      <4>1. h \in BOOLEAN
        BY <3>1, <3>6, HeadTailProperties
      <4>2. d \in BOOLEAN
        OBVIOUS
      <4>3. d <=> SongGoesOn /\ h
        BY <3>6, Zenon
      <4> HIDE DEF h, d
      <4>4. CASE SongGoesOn
        <5>1. d = h
          BY <4>1, <4>2, <4>3, <4>4
        <5> QED BY <3>2, <3>6, <4>4, <5>1 DEF d, h, StopChannel!Next, StopChannel!Frame
      <4>5. CASE ~SongGoesOn
        <5>1. d = FALSE
          BY <4>2, <4>3, <4>5
        <5> QED BY <3>3, <3>4, <3>6, <4>5, <5>1 DEF d, StopChannel!Next, StopChannel!Swallowed
      <4> QED BY <4>4, <4>5
    <3> QED BY <2>8, <3>1, <3>5, <3>6, ExecServes
  <2>9. CASE UNCHANGED vars
    <3>1. ChannelOf(k)' = ChannelOf(k) /\ (k \in matrix') = (k \in matrix) /\ Playing' = Playing
      BY <2>9, QuietChannel DEF vars, Playing
    <3> QED BY <3>1 DEF StopChannel!cvars
  <2> QED BY <2>2, <2>3, <2>4, <2>5, <2>6, <2>7, <2>8, <2>9
     DEF Next, StateReset, LoadTune
<1> QED BY TypeCorrect, <1>1, <1>2, PTL DEF Spec

-----------------------------------------------------------------------------
(* What a message still has to do, form by form. *)

Op(k, p, l) == [op |-> "key", key |-> k, pressed |-> p, locked |-> l]

ShiftKeys == HostKey \cap DOMAIN Shifted

One(h, p)    == <<Op(h, p, FALSE)>>
Second(h, p) == <<Op(Shifted[h], p, TRUE)>>
Both(h, p)   == <<Op("Shift", p, FALSE), Op(Shifted[h], p, TRUE)>>
LatchOne(h, p) == <<Latch(h), Op(h, p, FALSE)>>
ClearBoth    == <<ClearWord("joystick"), ClearWord("taps")>>

TodoForm(t) ==
  \/ t = <<>>
  \/ \E h \in HostKey \ ShiftKeys, p \in BOOLEAN : t = One(h, p)
  \/ \E h \in ShiftKeys, p \in BOOLEAN : t = Both(h, p) \/ t = Second(h, p)
  \/ \E h \in HostKey : t = <<Latch(h)>>
  \/ \E h \in HostKey \ ShiftKeys : t = <<Latch(h), Op(h, TRUE, FALSE)>>
  \/ t = ClearBoth \/ t = <<ClearWord("taps")>>

TodoOK == TodoForm(todo)

LEMMA SendKeysIs ==
  ASSUME NEW h \in HostKey, NEW p
  PROVE  SendKeys(h, p) = IF h \in ShiftKeys THEN Both(h, p) ELSE One(h, p)
<1>1. CASE h \in DOMAIN Shifted
  <2> DEFINE d == Shifted[h]
             F(i) == [op |-> "key", key |-> <<"Shift", d>>[i], pressed |-> p, locked |-> i > 1]
  <2>1. map_key(h) = <<"Shift", d>>
    BY <1>1 DEF map_key
  <2> HIDE DEF d
  <2>2. DOMAIN <<"Shift", d>> = 1..2
    OBVIOUS
  <2>3. SendKeys(h, p) = [i \in 1..2 |-> F(i)]
    BY <2>1, <2>2, Zenon DEF SendKeys
  <2>4. F(1) = Op("Shift", p, FALSE) /\ F(2) = Op(d, p, TRUE)
    <3>1. (1 > 1) = FALSE /\ (2 > 1) = TRUE
      OBVIOUS
    <3>2. <<"Shift", d>>[1] = "Shift" /\ <<"Shift", d>>[2] = d
      OBVIOUS
    <3> QED BY <3>1, <3>2, Zenon DEF Op
  <2> HIDE DEF F
  <2>5. [i \in 1..2 |-> F(i)] = <<F(1), F(2)>>
    OBVIOUS
  <2> QED BY <1>1, <2>3, <2>4, <2>5 DEF d, Both, ShiftKeys
<1>2. CASE h \notin DOMAIN Shifted
  <2> DEFINE F(i) == [op |-> "key", key |-> <<h>>[i], pressed |-> p, locked |-> i > 1]
  <2>1. map_key(h) = <<h>>
    BY <1>2 DEF map_key
  <2>2. DOMAIN <<h>> = 1..1
    OBVIOUS
  <2>3. SendKeys(h, p) = [i \in 1..1 |-> F(i)]
    BY <2>1, <2>2, Zenon DEF SendKeys
  <2>4. F(1) = Op(h, p, FALSE)
    <3>1. (1 > 1) = FALSE
      OBVIOUS
    <3>2. <<h>>[1] = h
      OBVIOUS
    <3> QED BY <3>1, <3>2, Zenon DEF Op
  <2> HIDE DEF F
  <2>5. [i \in 1..1 |-> F(i)] = <<F(1)>>
    OBVIOUS
  <2> QED BY <1>2, <2>3, <2>4, <2>5 DEF One, ShiftKeys
<1> QED BY <1>1, <1>2

LEMMA SwitchesAre ==
  ASSUME NEW h
  PROVE  SwitchesOf(h) = IF h \in DOMAIN Shifted THEN {"Shift", Shifted[h]} ELSE {h}
BY DEF SwitchesOf, map_key

\* No shifted key is the plain one of another, and each has its own.
LEMMA ShiftedOK ==
  /\ \A h \in DOMAIN Shifted : Shifted[h] # "Shift" /\ Shifted[h] \notin DOMAIN Shifted
  /\ \A g, h \in DOMAIN Shifted : Shifted[g] = Shifted[h] => g = h
  /\ "Shift" \notin DOMAIN Shifted /\ "Space" \notin DOMAIN Shifted
BY DEF Shifted

LEMMA Tails ==
  ASSUME NEW x, NEW y
  PROVE  /\ Tail(<<x>>) = <<>> /\ Tail(<<x, y>>) = <<y>>
         /\ <<x>> # <<>> /\ <<x, y>> # <<>> /\ <<x>>[1] = x /\ <<x, y>>[1] = x
         /\ <<x>> \o <<>> = <<x>> /\ <<x>> \o <<y>> = <<x, y>>
         /\ <<>> \o <<x>> = <<x>> /\ <<>> \o <<>> = <<>>
<1>0. <<>> \o <<x>> = <<x>> /\ <<>> \o <<>> = <<>>
  OBVIOUS
<1>1. Tail(<<x>>) = <<>>
  OBVIOUS
<1>2. Tail(<<x, y>>) = <<y>>
  OBVIOUS
<1>3. <<x>> # <<>> /\ <<x, y>> # <<>>
  OBVIOUS
<1>4. <<x>>[1] = x /\ <<x, y>>[1] = x
  OBVIOUS
<1>5. <<x>> \o <<>> = <<x>>
  OBVIOUS
<1>6. <<x>> \o <<y>> = <<x, y>>
  <2> DEFINE a == <<x>>
             b == <<y>>
             c == <<x, y>>
             S == {x, y}
  <2>1. a \in Seq(S) /\ b \in Seq(S) /\ c \in Seq(S)
    OBVIOUS
  <2>2. Len(a) = 1 /\ Len(b) = 1 /\ Len(c) = 2 /\ a[1] = x /\ b[1] = y /\ c[1] = x /\ c[2] = y
    OBVIOUS
  <2> HIDE DEF a, b, c, S
  <2>3. a \o b \in Seq(S) /\ Len(a \o b) = 2 /\ (a \o b)[1] = x /\ (a \o b)[2] = y
    BY <2>1, <2>2, ConcatProperties
  <2>4. \A i \in 1..Len(c) : (a \o b)[i] = c[i]
    BY <2>2, <2>3
  <2>5. a \o b = c
    BY <2>1, <2>2, <2>3, <2>4, SeqEqual
  <2> QED BY <2>5 DEF a, b, c
<1> QED BY <1>0, <1>1, <1>2, <1>3, <1>4, <1>5, <1>6

OpsOf(t) == {t[i] : i \in DOMAIN t}

LEMMA OpsAre ==
  ASSUME NEW x, NEW y
  PROVE  OpsOf(<<>>) = {} /\ OpsOf(<<x>>) = {x} /\ OpsOf(<<x, y>>) = {x, y}
<1>1. OpsOf(<<>>) = {}
  BY DEF OpsOf
<1>2. OpsOf(<<x>>) = {x}
  BY DEF OpsOf
<1>3. OpsOf(<<x, y>>) = {x, y}
  BY DEF OpsOf
<1> QED BY <1>1, <1>2, <1>3

LEMMA SplitOps ==
  ASSUME NEW x, NEW y
  PROVE  /\ OpsOf(<<x, y>>) = {x} \cup OpsOf(<<y>>)
         /\ OpsOf(<<y>>) = {y} \cup OpsOf(<<>>)
<1>1. OpsOf(<<x, y>>) = {x, y} /\ OpsOf(<<y>>) = {y} /\ OpsOf(<<>>) = {}
  BY OpsAre, Zenon
<1> QED BY <1>1

\* The switches of the host's keys are keys of the machine.
LEMMA KeysOK ==
  /\ \A h \in HostKey \ ShiftKeys : h \in Key
  /\ \A h \in ShiftKeys : Shifted[h] \in Key /\ "Shift" \in Key /\ Shifted[h] # "Shift"
BY SwitchAssumption, SwitchesAre, ShiftedOK DEF ShiftKeys

\* What is taken from a message's operations, and what is left.
LEMMA TakeOK ==
  ASSUME NEW t, TodoForm(t), t # <<>>
  PROVE  /\ OpsOf(t) = {t[1]} \cup OpsOf(Tail(t)) /\ TodoForm(Tail(t))
         /\ t[1].op = "key" =>
              /\ t[1].key \in Key /\ t[1].pressed \in BOOLEAN
              /\ \A o \in OpsOf(Tail(t)) : o.op = "key" /\ o.key # t[1].key
         /\ t[1].op = "tap" => t[1].key \in HostKey /\ \A o \in OpsOf(Tail(t)) : o.op = "key"
         /\ t[1].op = "joystick" => t = ClearBoth /\ Tail(t) = <<ClearWord("taps")>>
         /\ t[1].op = "taps" => t = <<ClearWord("taps")>> /\ Tail(t) = <<>>
<1> DEFINE P(u) ==
         /\ OpsOf(u) = {u[1]} \cup OpsOf(Tail(u)) /\ TodoForm(Tail(u))
         /\ u[1].op = "key" =>
              /\ u[1].key \in Key /\ u[1].pressed \in BOOLEAN
              /\ \A o \in OpsOf(Tail(u)) : o.op = "key" /\ o.key # u[1].key
         /\ u[1].op = "tap" => u[1].key \in HostKey /\ \A o \in OpsOf(Tail(u)) : o.op = "key"
         /\ u[1].op = "joystick" => u = ClearBoth /\ Tail(u) = <<ClearWord("taps")>>
         /\ u[1].op = "taps" => u = <<ClearWord("taps")>> /\ Tail(u) = <<>>
<1>1. ASSUME NEW h \in HostKey \ ShiftKeys, NEW p \in BOOLEAN PROVE P(One(h, p))
  BY Tails, OpsAre, KeysOK DEF One, Op, TodoForm
<1>2. ASSUME NEW h \in ShiftKeys, NEW p \in BOOLEAN PROVE P(Second(h, p))
  BY Tails, OpsAre, KeysOK DEF Second, Op, TodoForm
<1>3. ASSUME NEW h \in ShiftKeys, NEW p \in BOOLEAN PROVE P(Both(h, p))
  <2> DEFINE x == Op("Shift", p, FALSE)
             y == Op(Shifted[h], p, TRUE)
  <2>1. x.op = "key" /\ x.key = "Shift" /\ x.pressed = p
    BY DEF Op, Latch, ClearWord
  <2>2. y.op = "key" /\ y.key = Shifted[h]
    BY DEF Op, Latch, ClearWord
  <2>3. TodoForm(<<y>>)
    BY DEF TodoForm, Second
  <2>4. Both(h, p) = <<x, y>>
    BY DEF Both
  <2> HIDE DEF x, y
  <2>5. Tail(<<x, y>>) = <<y>> /\ <<x, y>>[1] = x /\ OpsOf(<<x, y>>) = {x} \cup OpsOf(<<y>>) /\ OpsOf(<<y>>) = {y}
    BY Tails, OpsAre, SplitOps, Zenon
  <2>6. P(<<x, y>>)
    BY <2>1, <2>2, <2>3, <2>5, KeysOK
  <2> QED BY <2>4, <2>6
<1>4. ASSUME NEW h \in HostKey PROVE P(<<Latch(h)>>)
  BY Tails, OpsAre DEF Latch, TodoForm
<1>5. ASSUME NEW h \in HostKey \ ShiftKeys PROVE P(<<Latch(h), Op(h, TRUE, FALSE)>>)
  <2> DEFINE x == Latch(h)
             y == Op(h, TRUE, FALSE)
  <2>1. x.op = "tap" /\ x.key = h
    BY DEF Op, Latch, ClearWord
  <2>2. y.op = "key"
    BY DEF Op, Latch, ClearWord
  <2>3. TodoForm(<<y>>)
    BY DEF TodoForm, One
  <2>4. <<Latch(h), Op(h, TRUE, FALSE)>> = <<x, y>>
    BY DEF Op
  <2> HIDE DEF x, y
  <2>5. Tail(<<x, y>>) = <<y>> /\ <<x, y>>[1] = x /\ OpsOf(<<x, y>>) = {x} \cup OpsOf(<<y>>) /\ OpsOf(<<y>>) = {y}
    BY Tails, OpsAre, SplitOps, Zenon
  <2>6. P(<<x, y>>)
    BY <2>1, <2>2, <2>3, <2>5, KeysOK
  <2> QED BY <2>4, <2>6
<1>6. P(ClearBoth) /\ P(<<ClearWord("taps")>>)
  <2> DEFINE x == ClearWord("joystick")
             y == ClearWord("taps")
  <2>1. x.op = "joystick" /\ y.op = "taps" /\ ClearBoth = <<x, y>>
    BY DEF ClearWord, ClearBoth
  <2>2. TodoForm(<<y>>) /\ TodoForm(<<>>)
    BY DEF TodoForm
  <2> HIDE DEF x, y
  <2>3. /\ Tail(<<x, y>>) = <<y>> /\ <<x, y>>[1] = x /\ OpsOf(<<x, y>>) = {x} \cup OpsOf(<<y>>)
        /\ Tail(<<y>>) = <<>> /\ <<y>>[1] = y /\ OpsOf(<<y>>) = {y} \cup OpsOf(<<>>)
    BY Tails, OpsAre, SplitOps, Zenon
  <2>4. P(<<x, y>>)
    BY <2>1, <2>2, <2>3 DEF y
  <2>5. P(<<y>>)
    BY <2>1, <2>2, <2>3 DEF y
  <2> QED BY <2>1, <2>4, <2>5 DEF y
<1> HIDE DEF P
<1>7. P(t)
  BY <1>1, <1>2, <1>3, <1>4, <1>5, <1>6 DEF TodoForm
<1> QED BY <1>7 DEF P

Pressing(k)  == \E o \in OpsOf(todo) : o.op = "key" /\ o.key = k /\ o.pressed
Releasing(k) == \E o \in OpsOf(todo) : o.op = "key" /\ o.key = k /\ ~o.pressed

\* The level of switch k once the queue is applied and the message done.
Final(k) == Pressing(k) \/ (LevelOf(k) /\ ~Releasing(k))

HostTypeOK ==
  /\ TypeOK /\ TodoOK
  /\ arrow_mode \in Mode /\ paused \in BOOLEAN
  /\ worker \in [port : Mode, left : SUBSET {"joystick", "taps"}, bits : SUBSET HostKey, busy : BOOLEAN]
  /\ worker.left # {} => worker.busy /\ worker.port # "cursor"
  /\ \A w \in {joystick, taps, held, sent, spent, gone, due} : w \subseteq HostKey
  /\ mixed \subseteq DOMAIN Shifted
  /\ messages \in 0..MaxMessages

HeldInv ==
  /\ \A k \in Key : Final(k) => \E h \in sent : k \in SwitchesOf(h)
  /\ sent \subseteq held \cup Arrows
  /\ joystick \subseteq held
  /\ arrow_mode = "cursor" => joystick = {} \/ todo = ClearBoth

Seen == IF worker.busy /\ worker.port # "cursor" /\ "taps" \notin worker.left
        THEN worker.bits ELSE {}

TapInv ==
  /\ taps \cap spent = {} /\ InFlight \cap spent = {} /\ InFlight \subseteq joystick
  /\ gone \subseteq spent \ joystick /\ worker.bits \cap gone = {}
  /\ due \subseteq taps \cup InFlight \cup Seen
  /\ todo \in {ClearBoth, <<ClearWord("taps")>>} => due = {}

\* Every change of switch d is queued right behind the same change of the shift.
Pairs(q, d) ==
  \A n \in 1..Len(q) : q[n].key = d =>
    n > 1 /\ q[n - 1].key = "Shift" /\ q[n - 1].pressed = q[n].pressed

\* Wherever the queue is cut, but between the two changes of a pair, d is down with the shift.
Cuts(q, m, d) ==
  \A n \in 0..(Len(q) - 1) :
    q[n + 1].key # d /\ DownAfter(q, m, n, d) => DownAfter(q, m, n, "Shift")

\* The message is between the two changes of key h.
Between(h) == \E p \in BOOLEAN : todo = Second(h, p)

\* It changes the plain key alone.
Lone(d) == \E p \in BOOLEAN : todo = One(d, p) \/ todo = LatchOne(d, p)

Unparted(h, d) ==
  /\ d \notin held \cup sent /\ ~Lone(d)
  /\ Pairs(queue, d) /\ Cuts(queue, matrix, d)
  /\ ~Between(h) /\ LevelOf(d) => LevelOf("Shift")
  /\ Final(d) => Final("Shift")
  /\ \A p \in BOOLEAN : todo = Second(h, p) =>
       IF paused THEN queue = <<>>
       ELSE queue # <<>> /\ queue[Len(queue)].key = "Shift" /\ queue[Len(queue)].pressed = p
  /\ d \in entry.keys => "Shift" \in entry.keys

ShiftInv ==
  /\ UiHasLock => ~worker.busy
  /\ \A h \in ShiftKeys \ mixed : Unparted(h, Shifted[h])

HostInv == HostTypeOK /\ HeldInv /\ TapInv /\ ShiftInv

LEMMA FirstOp ==
  ASSUME NEW t, TodoForm(t), t # <<>>
  PROVE  t[1].op \in {"key", "tap", "joystick", "taps"}
<1>1. ASSUME NEW h, NEW p, t = One(h, p) \/ t = Second(h, p) \/ t = Both(h, p) PROVE t[1].op = "key"
  <2>1. t[1] \in {Op(h, p, FALSE), Op(Shifted[h], p, TRUE), Op("Shift", p, FALSE)}
    BY <1>1, Tails DEF One, Second, Both
  <2> QED BY <2>1 DEF Op
<1>2. ASSUME NEW h, t = <<Latch(h)>> \/ t = <<Latch(h), Op(h, TRUE, FALSE)>> PROVE t[1].op = "tap"
  <2>1. t[1] = Latch(h)
    BY <1>2, Tails
  <2> QED BY <2>1 DEF Latch
<1>3. ASSUME t = ClearBoth \/ t = <<ClearWord("taps")>> PROVE t[1].op \in {"joystick", "taps"}
  <2>1. t[1] \in {ClearWord("joystick"), ClearWord("taps")}
    BY <1>3, Tails DEF ClearBoth
  <2> QED BY <2>1 DEF ClearWord
<1> QED BY <1>1, <1>2, <1>3 DEF TodoForm

-----------------------------------------------------------------------------
(* What a key's message has to do. *)

\* send_keys changes the switches of its key and no others.
LEMMA SendOps ==
  ASSUME NEW h \in HostKey, NEW p \in BOOLEAN
  PROVE  /\ TodoForm(SendKeys(h, p)) /\ ~SendKeys(h, p)[1].locked
         /\ \A o \in OpsOf(SendKeys(h, p)) : o.op = "key" /\ o.pressed = p /\ o.key \in SwitchesOf(h)
         /\ \A k \in SwitchesOf(h) : \E o \in OpsOf(SendKeys(h, p)) : o.key = k
<1>1. CASE h \in ShiftKeys
  <2> DEFINE x == Op("Shift", p, FALSE)
             y == Op(Shifted[h], p, TRUE)
             t == <<x, y>>
  <2>1. SendKeys(h, p) = t /\ TodoForm(SendKeys(h, p))
    BY <1>1, SendKeysIs, Zenon DEF TodoForm, Both
  <2>2. x.op = "key" /\ x.key = "Shift" /\ x.pressed = p /\ ~x.locked
    BY DEF Op
  <2>3. y.op = "key" /\ y.key = Shifted[h] /\ y.pressed = p
    BY DEF Op
  <2>4. SwitchesOf(h) = {"Shift", Shifted[h]}
    BY <1>1, SwitchesAre DEF ShiftKeys
  <2>5. OpsOf(t) = {x, y} /\ t[1] = x
    BY OpsAre, Tails, Zenon
  <2> HIDE DEF x, y, t
  <2> QED BY <2>1, <2>2, <2>3, <2>4, <2>5
<1>2. CASE h \notin ShiftKeys
  <2> DEFINE x == Op(h, p, FALSE)
             t == <<x>>
  <2>1. SendKeys(h, p) = t /\ TodoForm(SendKeys(h, p))
    BY <1>2, SendKeysIs, Zenon DEF TodoForm, One
  <2>2. x.op = "key" /\ x.key = h /\ x.pressed = p /\ ~x.locked
    BY DEF Op
  <2>3. SwitchesOf(h) = {h}
    BY <1>2, SwitchesAre DEF ShiftKeys
  <2>4. OpsOf(t) = {x} /\ t[1] = x
    BY OpsAre, Tails, Zenon
  <2> HIDE DEF x, t
  <2> QED BY <2>1, <2>2, <2>3, <2>4
<1> QED BY <1>1, <1>2

LEMMA InFlightIs ==
  \A g : g \in InFlight <=> \E o \in OpsOf(todo) : o.op = "tap" /\ o.key = g
BY DEF InFlight, OpsOf

LEMMA NoOps ==
  todo = <<>> => /\ OpsOf(todo) = {} /\ InFlight = {}
                 /\ \A k : Final(k) <=> LevelOf(k)
<1>1. todo = <<>> => OpsOf(todo) = {}
  BY OpsAre, Zenon
<1> QED BY <1>1, InFlightIs DEF Final, Pressing, Releasing

\* A press latches its own key, if any, and closes its own switches, if any.
LEMMA DownOps ==
  ASSUME HostTypeOK, NEW h \in HostKey, KeyDown(h)
  PROVE  /\ TodoOK' /\ ~UiHasLock'
         /\ \A o \in OpsOf(todo') :
              \/ /\ o.op = "key" /\ o.pressed = TRUE /\ o.key \in SwitchesOf(h) /\ h \in sent'
                 /\ \A k \in SwitchesOf(h) : \E b \in OpsOf(todo') : b.op = "key" /\ b.key = k /\ b.pressed = TRUE
              \/ o.op = "tap" /\ o.key = h /\ h \in joystick' \ spent'
         /\ \A g \in due' \ due : \E o \in OpsOf(todo') : o.op = "tap" /\ o.key = g
<1> DEFINE P(t) ==
      /\ TodoForm(t) /\ (t # <<>> => ~t[1].locked)
      /\ \A o \in OpsOf(t) :
           \/ /\ o.op = "key" /\ o.pressed = TRUE /\ o.key \in SwitchesOf(h) /\ h \in sent'
              /\ \A k \in SwitchesOf(h) : \E b \in OpsOf(t) : b.op = "key" /\ b.key = k /\ b.pressed = TRUE
           \/ o.op = "tap" /\ o.key = h /\ h \in joystick' \ spent'
      /\ \A g \in due' \ due : \E o \in OpsOf(t) : o.op = "tap" /\ o.key = g
<1>1. CASE arrow_mode # "cursor" /\ h \in JoyKeys
  <2>1. /\ h \in joystick' /\ h \notin spent' /\ due' = (IF paused THEN due ELSE due \cup {h})
        /\ todo' = LatchOf(h) \o (IF h = "Space" THEN SendKeys(h, TRUE) ELSE <<>>)
    BY <1>1 DEF KeyDown
  <2>2. CASE h = "Space"
    <3>1. h \in sent' /\ h \notin ShiftKeys
      BY <2>2, ShiftedOK DEF KeyDown, Arrows, ShiftKeys
    <3> DEFINE y == Op(h, TRUE, FALSE)
               x == Latch(h)
    <3>2. SendKeys(h, TRUE) = <<y>> /\ SwitchesOf(h) = {h}
      <4>1. h \notin DOMAIN Shifted
        BY <3>1 DEF ShiftKeys
      <4> QED BY <3>1, <4>1, SendKeysIs, SwitchesAre, Zenon DEF One
    <3>3. y.op = "key" /\ y.key = h /\ y.pressed = TRUE /\ ~y.locked
      BY DEF Op
    <3>4. x.op = "tap" /\ x.key = h /\ ~x.locked
      BY DEF Latch
    <3>5. TodoForm(<<y>>) /\ TodoForm(<<x, y>>)
      BY <3>1 DEF TodoForm, One
    <3>6. todo' = IF paused THEN <<y>> ELSE <<x, y>>
      <4>1. todo' = (IF paused THEN <<>> ELSE <<x>>) \o <<y>>
        BY <2>1, <2>2, <3>2, Zenon DEF LatchOf
      <4> HIDE DEF x, y
      <4>2. <<>> \o <<y>> = <<y>> /\ <<x>> \o <<y>> = <<x, y>>
        BY Tails, Zenon
      <4> QED BY <4>1, <4>2, Zenon
    <3> HIDE DEF x, y
    <3>7. OpsOf(<<y>>) = {y} /\ OpsOf(<<x, y>>) = {x, y} /\ <<y>>[1] = y /\ <<x, y>>[1] = x
      BY OpsAre, Tails, Zenon
    <3>8. CASE paused
      <4>1. P(<<y>>)
        BY <2>1, <3>1, <3>2, <3>3, <3>5, <3>7, <3>8
      <4> QED BY <3>6, <3>8, <4>1 DEF TodoOK, UiHasLock
    <3>9. CASE ~paused
      <4>1. P(<<x, y>>)
        BY <2>1, <3>1, <3>2, <3>3, <3>4, <3>5, <3>7
      <4> QED BY <3>6, <3>9, <4>1 DEF TodoOK, UiHasLock
    <3> QED BY <3>8, <3>9
  <2>3. CASE h # "Space"
    <3> DEFINE x == Latch(h)
    <3>1. x.op = "tap" /\ x.key = h /\ ~x.locked
      BY DEF Latch
    <3>2. TodoForm(<<>>) /\ TodoForm(<<x>>)
      BY DEF TodoForm
    <3>3. todo' = IF paused THEN <<>> ELSE <<x>>
      <4>1. todo' = (IF paused THEN <<>> ELSE <<x>>) \o <<>>
        BY <2>1, <2>3, Zenon DEF LatchOf
      <4> HIDE DEF x
      <4>2. <<>> \o <<>> = <<>> /\ <<x>> \o <<>> = <<x>>
        BY Tails, Zenon
      <4> QED BY <4>1, <4>2, Zenon
    <3> HIDE DEF x
    <3>4. OpsOf(<<x>>) = {x} /\ OpsOf(<<>>) = {} /\ <<x>>[1] = x
      BY OpsAre, Tails, Zenon
    <3>5. CASE paused
      <4>1. P(<<>>)
        BY <2>1, <3>2, <3>4, <3>5
      <4> QED BY <3>3, <3>5, <4>1 DEF TodoOK, UiHasLock
    <3>6. CASE ~paused
      <4>1. P(<<x>>)
        BY <2>1, <3>1, <3>2, <3>4
      <4> QED BY <3>3, <3>6, <4>1 DEF TodoOK, UiHasLock
    <3> QED BY <3>5, <3>6
  <2> QED BY <2>2, <2>3
<1>2. CASE ~(arrow_mode # "cursor" /\ h \in JoyKeys)
  <2>1. todo' = SendKeys(h, TRUE) /\ due' = due /\ h \in sent'
    BY <1>2 DEF KeyDown, JoyKeys
  <2>2. P(SendKeys(h, TRUE))
    BY <2>1, SendOps
  <2> QED BY <2>1, <2>2 DEF TodoOK, UiHasLock
<1> QED BY <1>1, <1>2

\* A release opens its own switches, and is no longer among the keys sent, or does nothing.
LEMMA UpOps ==
  ASSUME HostTypeOK, NEW h \in HostKey, KeyUp(h)
  PROVE  /\ TodoOK' /\ ~UiHasLock'
         /\ \/ todo' = <<>> /\ sent' = sent /\ h \in Arrows
            \/ /\ todo' = SendKeys(h, FALSE) /\ sent' = sent \ {h}
<1>1. CASE KeyUpSends(h)
  BY <1>1, SendOps DEF KeyUp, KeyUpSends, TodoOK, UiHasLock
<1>2. CASE ~KeyUpSends(h)
  BY <1>2 DEF KeyUp, KeyUpSends, TodoOK, UiHasLock, TodoForm
<1> QED BY <1>1, <1>2

-----------------------------------------------------------------------------
(* Types. *)

LEMMA HostInitType == HostInit => HostTypeOK
<1> SUFFICES ASSUME HostInit PROVE HostTypeOK
  OBVIOUS
<1>1. TypeOK
  BY InitType DEF HostInit
<1>2. TodoOK
  BY DEF HostInit, TodoOK, TodoForm
<1>3. /\ worker \in [port : Mode, left : SUBSET {"joystick", "taps"}, bits : SUBSET HostKey, busy : BOOLEAN]
      /\ worker.left = {}
  BY DEF HostInit, Mode
<1>4. arrow_mode \in Mode /\ paused \in BOOLEAN /\ messages \in 0..MaxMessages
  <2>1. messages = 0 /\ 0 \in 0..MaxMessages
    BY MessagesAssumption DEF HostInit
  <2> QED BY <2>1, Zenon DEF HostInit, Mode
<1>5. /\ joystick \subseteq HostKey /\ taps \subseteq HostKey /\ held \subseteq HostKey
      /\ sent \subseteq HostKey /\ spent \subseteq HostKey /\ gone \subseteq HostKey /\ due \subseteq HostKey
      /\ mixed \subseteq DOMAIN Shifted
  BY DEF HostInit
<1> QED BY <1>1, <1>2, <1>3, <1>4, <1>5 DEF HostTypeOK

\* The machine's part of a step is one of the machine's own, or a paused change.
LEMMA SendKeyType ==
  ASSUME HostTypeOK, SendKey PROVE TypeOK' /\ TodoOK'
<1> DEFINE c == todo[1]
<1>1. c.key \in Key /\ c.pressed \in BOOLEAN /\ TodoOK'
  BY TakeOK DEF HostTypeOK, TodoOK, SendKey, TakeTodo
<1> HIDE DEF c
<1>2. CASE paused
  <2>1. UNCHANGED <<nmi_line, nmi_pending, entry, player>> /\ queue' = <<>> /\ matrix' \in SUBSET Key
    BY <1>1, <1>2, MatrixType DEF SendKey, c, nmi
  <2>2. <<>> \in Seq(Change) /\ Len(<<>>) = 0 /\ 0 <= MaxQueuedKeys
    BY QueueAssumption
  <2> QED BY <1>1, <2>1, <2>2 DEF TypeOK, HostTypeOK
<1>3. CASE ~paused
  <2>1. QueueKey(c.key, c.pressed)
    BY <1>3 DEF SendKey, c
  <2> QED BY <1>1, <2>1, StepType DEF HostTypeOK, Next
<1> QED BY <1>2, <1>3

LEMMA HostTypeStep == HostTypeOK /\ [HostNext]_hostVars => HostTypeOK'
<1> SUFFICES ASSUME HostTypeOK, [HostNext]_hostVars PROVE HostTypeOK'
  OBVIOUS
<1> USE DEF HostTypeOK
<1>0. TodoForm(<<>>) /\ TodoForm(<<ClearWord("joystick"), ClearWord("taps")>>)
  BY DEF TodoForm, ClearBoth
<1>1. ASSUME NEW h \in HostKey, KeyDown(h) PROVE HostTypeOK'
  <2>1. TodoOK'
    BY <1>1, DownOps
  <2>2. TypeOK'
    BY <1>1, StepType DEF KeyDown, machine, nmi, vars
  <2>3. messages' \in 0..MaxMessages
    BY <1>1, MessagesAssumption DEF KeyDown, NextMessage
  <2>4. joystick' \subseteq HostKey /\ spent' \subseteq HostKey /\ gone' \subseteq HostKey /\ due' \subseteq HostKey
    <3>1. CASE arrow_mode # "cursor" /\ h \in JoyKeys
      BY <1>1, <3>1 DEF KeyDown
    <3>2. CASE ~(arrow_mode # "cursor" /\ h \in JoyKeys)
      BY <1>1, <3>2 DEF KeyDown
    <3> QED BY <3>1, <3>2
  <2>5. held' \subseteq HostKey /\ sent' \subseteq HostKey /\ taps' \subseteq HostKey
    BY <1>1 DEF KeyDown
  <2>6. mixed' \subseteq DOMAIN Shifted
    BY <1>1 DEF KeyDown, Alone
  <2>7. UNCHANGED <<arrow_mode, paused, worker>>
    BY <1>1 DEF KeyDown, modes
  <2> QED BY <2>1, <2>2, <2>3, <2>4, <2>5, <2>6, <2>7
<1>2. ASSUME NEW h \in HostKey, KeyUp(h) PROVE HostTypeOK'
  <2>1. TodoOK'
    BY <1>2, UpOps
  <2>2. TypeOK'
    BY <1>2, StepType DEF KeyUp, machine, nmi, vars
  <2>3. messages' \in 0..MaxMessages
    BY <1>2, MessagesAssumption DEF KeyUp, NextMessage
  <2> QED BY <1>2, <2>1, <2>2, <2>3 DEF KeyUp, modes, Shares
<1>3. ASSUME NEW m \in Mode, SetArrowMode(m) PROVE HostTypeOK'
  <2>1. TodoOK'
    BY <1>0, <1>3 DEF SetArrowMode, TodoOK
  <2>2. TypeOK'
    BY <1>3, StepType DEF SetArrowMode, machine, nmi, vars
  <2>3. messages' \in 0..MaxMessages
    BY <1>3, MessagesAssumption DEF SetArrowMode, NextMessage
  <2> QED BY <1>3, <2>1, <2>2, <2>3 DEF SetArrowMode, words
<1>4. CASE TogglePause
  <2>1. TypeOK'
    BY <1>4, StepType DEF TogglePause, machine, nmi, vars
  <2>2. messages' \in 0..MaxMessages
    BY <1>4, MessagesAssumption DEF TogglePause, NextMessage
  <2> QED BY <1>4, <2>1, <2>2 DEF TogglePause, words, history, TodoOK
<1>5. CASE KillFocus
  <2>1. TypeOK'
    BY <1>5, StepType DEF KillFocus, Next
  <2>2. messages' \in 0..MaxMessages
    BY <1>5, MessagesAssumption DEF KillFocus, NextMessage
  <2> QED BY <1>5, <2>1, <2>2 DEF KillFocus, modes, TodoOK
<1>6. CASE LoadMedia
  <2>1. TypeOK'
    BY <1>6, StepType DEF LoadMedia, Next
  <2>2. messages' \in 0..MaxMessages
    BY <1>6, MessagesAssumption DEF LoadMedia, NextMessage
  <2> QED BY <1>6, <2>1, <2>2 DEF LoadMedia, modes, words, history, TodoOK
<1>7. CASE ResetMachine
  <2>1. TypeOK'
    BY <1>7, StepType DEF ResetMachine, Next
  <2>2. messages' \in 0..MaxMessages
    BY <1>7, MessagesAssumption DEF ResetMachine, NextMessage
  <2> QED BY <1>7, <2>1, <2>2 DEF ResetMachine, modes, words, history, TodoOK
<1>8. CASE SendKey
  <2>1. TypeOK' /\ TodoOK'
    BY <1>8, SendKeyType
  <2> QED BY <1>8, <2>1 DEF SendKey, modes, words
<1>9. ASSUME UNCHANGED machine PROVE TypeOK'
  BY <1>9, StepType DEF machine, nmi, vars
<1>10. CASE LatchTap
  <2>1. TypeOK'
    BY <1>9, <1>10 DEF LatchTap
  <2>2. TodoOK' /\ todo[1].key \in HostKey
    BY <1>10, TakeOK DEF LatchTap, TakeTodo, TodoOK
  <2> QED BY <1>10, <2>1, <2>2 DEF LatchTap, modes, history
<1>11. CASE ClearJoystick
  <2>1. TypeOK'
    BY <1>9, <1>11 DEF ClearJoystick
  <2>2. TodoOK'
    BY <1>11, TakeOK DEF ClearJoystick, TakeTodo, TodoOK
  <2> QED BY <1>11, <2>1, <2>2 DEF ClearJoystick, modes, history
<1>12. CASE ClearTaps
  <2>1. TypeOK'
    BY <1>9, <1>12 DEF ClearTaps
  <2>2. TodoOK'
    BY <1>12, TakeOK DEF ClearTaps, TakeTodo, TodoOK
  <2> QED BY <1>12, <2>1, <2>2 DEF ClearTaps, modes, history
<1>13. CASE FrameStarts
  <2>1. TypeOK'
    BY <1>9, <1>13 DEF FrameStarts
  <2> QED BY <1>13, <2>1 DEF FrameStarts, modes, words, TodoOK
<1>14. CASE ReadsJoystick
  <2>1. TypeOK'
    BY <1>9, <1>14 DEF ReadsJoystick
  <2> QED BY <1>14, <2>1 DEF ReadsJoystick, modes, words, history, TodoOK
<1>15. CASE TakesTaps
  <2>1. TypeOK'
    BY <1>9, <1>15 DEF TakesTaps
  <2>2. /\ worker' \in [port : Mode, left : SUBSET {"joystick", "taps"}, bits : SUBSET HostKey, busy : BOOLEAN]
        /\ worker'.left \subseteq worker.left /\ worker'.busy = worker.busy /\ worker'.port = worker.port
    BY <1>15 DEF TakesTaps
  <2>3. taps' \subseteq HostKey /\ spent' \subseteq HostKey
    BY <1>15 DEF TakesTaps, TapsLeft
  <2>4. UNCHANGED <<todo, arrow_mode, paused, joystick, held, sent, gone, due, mixed, messages>>
    BY <1>15 DEF TakesTaps, modes
  <2> QED BY <2>1, <2>2, <2>3, <2>4 DEF TodoOK
<1>16. CASE FrameRuns
  <2>1. TypeOK'
    BY <1>16, ExecType DEF FrameRuns
  <2> QED BY <1>16, <2>1 DEF FrameRuns, modes, words, TodoOK
<1>17. CASE UNCHANGED hostVars
  <2>1. TypeOK'
    BY <1>9, <1>17 DEF hostVars
  <2> QED BY <1>17, <2>1 DEF hostVars, modes, words, history, TodoOK
<1> QED BY <1>1, <1>2, <1>3, <1>4, <1>5, <1>6, <1>7, <1>8, <1>10, <1>11, <1>12, <1>13,
           <1>14, <1>15, <1>16, <1>17 DEF HostNext

-----------------------------------------------------------------------------
(* Nothing stuck, no tap lost or doubled. *)

\* Sending a key's change leaves the final levels what they were.
LEMMA SendKeyFinal ==
  ASSUME HostTypeOK, SendKey, NEW k \in Key
  PROVE  Final(k)' <=> Final(k)
<1> DEFINE c == todo[1]
<1>1. /\ c.op = "key" /\ c.key \in Key /\ c.pressed \in BOOLEAN
      /\ OpsOf(todo) = {c} \cup OpsOf(todo')
      /\ \A o \in OpsOf(todo') : o.op = "key" /\ o.key # c.key
  BY TakeOK DEF HostTypeOK, TodoOK, SendKey, TakeTodo
<1>2. LevelOf(k)' <=> IF c.key = k THEN c.pressed ELSE LevelOf(k)
  <2>1. CASE paused
    <3> DEFINE none == <<>>
               v == MatrixAfter(queue, matrix, Len(queue))
               w == IF c.pressed THEN v \cup {c.key} ELSE v \ {c.key}
    <3>1. queue' = none /\ matrix' = w /\ Len(none) = 0
      BY <2>1 DEF SendKey
    <3>2. k \in v <=> LevelOf(k)
      BY DEF MatrixAfter, LevelOf
    <3>3. k \in w <=> IF c.key = k THEN c.pressed ELSE LevelOf(k)
      <4> HIDE DEF c, v
      <4> QED BY <1>1, <3>2
    <3> HIDE DEF w, none
    <3>4. LevelOf(k)' <=> DownAfter(none, w, 0, k)
      BY <3>1 DEF LevelOf
    <3> QED BY <3>3, <3>4 DEF DownAfter
  <2>2. CASE ~paused
    <3> DEFINE d == [key |-> c.key, pressed |-> c.pressed]
    <3>1. Push(d)
      BY <2>2 DEF SendKey, QueueKey
    <3>2. d \in Change /\ d.key = c.key /\ d.pressed = c.pressed
      BY <1>1 DEF Change
    <3> HIDE DEF d, c
    <3>3. LevelOf(k)' <=> IF d.key = k THEN d.pressed ELSE LevelOf(k)
      BY <3>1, <3>2, PushLevel DEF HostTypeOK
    <3> QED BY <3>2, <3>3
  <2> QED BY <2>1, <2>2
<1> HIDE DEF c
<1>3. Pressing(k)' <=> Pressing(k) /\ c.key # k
  <2>1. ASSUME Pressing(k), c.key # k PROVE Pressing(k)'
    BY <1>1, <2>1 DEF Pressing
  <2>2. ASSUME Pressing(k)' PROVE Pressing(k) /\ c.key # k
    BY <1>1, <2>2 DEF Pressing
  <2> QED BY <2>1, <2>2
<1>4. Releasing(k)' <=> Releasing(k) /\ c.key # k
  <2>1. ASSUME Releasing(k), c.key # k PROVE Releasing(k)'
    BY <1>1, <2>1 DEF Releasing
  <2>2. ASSUME Releasing(k)' PROVE Releasing(k) /\ c.key # k
    BY <1>1, <2>2 DEF Releasing
  <2> QED BY <2>1, <2>2
<1>5. c.key = k => (Pressing(k) <=> c.pressed) /\ (Releasing(k) <=> ~c.pressed)
  BY <1>1 DEF Pressing, Releasing
<1> QED BY <1>2, <1>3, <1>4, <1>5 DEF Final

\* Every operation of a message but a change leaves the final levels alone.
LEMMA TakeFinal ==
  ASSUME HostTypeOK, todo # <<>>, todo[1].op # "key", todo' = Tail(todo),
         UNCHANGED <<queue, matrix>>, NEW k
  PROVE  Final(k)' <=> Final(k)
<1>1. OpsOf(todo) = {todo[1]} \cup OpsOf(todo')
  BY TakeOK DEF HostTypeOK, TodoOK
<1>2. Pressing(k)' <=> Pressing(k)
  BY <1>1 DEF Pressing
<1>3. Releasing(k)' <=> Releasing(k)
  BY <1>1 DEF Releasing
<1>4. LevelOf(k)' <=> LevelOf(k)
  BY DEF LevelOf
<1> QED BY <1>2, <1>3, <1>4 DEF Final

LEMMA SameFinal ==
  ASSUME UNCHANGED <<queue, matrix, todo>>, NEW k PROVE Final(k)' <=> Final(k)
<1>1. Pressing(k)' <=> Pressing(k)
  BY DEF Pressing
<1>2. Releasing(k)' <=> Releasing(k)
  BY DEF Releasing
<1>3. LevelOf(k)' <=> LevelOf(k)
  BY DEF LevelOf
<1> QED BY <1>1, <1>2, <1>3 DEF Final

\* With nothing queued and an open matrix nothing is down.
LEMMA OpenLevel ==
  ASSUME queue' = <<>>, matrix' = {}, NEW k PROVE ~LevelOf(k)'
<1>1. Len(<<>>) = 0
  OBVIOUS
<1>2. ~DownAfter(<<>>, {}, 0, k)
  BY DEF DownAfter
<1> QED BY <1>1, <1>2 DEF LevelOf

\* A message without a change of a switch, while nothing else is to do.
LEMMA NoKeyFinal ==
  ASSUME todo = <<>>, UNCHANGED <<queue, matrix>>,
         \A o \in OpsOf(todo') : o.op # "key", NEW k
  PROVE  Final(k)' <=> Final(k)
<1>1. ~Pressing(k)' /\ ~Releasing(k)'
  BY DEF Pressing, Releasing
<1>2. LevelOf(k)' <=> LevelOf(k)
  BY DEF LevelOf
<1> QED BY <1>1, <1>2, NoOps DEF Final

\* A frame closes no switch in the end, and changes no final level unless a tune's player
\* resets the machine.
LEMMA FrameFinal ==
  ASSUME HostTypeOK, FrameRuns, NEW k \in Key
  PROVE  /\ Final(k)' => Final(k)
         /\ SongGoesOn => (Final(k)' <=> Final(k))
<1>1. (LevelOf(k)' => LevelOf(k)) /\ (SongGoesOn => (LevelOf(k)' <=> LevelOf(k)))
  BY ExecLevel DEF HostTypeOK, FrameRuns
<1>2. todo' = todo
  BY DEF FrameRuns
<1>3. Pressing(k)' <=> Pressing(k)
  BY <1>2 DEF Pressing
<1>4. Releasing(k)' <=> Releasing(k)
  BY <1>2 DEF Releasing
<1> QED BY <1>1, <1>3, <1>4 DEF Final

LEMMA HeldInit == HostInit => HeldInv
<1> SUFFICES ASSUME HostInit PROVE HeldInv
  OBVIOUS
<1>1. \A k : ~Final(k)
  <2>1. Len(<<>>) = 0
    OBVIOUS
  <2>2. \A k : ~DownAfter(<<>>, {}, 0, k)
    BY DEF DownAfter
  <2>3. todo = <<>> /\ queue = <<>> /\ matrix = {}
    BY DEF HostInit, Init
  <2> QED BY <2>1, <2>2, <2>3, NoOps DEF LevelOf
<1> QED BY <1>1 DEF HostInit, HeldInv

LEMMA HeldStep == HostTypeOK /\ HeldInv /\ [HostNext]_hostVars => HeldInv'
<1> SUFFICES ASSUME HostTypeOK, HeldInv, [HostNext]_hostVars PROVE HeldInv'
  OBVIOUS
<1> DEFINE Held(k) == Final(k) => \E h \in sent : k \in SwitchesOf(h)
<1>0. /\ \A k \in Key : Held(k)
      /\ sent \subseteq held \cup Arrows /\ joystick \subseteq held
      /\ arrow_mode = "cursor" => joystick = {} \/ todo = ClearBoth
      /\ ClearBoth # <<>>
  BY Tails DEF HeldInv, ClearBoth
<1>1. ASSUME NEW h \in HostKey, KeyDown(h) PROVE HeldInv'
  <2>1. todo = <<>> /\ UNCHANGED <<queue, matrix, arrow_mode>> /\ held' = held \cup {h}
    BY <1>1 DEF KeyDown, NextMessage, machine, modes
  <2>2. sent \subseteq sent' /\ sent' \subseteq sent \cup {h}
    BY <1>1 DEF KeyDown
  <2>3. joystick' = joystick \/ (arrow_mode # "cursor" /\ joystick' = joystick \cup {h})
    BY <1>1 DEF KeyDown
  <2>4. ASSUME NEW k \in Key, Final(k)' PROVE \E g \in sent' : k \in SwitchesOf(g)
    <3>1. CASE Pressing(k)'
      <4>1. PICK o \in OpsOf(todo') : o.op = "key" /\ o.key = k /\ o.pressed
        BY <3>1 DEF Pressing
      <4> QED BY <1>1, <4>1, DownOps
    <3>2. CASE LevelOf(k)'
      BY <1>0, <2>1, <2>2, <3>2, NoOps DEF LevelOf
    <3> QED BY <2>4, <3>1, <3>2 DEF Final
  <2> QED BY <1>0, <2>1, <2>2, <2>3, <2>4 DEF HeldInv
<1>2. ASSUME NEW h \in HostKey, KeyUp(h) PROVE HeldInv'
  <2>1. /\ todo = <<>> /\ UNCHANGED <<queue, matrix, arrow_mode>> /\ held' = held \ {h}
        /\ joystick' = IF arrow_mode # "cursor" THEN joystick \ {h} ELSE joystick
    BY <1>2 DEF KeyUp, NextMessage, machine, modes
  <2>2. \/ todo' = <<>> /\ sent' = sent /\ h \in Arrows
        \/ todo' = SendKeys(h, FALSE) /\ sent' = sent \ {h}
    BY <1>2, UpOps
  <2>3. ASSUME NEW k \in Key, Final(k)' PROVE \E g \in sent' : k \in SwitchesOf(g)
    <3>1. CASE todo' = <<>> /\ sent' = sent
      <4>1. \A o \in OpsOf(todo') : o.op # "key"
        BY <3>1, OpsAre
      <4>2. Final(k)
        BY <2>1, <2>3, <4>1, NoKeyFinal
      <4> QED BY <1>0, <3>1, <4>2
    <3>2. CASE todo' = SendKeys(h, FALSE) /\ sent' = sent \ {h}
      <4>1. ~Pressing(k)' /\ (k \in SwitchesOf(h) => Releasing(k)')
        BY <3>2, SendOps DEF Pressing, Releasing
      <4>2. LevelOf(k) /\ k \notin SwitchesOf(h)
        BY <2>1, <2>3, <4>1 DEF Final, LevelOf
      <4>3. Final(k)
        BY <2>1, <4>2, NoOps
      <4> QED BY <1>0, <3>2, <4>2, <4>3
    <3> QED BY <2>2, <3>1, <3>2
  <2> QED BY <1>0, <2>1, <2>2, <2>3 DEF HeldInv
<1>3. ASSUME NEW m \in Mode, SetArrowMode(m) PROVE HeldInv'
  <2>1. todo = <<>> /\ UNCHANGED <<queue, matrix, joystick, held, sent>> /\ arrow_mode' = m
    BY <1>3 DEF SetArrowMode, NextMessage, machine, words
  <2>2. todo' = IF m = "cursor" THEN ClearBoth ELSE <<>>
    BY <1>3 DEF SetArrowMode, ClearBoth
  <2>3. \A o \in OpsOf(todo') : o.op # "key"
    <3>1. OpsOf(<<>>) = {} /\ OpsOf(ClearBoth) = {ClearWord("joystick"), ClearWord("taps")}
      BY OpsAre, Zenon DEF ClearBoth
    <3> QED BY <2>2, <3>1 DEF ClearWord
  <2>4. \A k : Final(k)' <=> Final(k)
    BY <2>1, <2>3, NoKeyFinal
  <2> QED BY <1>0, <2>1, <2>2, <2>4 DEF HeldInv
<1>4. ASSUME UNCHANGED <<queue, matrix, todo, joystick, held, sent, arrow_mode>> PROVE HeldInv'
  <2>1. \A k : Final(k)' <=> Final(k)
    BY <1>4, SameFinal
  <2> QED BY <1>0, <1>4, <2>1 DEF HeldInv
<1>5. CASE KillFocus
  <2>1. /\ todo = <<>> /\ todo' = <<>> /\ joystick' = {} /\ held' = {} /\ sent' = {}
        /\ queue' = <<>> /\ matrix' = {}
    BY <1>5 DEF KillFocus, NextMessage, ClearKeys
  <2>2. \A k : ~LevelOf(k)'
    BY <2>1, OpenLevel
  <2>3. \A k : ~Final(k)'
    BY <2>1, <2>2, OpsAre DEF Final, Pressing
  <2> QED BY <2>1, <2>3 DEF HeldInv
<1>6. CASE LoadMedia
  <2>1. /\ todo = <<>> /\ UNCHANGED <<queue, todo, joystick, held, sent, arrow_mode>> /\ matrix' = {}
    BY <1>6 DEF LoadMedia, NextMessage, StateReset, LoadTune, OpenMatrix, words, modes, history
  <2>2. \A k : LevelOf(k)' => LevelOf(k)
    BY <2>1 DEF LevelOf, DownAfter
  <2>3. \A k : Final(k)' => Final(k)
    BY <2>1, <2>2, NoOps, OpsAre DEF Final, Pressing
  <2> QED BY <1>0, <2>1, <2>3 DEF HeldInv
<1>7. CASE ResetMachine
  <2>1. /\ todo = <<>> /\ UNCHANGED <<todo, joystick, held, sent, arrow_mode>>
        /\ queue' = <<>> /\ matrix' = {}
    BY <1>7 DEF ResetMachine, NextMessage, Reset, words, modes, history
  <2>2. \A k : ~LevelOf(k)'
    BY <2>1, OpenLevel
  <2>3. \A k : ~Final(k)'
    BY <2>1, <2>2, OpsAre DEF Final, Pressing
  <2> QED BY <1>0, <2>1, <2>3 DEF HeldInv
<1>8. CASE SendKey
  <2>1. \A k \in Key : Final(k)' <=> Final(k)
    BY <1>8, SendKeyFinal
  <2>2. UNCHANGED <<joystick, held, sent, arrow_mode>>
    BY <1>8 DEF SendKey, words, modes
  <2>3. todo # ClearBoth
    <3>1. ClearBoth[1] = ClearWord("joystick")
      BY Tails DEF ClearBoth
    <3> QED BY <1>8, <3>1 DEF SendKey, TakeTodo, ClearWord
  <2> QED BY <1>0, <2>1, <2>2, <2>3 DEF HeldInv
<1>9. CASE LatchTap
  <2>1. /\ todo # <<>> /\ todo[1].op = "tap" /\ todo' = Tail(todo)
        /\ UNCHANGED <<queue, matrix, joystick, held, sent, arrow_mode>>
    BY <1>9 DEF LatchTap, TakeTodo, machine, modes, history
  <2>2. \A k : Final(k)' <=> Final(k)
    BY <2>1, TakeFinal
  <2>3. todo # ClearBoth
    <3>1. ClearBoth[1] = ClearWord("joystick")
      BY Tails DEF ClearBoth
    <3> QED BY <2>1, <3>1 DEF ClearWord
  <2> QED BY <1>0, <2>1, <2>2, <2>3 DEF HeldInv
<1>10. CASE ClearJoystick
  <2>1. /\ todo # <<>> /\ todo[1].op = "joystick" /\ todo' = Tail(todo) /\ joystick' = {}
        /\ UNCHANGED <<queue, matrix, held, sent>>
    BY <1>10 DEF ClearJoystick, TakeTodo, machine, history
  <2>2. \A k : Final(k)' <=> Final(k)
    BY <2>1, TakeFinal
  <2> QED BY <1>0, <2>1, <2>2 DEF HeldInv
<1>11. CASE ClearTaps
  <2>1. /\ todo # <<>> /\ todo[1].op = "taps" /\ todo' = Tail(todo)
        /\ UNCHANGED <<queue, matrix, joystick, held, sent, arrow_mode>>
    BY <1>11 DEF ClearTaps, TakeTodo, machine, modes, history
  <2>2. \A k : Final(k)' <=> Final(k)
    BY <2>1, TakeFinal
  <2>3. todo # ClearBoth
    <3>1. ClearBoth[1] = ClearWord("joystick")
      BY Tails DEF ClearBoth
    <3> QED BY <2>1, <3>1 DEF ClearWord
  <2> QED BY <1>0, <2>1, <2>2, <2>3 DEF HeldInv
<1>12. CASE FrameRuns
  <2>1. \A k \in Key : Final(k)' => Final(k)
    BY <1>12, FrameFinal
  <2>2. UNCHANGED <<todo, joystick, held, sent, arrow_mode>>
    BY <1>12 DEF FrameRuns, words, modes
  <2> QED BY <1>0, <2>1, <2>2 DEF HeldInv
<1>13. CASE TogglePause \/ FrameStarts \/ ReadsJoystick \/ TakesTaps \/ UNCHANGED hostVars
  BY <1>4, <1>13 DEF TogglePause, FrameStarts, ReadsJoystick, TakesTaps, hostVars, machine, modes,
     words, history
<1> QED BY <1>1, <1>2, <1>3, <1>5, <1>6, <1>7, <1>8, <1>9, <1>10, <1>11, <1>12, <1>13 DEF HostNext

LEMMA TapInit == HostInit => TapInv
<1> SUFFICES ASSUME HostInit PROVE TapInv
  OBVIOUS
<1>1. todo = <<>> /\ taps = {} /\ due = {} /\ gone = {}
  BY DEF HostInit
<1>2. InFlight = {}
  BY <1>1, NoOps
<1> QED BY <1>1, <1>2 DEF TapInv

\* The taps a step leaves in flight, by what is left of the message.
LEMMA InFlightAfter ==
  /\ todo' = todo => InFlight' = InFlight
  /\ todo' = <<>> => InFlight' = {}
  /\ (\A o \in OpsOf(todo') : o.op # "tap") => InFlight' = {}
<1>1. \A g : g \in InFlight' <=> \E o \in OpsOf(todo') : o.op = "tap" /\ o.key = g
  BY DEF InFlight, OpsOf
<1>2. OpsOf(<<>>) = {}
  BY OpsAre, Zenon
<1>3. todo' = todo => InFlight' = InFlight
  BY DEF InFlight
<1> QED BY <1>1, <1>2, <1>3

\* The operations that take a message further, seen from the taps.
LEMMA TakeTaps ==
  ASSUME HostTypeOK, todo # <<>>, todo' = Tail(todo)
  PROVE  /\ todo[1].op = "tap" => InFlight = {todo[1].key} /\ InFlight' = {}
         /\ todo[1].op # "tap" => InFlight = {} /\ InFlight' = {}
         /\ todo' \in {ClearBoth, <<ClearWord("taps")>>} => todo \in {ClearBoth, <<ClearWord("taps")>>}
<1> DEFINE c == todo[1]
<1>1. TodoForm(todo)
  BY DEF HostTypeOK, TodoOK
<1>2. /\ OpsOf(todo) = {c} \cup OpsOf(todo')
      /\ c.op = "key" \/ c.op = "tap" => \A o \in OpsOf(todo') : o.op = "key"
      /\ c.op = "joystick" => todo = ClearBoth /\ todo' = <<ClearWord("taps")>>
      /\ c.op = "taps" => todo = <<ClearWord("taps")>> /\ todo' = <<>>
  BY <1>1, TakeOK
<1>3. OpsOf(<<>>) = {} /\ OpsOf(<<ClearWord("taps")>>) = {ClearWord("taps")}
  BY OpsAre, Zenon
<1>4. OpsOf(ClearBoth) = {ClearWord("joystick"), ClearWord("taps")}
  BY OpsAre, Zenon DEF ClearBoth
<1>5. ClearWord("taps").op = "taps" /\ ClearWord("joystick").op = "joystick"
  BY DEF ClearWord
<1>6. c.op \in {"key", "tap", "joystick", "taps"}
  BY <1>1, FirstOp
<1> HIDE DEF c
<1>7. \A g : g \in InFlight <=> \E o \in OpsOf(todo) : o.op = "tap" /\ o.key = g
  BY InFlightIs
<1>8. \A o \in OpsOf(todo') : o.op # "tap"
  BY <1>2, <1>3, <1>5, <1>6
<1>9. InFlight' = {}
  BY <1>8, InFlightAfter
<1>10. c.op = "tap" => InFlight = {c.key}
  BY <1>2, <1>7, <1>8
<1>11. c.op # "tap" => InFlight = {}
  BY <1>2, <1>7, <1>8
<1>12. todo' \in {ClearBoth, <<ClearWord("taps")>>} => todo \in {ClearBoth, <<ClearWord("taps")>>}
  <2>1. \A o \in OpsOf(todo') : todo' \in {ClearBoth, <<ClearWord("taps")>>} => o.op # "key"
    BY <1>3, <1>4, <1>5
  <2>2. todo' \in {ClearBoth, <<ClearWord("taps")>>} => \E o \in OpsOf(todo') : TRUE
    BY <1>3, <1>4
  <2> QED BY <1>2, <1>6, <2>1, <2>2
<1> QED BY <1>9, <1>10, <1>11, <1>12 DEF c

LEMMA TapStep == HostTypeOK /\ TapInv /\ [HostNext]_hostVars => TapInv'
<1> SUFFICES ASSUME HostTypeOK, TapInv, [HostNext]_hostVars PROVE TapInv'
  OBVIOUS
<1> DEFINE Clearing == {ClearBoth, <<ClearWord("taps")>>}
<1>0. /\ taps \cap spent = {} /\ InFlight \cap spent = {} /\ InFlight \subseteq joystick
      /\ gone \subseteq spent \ joystick /\ worker.bits \cap gone = {}
      /\ due \subseteq taps \cup InFlight \cup Seen
      /\ todo \in Clearing => due = {}
  BY DEF TapInv
<1>a. <<>> \notin Clearing
  BY Tails DEF ClearBoth
<1>b. ASSUME todo = <<>>, todo' = <<>>, UNCHANGED worker,
             taps' \subseteq taps, spent' = spent, gone' = gone, joystick' \subseteq joystick,
             due' \subseteq taps' \cup Seen
      PROVE  TapInv'
  BY <1>0, <1>a, <1>b, InFlightAfter DEF TapInv, Seen
<1>1. ASSUME NEW h \in HostKey, KeyDown(h) PROVE TapInv'
  <2>1. /\ todo = <<>> /\ UNCHANGED <<taps, worker>> /\ spent' \subseteq spent
        /\ gone' \subseteq spent' \ joystick' /\ gone' \subseteq gone
    BY <1>0, <1>1 DEF KeyDown, NextMessage
  <2>2. \A g : g \in InFlight' <=> \E o \in OpsOf(todo') : o.op = "tap" /\ o.key = g
    BY DEF InFlight, OpsOf
  <2>3. \A g \in due' \ due : \E o \in OpsOf(todo') : o.op = "tap" /\ o.key = g
    BY <1>1, DownOps
  <2>4. \A o \in OpsOf(todo') : o.op = "key" \/ (o.op = "tap" /\ o.key = h /\ h \in joystick' \ spent')
    BY <1>1, DownOps
  <2>5. InFlight' \subseteq joystick' \ spent'
    BY <2>2, <2>4
  <2>6. due' \subseteq taps' \cup InFlight' \cup Seen'
    <3>1. InFlight = {} /\ Seen' = Seen
      BY <2>1, NoOps DEF Seen
    <3> QED BY <1>0, <2>1, <2>2, <2>3, <3>1
  <2>7. todo' \notin Clearing
    <3>1. OpsOf(ClearBoth) = {ClearWord("joystick"), ClearWord("taps")} /\ OpsOf(<<ClearWord("taps")>>) = {ClearWord("taps")}
      BY OpsAre, Zenon DEF ClearBoth
    <3>2. ClearWord("taps").op = "taps"
      BY DEF ClearWord
    <3> QED BY <2>4, <3>1, <3>2
  <2> QED BY <1>0, <2>1, <2>5, <2>6, <2>7 DEF TapInv
<1>2. ASSUME NEW h \in HostKey, KeyUp(h) PROVE TapInv'
  <2>1. /\ todo = <<>> /\ UNCHANGED <<taps, worker, spent, gone, due>>
        /\ joystick' \subseteq joystick
    BY <1>2 DEF KeyUp, NextMessage
  <2>2. \A o \in OpsOf(todo') : o.op = "key"
    BY <1>2, UpOps, SendOps, OpsAre
  <2>3. InFlight' = {} /\ InFlight = {} /\ Seen' = Seen
    BY <2>1, <2>2, NoOps, InFlightAfter DEF Seen
  <2>4. todo' \notin Clearing
    <3>1. OpsOf(ClearBoth) = {ClearWord("joystick"), ClearWord("taps")} /\ OpsOf(<<ClearWord("taps")>>) = {ClearWord("taps")}
      BY OpsAre, Zenon DEF ClearBoth
    <3>2. ClearWord("taps").op = "taps"
      BY DEF ClearWord
    <3> QED BY <2>2, <3>1, <3>2
  <2> QED BY <1>0, <2>1, <2>3, <2>4 DEF TapInv
<1>3. ASSUME NEW m \in Mode, SetArrowMode(m) PROVE TapInv'
  <2>1. /\ todo = <<>> /\ UNCHANGED <<taps, worker, spent, gone, joystick>>
        /\ due' = IF m = "cursor" THEN {} ELSE due
    BY <1>3 DEF SetArrowMode, NextMessage, words
  <2>2. todo' = IF m = "cursor" THEN ClearBoth ELSE <<>>
    BY <1>3 DEF SetArrowMode, ClearBoth
  <2>3. \A o \in OpsOf(todo') : o.op # "tap"
    <3>1. OpsOf(<<>>) = {} /\ OpsOf(ClearBoth) = {ClearWord("joystick"), ClearWord("taps")}
      BY OpsAre, Zenon DEF ClearBoth
    <3> QED BY <2>2, <3>1 DEF ClearWord
  <2>4. InFlight' = {} /\ InFlight = {} /\ Seen' = Seen
    BY <2>1, <2>3, NoOps, InFlightAfter DEF Seen
  <2> QED BY <1>0, <1>a, <2>1, <2>2, <2>4 DEF TapInv
<1>4. CASE TogglePause \/ LoadMedia \/ ResetMachine
  <2>1. todo = <<>> /\ todo' = <<>> /\ UNCHANGED <<taps, joystick, worker, spent, gone, due>>
    BY <1>4 DEF TogglePause, LoadMedia, ResetMachine, NextMessage, words, history
  <2> QED BY <1>0, <1>b, <2>1, NoOps
<1>5. CASE KillFocus
  <2>1. /\ todo = <<>> /\ todo' = <<>> /\ taps' = {} /\ due' = {} /\ joystick' = {}
        /\ UNCHANGED <<worker, spent, gone>>
    BY <1>5 DEF KillFocus, NextMessage
  <2> QED BY <1>b, <2>1
<1>6. CASE SendKey
  <2>1. /\ todo # <<>> /\ todo[1].op = "key" /\ todo' = Tail(todo)
        /\ UNCHANGED <<taps, joystick, worker, spent, gone, due>>
    BY <1>6 DEF SendKey, TakeTodo, words
  <2>2. InFlight = {} /\ InFlight' = {} /\ (todo' \in Clearing => todo \in Clearing) /\ Seen' = Seen
    BY <2>1, TakeTaps DEF Seen
  <2> QED BY <1>0, <2>1, <2>2 DEF TapInv
<1>7. CASE LatchTap
  <2>1. /\ todo # <<>> /\ todo[1].op = "tap" /\ todo' = Tail(todo) /\ taps' = taps \cup {todo[1].key}
        /\ UNCHANGED <<joystick, worker, spent, gone, due>>
    BY <1>7 DEF LatchTap, TakeTodo, history
  <2>2. /\ InFlight = {todo[1].key} /\ InFlight' = {} /\ (todo' \in Clearing => todo \in Clearing)
        /\ Seen' = Seen
    BY <2>1, TakeTaps DEF Seen
  <2> QED BY <1>0, <2>1, <2>2 DEF TapInv
<1>8. CASE ClearJoystick
  <2>1. /\ todo # <<>> /\ todo[1].op = "joystick" /\ todo' = Tail(todo) /\ joystick' = {}
        /\ UNCHANGED <<taps, worker, spent, gone, due>>
    BY <1>8 DEF ClearJoystick, TakeTodo, history
  <2>2. InFlight = {} /\ InFlight' = {} /\ (todo' \in Clearing => todo \in Clearing) /\ Seen' = Seen
    BY <2>1, TakeTaps DEF Seen
  <2> QED BY <1>0, <2>1, <2>2 DEF TapInv
<1>9. CASE ClearTaps
  <2>1. /\ todo # <<>> /\ todo[1].op = "taps" /\ todo' = Tail(todo) /\ taps' = {}
        /\ UNCHANGED <<joystick, worker, spent, gone, due>>
    BY <1>9 DEF ClearTaps, TakeTodo, history
  <2>2. InFlight = {} /\ InFlight' = {} /\ todo' = <<>>
    BY <2>1, TakeTaps, TakeOK DEF HostTypeOK, TodoOK
  <2>3. todo \in Clearing
    BY <2>1, TakeOK DEF HostTypeOK, TodoOK
  <2> QED BY <1>0, <1>a, <2>1, <2>2, <2>3 DEF TapInv
<1>10. CASE FrameStarts
  <2>1. /\ UNCHANGED <<todo, taps, joystick, spent, due>> /\ ~worker.busy
        /\ gone' = spent \ joystick /\ worker'.bits = {}
    BY <1>10 DEF FrameStarts, MachineFree, words
  <2>2. Seen = {}
    BY <2>1 DEF Seen
  <2>3. InFlight' = InFlight
    BY <2>1, InFlightAfter
  <2> QED BY <1>0, <2>1, <2>2, <2>3 DEF TapInv
<1>11. CASE ReadsJoystick
  <2>1. UNCHANGED <<todo, taps, joystick, spent, gone, due>> /\ worker'.bits = worker.bits \cup joystick
    BY <1>11 DEF HostTypeOK, ReadsJoystick, words, history
  <2>2. Seen \subseteq Seen'
    BY <1>11 DEF ReadsJoystick, Seen, HostTypeOK
  <2>3. InFlight' = InFlight
    BY <2>1, InFlightAfter
  <2> QED BY <1>0, <2>1, <2>2, <2>3 DEF TapInv
<1>12. CASE TakesTaps
  <2>1. /\ UNCHANGED <<todo, joystick, gone, due>> /\ taps' = {}
        /\ spent' = spent \cup (taps \ InFlight) /\ worker'.bits = worker.bits \cup taps
    BY <1>12 DEF TakesTaps, TapsLeft, HostTypeOK
  <2>2. Seen = {} /\ taps \subseteq Seen'
    BY <1>12 DEF TakesTaps, Seen, HostTypeOK
  <2>3. InFlight' = InFlight
    BY <2>1, InFlightAfter
  <2> QED BY <1>0, <2>1, <2>2, <2>3 DEF TapInv
<1>13. CASE FrameRuns
  <2>1. /\ UNCHANGED <<todo, taps, joystick, spent, gone>> /\ worker'.bits = {}
        /\ due' = IF worker.port = "cursor" THEN due ELSE due \cap (taps \cup InFlight)
    BY <1>13 DEF FrameRuns, words, HostTypeOK
  <2>2. worker.port = "cursor" => Seen = {}
    BY DEF Seen
  <2>3. InFlight' = InFlight
    BY <2>1, InFlightAfter
  <2> QED BY <1>0, <2>1, <2>2, <2>3 DEF TapInv
<1>14. CASE UNCHANGED hostVars
  <2>1. UNCHANGED <<todo, taps, joystick, spent, gone, due, worker>>
    BY <1>14 DEF hostVars, words, history
  <2>2. InFlight' = InFlight /\ Seen' = Seen
    BY <2>1, InFlightAfter DEF Seen
  <2> QED BY <1>0, <2>1, <2>2 DEF TapInv
<1> QED BY <1>1, <1>2, <1>3, <1>4, <1>5, <1>6, <1>7, <1>8, <1>9, <1>10, <1>11, <1>12,
           <1>13, <1>14 DEF HostNext

-----------------------------------------------------------------------------
(* A key and its shift. *)

\* The messages that change a switch next, and what is left of them.
LEMMA KeyForms ==
  ASSUME NEW t, TodoForm(t), t # <<>>, t[1].op = "key"
  PROVE  \/ \E g \in HostKey \ ShiftKeys, p \in BOOLEAN :
              t = One(g, p) /\ t[1].key = g /\ Tail(t) = <<>>
         \/ \E g \in ShiftKeys, p \in BOOLEAN :
              /\ t = Both(g, p) /\ t[1].key = "Shift" /\ t[1].pressed = p /\ Tail(t) = Second(g, p)
         \/ \E g \in ShiftKeys, p \in BOOLEAN :
              /\ t = Second(g, p) /\ t[1].key = Shifted[g] /\ t[1].pressed = p /\ Tail(t) = <<>>
<1>1. \A h \in HostKey : <<Latch(h)>>[1].op = "tap" /\ <<Latch(h), Op(h, TRUE, FALSE)>>[1].op = "tap"
  <2>1. \A h : <<Latch(h)>>[1] = Latch(h) /\ <<Latch(h), Op(h, TRUE, FALSE)>>[1] = Latch(h)
    BY Tails, Zenon
  <2> QED BY <2>1 DEF Latch
<1>2. ClearBoth[1].op = "joystick" /\ <<ClearWord("taps")>>[1].op = "taps"
  <2>1. ClearBoth[1] = ClearWord("joystick") /\ <<ClearWord("taps")>>[1] = ClearWord("taps")
    BY Tails, Zenon DEF ClearBoth
  <2> QED BY <2>1 DEF ClearWord
<1>3. ASSUME NEW h, NEW p PROVE One(h, p)[1].key = h /\ Tail(One(h, p)) = <<>>
  <2>1. One(h, p)[1] = Op(h, p, FALSE) /\ Tail(One(h, p)) = <<>>
    BY Tails, Zenon DEF One
  <2> QED BY <2>1 DEF Op
<1>4. ASSUME NEW h, NEW p
      PROVE  Second(h, p)[1].key = Shifted[h] /\ Second(h, p)[1].pressed = p /\ Tail(Second(h, p)) = <<>>
  <2>1. Second(h, p)[1] = Op(Shifted[h], p, TRUE) /\ Tail(Second(h, p)) = <<>>
    BY Tails, Zenon DEF Second
  <2> QED BY <2>1 DEF Op
<1>5. ASSUME NEW h, NEW p
      PROVE  Both(h, p)[1].key = "Shift" /\ Both(h, p)[1].pressed = p /\ Tail(Both(h, p)) = Second(h, p)
  <2>1. Both(h, p)[1] = Op("Shift", p, FALSE) /\ Tail(Both(h, p)) = Second(h, p)
    BY Tails, Zenon DEF Both, Second
  <2> QED BY <2>1 DEF Op
<1>6. \/ \E h \in HostKey \ ShiftKeys, p \in BOOLEAN : t = One(h, p)
      \/ \E h \in ShiftKeys, p \in BOOLEAN : t = Both(h, p) \/ t = Second(h, p)
  BY <1>1, <1>2 DEF TodoForm
<1>7. CASE \E h \in HostKey \ ShiftKeys, p \in BOOLEAN : t = One(h, p)
  BY <1>3, <1>7
<1>8. CASE \E h \in ShiftKeys, p \in BOOLEAN : t = Both(h, p) \/ t = Second(h, p)
  BY <1>4, <1>5, <1>8
<1> QED BY <1>6, <1>7, <1>8

\* The others.
LEMMA OtherForms ==
  ASSUME NEW t, TodoForm(t), t # <<>>, t[1].op # "key"
  PROVE  \/ Tail(t) = <<>> \/ Tail(t) = <<ClearWord("taps")>>
         \/ \E g \in HostKey \ ShiftKeys : t = <<Latch(g), Op(g, TRUE, FALSE)>> /\ Tail(t) = One(g, TRUE)
<1>1. ASSUME NEW h, NEW p PROVE One(h, p)[1].op = "key" /\ Second(h, p)[1].op = "key" /\ Both(h, p)[1].op = "key"
  <2>1. /\ One(h, p)[1] = Op(h, p, FALSE) /\ Second(h, p)[1] = Op(Shifted[h], p, TRUE)
        /\ Both(h, p)[1] = Op("Shift", p, FALSE)
    BY Tails, Zenon DEF One, Second, Both
  <2> QED BY <2>1 DEF Op
<1>2. ASSUME NEW h
      PROVE  Tail(<<Latch(h)>>) = <<>> /\ Tail(<<Latch(h), Op(h, TRUE, FALSE)>>) = One(h, TRUE)
  <2>1. Tail(<<Latch(h)>>) = <<>>
    BY Tails, Zenon
  <2>2. Tail(<<Latch(h), Op(h, TRUE, FALSE)>>) = <<Op(h, TRUE, FALSE)>>
    <3> DEFINE x == Latch(h)
               y == Op(h, TRUE, FALSE)
    <3> HIDE DEF x, y
    <3>1. Tail(<<x, y>>) = <<y>>
      OBVIOUS
    <3> QED BY <3>1 DEF x, y
  <2> QED BY <2>1, <2>2 DEF One
<1>3. Tail(ClearBoth) = <<ClearWord("taps")>> /\ Tail(<<ClearWord("taps")>>) = <<>>
  <2>1. Tail(<<ClearWord("taps")>>) = <<>>
    BY Tails, Zenon
  <2>2. Tail(<<ClearWord("joystick"), ClearWord("taps")>>) = <<ClearWord("taps")>>
    OBVIOUS
  <2> QED BY <2>1, <2>2 DEF ClearBoth
<1>4. /\ ~(\E h \in HostKey \ ShiftKeys, p \in BOOLEAN : t = One(h, p))
      /\ ~(\E h \in ShiftKeys, p \in BOOLEAN : t = Both(h, p) \/ t = Second(h, p))
  BY <1>1
<1>5. CASE \E h \in HostKey \ ShiftKeys : t = <<Latch(h), Op(h, TRUE, FALSE)>>
  BY <1>2, <1>5
<1>6. CASE \E h \in HostKey : t = <<Latch(h)>>
  BY <1>2, <1>6
<1>7. CASE t = ClearBoth \/ t = <<ClearWord("taps")>>
  BY <1>3, <1>7
<1> QED BY <1>4, <1>5, <1>6, <1>7 DEF TodoForm

\* How the forms are told apart.
LEMMA OneIs ==
  ASSUME NEW h, NEW p
  PROVE  /\ One(h, p) # <<>> /\ OpsOf(One(h, p)) = {One(h, p)[1]}
         /\ One(h, p)[1].op = "key" /\ One(h, p)[1].key = h /\ One(h, p)[1].locked = FALSE
<1>1. OpsOf(One(h, p)) = {Op(h, p, FALSE)} /\ One(h, p)[1] = Op(h, p, FALSE) /\ One(h, p) # <<>>
  BY OpsAre, Tails, Zenon DEF One
<1>2. Op(h, p, FALSE).op = "key" /\ Op(h, p, FALSE).key = h /\ Op(h, p, FALSE).locked = FALSE
  BY DEF Op
<1> QED BY <1>1, <1>2, Zenon

LEMMA SecondIs ==
  ASSUME NEW h, NEW p
  PROVE  /\ Second(h, p) # <<>> /\ OpsOf(Second(h, p)) = {Second(h, p)[1]}
         /\ Second(h, p)[1].key = Shifted[h]
         /\ Second(h, p)[1].pressed = p /\ Second(h, p)[1].locked = TRUE
<1>1. /\ OpsOf(Second(h, p)) = {Op(Shifted[h], p, TRUE)} /\ Second(h, p)[1] = Op(Shifted[h], p, TRUE)
      /\ Second(h, p) # <<>>
  BY OpsAre, Tails, Zenon DEF Second
<1>2. /\ Op(Shifted[h], p, TRUE).key = Shifted[h]
      /\ Op(Shifted[h], p, TRUE).pressed = p /\ Op(Shifted[h], p, TRUE).locked = TRUE
  BY DEF Op
<1> QED BY <1>1, <1>2, Zenon

LEMMA SecondOp ==
  ASSUME NEW h, NEW p PROVE Second(h, p)[1].op = "key"
<1>1. Second(h, p)[1] = Op(Shifted[h], p, TRUE)
  BY Tails, Zenon DEF Second
<1>2. Op(Shifted[h], p, TRUE).op = "key"
  BY DEF Op
<1> QED BY <1>1, <1>2, Zenon

LEMMA LatchIs ==
  ASSUME NEW h, NEW p
  PROVE  /\ LatchOne(h, p) # <<>> /\ LatchOne(h, p)[1] \in OpsOf(LatchOne(h, p))
         /\ LatchOne(h, p)[1].op = "tap" /\ LatchOne(h, p)[1].key = h /\ LatchOne(h, p)[1].locked = FALSE
<1>1. OpsOf(LatchOne(h, p)) = {Latch(h), Op(h, p, FALSE)} /\ LatchOne(h, p)[1] = Latch(h) /\ LatchOne(h, p) # <<>>
  BY OpsAre, Tails, Zenon DEF LatchOne
<1>2. Latch(h).op = "tap" /\ Latch(h).key = h /\ Latch(h).locked = FALSE
  BY DEF Latch
<1> QED BY <1>1, <1>2

LEMMA ClearIs ==
  ASSUME NEW t \in {ClearBoth, <<ClearWord("taps")>>}
  PROVE  /\ t # <<>> /\ t[1].op # "key" /\ t[1].op # "tap" /\ t[1].locked = FALSE
         /\ \A o \in OpsOf(t) : o.op # "key" /\ o.op # "tap"
<1>1. /\ OpsOf(<<ClearWord("taps")>>) = {ClearWord("taps")} /\ <<ClearWord("taps")>>[1] = ClearWord("taps")
      /\ <<ClearWord("taps")>> # <<>>
  BY OpsAre, Tails, Zenon
<1>2. /\ OpsOf(ClearBoth) = {ClearWord("joystick"), ClearWord("taps")} /\ ClearBoth[1] = ClearWord("joystick")
      /\ ClearBoth # <<>>
  BY OpsAre, Tails, Zenon DEF ClearBoth
<1>3. \A w : ClearWord(w).op = w /\ ClearWord(w).locked = FALSE
  BY DEF ClearWord
<1> QED BY <1>1, <1>2, <1>3

\* A burst stops between no two changes of a pair.
LEMMA UsedPairs ==
  ASSUME NEW q \in Seq(Change), NEW d, d # "Shift", Pairs(q, d), Used(q) < Len(q)
  PROVE  q[Used(q) + 1].key # d
<1> DEFINE n == Used(q)
<1>1. n \in 0..Len(q) /\ Len(q) \in Nat /\ Distinct(q, n) /\ ~Distinct(q, n + 1)
  BY UsedOK
<1>2. n < Len(q)
  OBVIOUS
<1> HIDE DEF n
<1>3. SUFFICES ASSUME q[n + 1].key = d PROVE FALSE
  BY DEF n
<1>4. PICK i \in 1..(n + 1), j \in 1..(n + 1) : q[i].key = q[j].key /\ i # j
  BY <1>1 DEF Distinct
<1>5. PICK a \in 1..n : q[a].key = d
  <2>1. CASE i \in 1..n /\ j \in 1..n
    BY <1>1, <1>4, <2>1 DEF Distinct
  <2>2. CASE i = n + 1
    BY <1>1, <1>3, <1>4, <2>2
  <2>3. CASE j = n + 1
    BY <1>1, <1>3, <1>4, <2>3
  <2> QED BY <1>1, <2>1, <2>2, <2>3
<1>6. a > 1 /\ q[a - 1].key = "Shift" /\ a - 1 \in 1..n
  BY <1>1, <1>5 DEF Pairs
<1>7. n >= 1 /\ q[n].key = "Shift"
  <2> DEFINE e == n + 1
  <2>1. e \in 1..Len(q) /\ e - 1 = n /\ q[e].key = d
    BY <1>1, <1>2, <1>3
  <2> HIDE DEF e
  <2>2. e > 1 /\ q[e - 1].key = "Shift"
    BY <2>1 DEF Pairs
  <2> QED BY <1>1, <2>1, <2>2
<1>8. a - 1 = n
  BY <1>1, <1>6, <1>7 DEF Distinct
<1> QED BY <1>1, <1>5, <1>8

\* What a burst leaves is still paired and, but within a pair, can be cut anywhere.
LEMMA RestPairs ==
  ASSUME NEW q \in Seq(Change), NEW m, NEW d \in Key, "Shift" \in Key, d # "Shift",
         Pairs(q, d), Cuts(q, m, d), NEW n \in 0..Len(q), n < Len(q) => q[n + 1].key # d
  PROVE  Pairs(Rest(q, n), d) /\ Cuts(Rest(q, n), MatrixAfter(q, m, n), d)
<1> DEFINE r == Rest(q, n)
           l == Len(q) - n
           v == MatrixAfter(q, m, n)
<1>1. Len(q) \in Nat /\ n \in 0..Len(q) /\ r \in Seq(Change) /\ Len(r) = l /\ l \in Nat
  BY RestOK
<1>2. \A j \in 1..l : r[j] = q[n + j]
  <2>1. \A j \in (n + 1)..Len(q) : q[j] \in Change
    BY <1>1, ElementOfSeq
  <2>2. \A j \in 1..(Len(q) - n) : SubSeq(q, n + 1, Len(q))[j] = q[(n + 1) + j - 1]
    BY <1>1, <2>1, SubSeqProperties
  <2>3. \A j \in 1..(Len(q) - n) : q[(n + 1) + j - 1] = q[n + j]
    BY <1>1
  <2> QED BY <2>2, <2>3 DEF Rest
<1>3. Pairs(r, d)
  <2> HIDE DEF r
  <2> SUFFICES ASSUME NEW j \in 1..l, r[j].key = d
               PROVE  j > 1 /\ r[j - 1].key = "Shift" /\ r[j - 1].pressed = r[j].pressed
    BY <1>1 DEF Pairs
  <2> DEFINE e == n + j
  <2>1. e \in 1..Len(q) /\ q[e] = r[j] /\ j \in Nat
    BY <1>1, <1>2
  <2>2. e - 1 = n + (j - 1)
    BY <1>1
  <2> HIDE DEF e
  <2>3. q[e - 1].key = "Shift" /\ q[e - 1].pressed = r[j].pressed
    BY <2>1 DEF Pairs
  <2>4. j > 1
    <3>1. j = 1 => e = n + 1
      BY DEF e
    <3> QED BY <1>1, <2>1, <3>1
  <2>5. j - 1 \in 1..l
    BY <1>1, <2>4
  <2> DEFINE f == j - 1
  <2>6. f \in 1..l /\ r[f] = q[n + f] /\ n + f = e - 1
    BY <1>2, <2>2, <2>5
  <2> QED BY <2>3, <2>4, <2>6
<1>4. Cuts(r, v, d)
  <2> SUFFICES ASSUME NEW i \in 0..(l - 1), r[i + 1].key # d, DownAfter(r, v, i, d)
               PROVE  DownAfter(r, v, i, "Shift")
    BY <1>1 DEF Cuts
  <2>1. i \in 0..(Len(q) - n) /\ i + 1 \in 1..l
    BY <1>1
  <2>2. n + i \in 0..(Len(q) - 1) /\ q[(n + i) + 1].key # d
    <3> HIDE DEF r, v
    <3> DEFINE f == i + 1
    <3>1. f \in 1..l /\ r[f].key # d
      BY <2>1
    <3> HIDE DEF f
    <3>2. q[n + f].key # d
      BY <1>2, <3>1
    <3>3. n + f = (n + i) + 1
      BY <1>1 DEF f
    <3> QED BY <1>1, <3>2, <3>3
  <2>3. DownAfter(r, v, i, d) <=> DownAfter(q, m, n + i, d)
    BY <2>1, DownSplit
  <2>4. DownAfter(r, v, i, "Shift") <=> DownAfter(q, m, n + i, "Shift")
    BY <2>1, DownSplit
  <2> HIDE DEF r, v
  <2> QED BY <2>2, <2>3, <2>4 DEF Cuts
<1> QED BY <1>3, <1>4

\* What closes d in an open matrix closes the shift right before it.
LEMMA OpenPair ==
  ASSUME NEW q \in Seq(Change), NEW m, NEW d, Pairs(q, d), NEW n \in 0..Len(q),
         DownAfter(q, m, n, d) => DownAfter(q, m, n, "Shift"), DownAfter(q, {}, n, d)
  PROVE  DownAfter(q, {}, n, "Shift")
<1>1. PICK i \in 1..n : q[i].key = d /\ q[i].pressed /\ \A j \in (i + 1)..n : q[j].key # d
  BY DEF DownAfter
<1>2. DownAfter(q, m, n, "Shift")
  BY <1>1 DEF DownAfter
<1> DEFINE e == i - 1
<1>3. e \in 1..n /\ q[e].key = "Shift"
  BY <1>1 DEF Pairs
<1> HIDE DEF e
<1> QED BY <1>2, <1>3 DEF DownAfter

LEMMA OpenCuts ==
  ASSUME NEW q \in Seq(Change), NEW m, NEW d, Pairs(q, d), Cuts(q, m, d)
  PROVE  Cuts(q, {}, d)
<1> SUFFICES ASSUME NEW n \in 0..(Len(q) - 1), q[n + 1].key # d, DownAfter(q, {}, n, d)
             PROVE  DownAfter(q, {}, n, "Shift")
  BY DEF Cuts
<1>1. n \in 0..Len(q)
  OBVIOUS
<1>2. DownAfter(q, m, n, d) => DownAfter(q, m, n, "Shift")
  BY DEF Cuts
<1> QED BY <1>1, <1>2, OpenPair

\* Unless it is between two changes, a message that presses a shifted key's other half
\* presses the shift.
LEMMA PressesBoth ==
  ASSUME TodoOK, ~UiHasLock, NEW h \in ShiftKeys, ~Lone(Shifted[h]), Pressing(Shifted[h])
  PROVE  Pressing("Shift")
<1> DEFINE d == Shifted[h]
<1>1. PICK o \in OpsOf(todo) : o.op = "key" /\ o.key = d /\ o.pressed
  BY DEF Pressing
<1>2. d # "Shift" /\ d \notin DOMAIN Shifted
  BY ShiftedOK DEF ShiftKeys
<1>3. ~Lone(d)
  OBVIOUS
<1> HIDE DEF d
<1>4. ASSUME NEW g, NEW p \in BOOLEAN, todo = One(g, p) PROVE FALSE
  <2>1. OpsOf(One(g, p)) = {One(g, p)[1]} /\ One(g, p)[1].key = g
    BY OneIs
  <2>2. o \in {One(g, p)[1]}
    BY <1>1, <1>4, <2>1
  <2> QED BY <1>1, <1>3, <1>4, <2>1, <2>2 DEF Lone
<1>5. ASSUME NEW g, NEW p, todo = Second(g, p) PROVE FALSE
  BY <1>5, SecondIs DEF UiHasLock
<1>6. ASSUME NEW g, NEW p, todo = Both(g, p) PROVE Pressing("Shift")
  <2> DEFINE x == Op("Shift", p, FALSE)
             y == Op(Shifted[g], p, TRUE)
  <2>1. x.op = "key" /\ x.key = "Shift" /\ x.pressed = p /\ y.pressed = p /\ todo = <<x, y>>
    BY <1>6 DEF Op, Both
  <2> HIDE DEF x, y
  <2>2. OpsOf(todo) = {x, y}
    BY <2>1, OpsAre, Zenon
  <2> QED BY <1>1, <1>2, <2>1, <2>2 DEF Pressing
<1>7. ASSUME NEW g, todo = <<Latch(g)>> \/ todo = <<Latch(g), Op(g, TRUE, FALSE)>> PROVE FALSE
  <2> DEFINE x == Latch(g)
             y == Op(g, TRUE, FALSE)
  <2>1. x.op = "tap" /\ y.key = g /\ (todo = <<x>> \/ todo = <<x, y>>)
    BY <1>7 DEF Op, Latch
  <2>2. todo = <<x, y>> => todo = LatchOne(g, TRUE)
    BY DEF LatchOne
  <2> HIDE DEF x, y
  <2>3. OpsOf(<<x>>) = {x} /\ OpsOf(<<x, y>>) = {x, y}
    BY OpsAre, Zenon
  <2>4. o = y /\ todo = <<x, y>>
    BY <1>1, <2>1, <2>3
  <2> QED BY <1>1, <1>3, <2>1, <2>2, <2>4 DEF Lone
<1>8. ASSUME todo = ClearBoth \/ todo = <<ClearWord("taps")>> PROVE FALSE
  BY <1>1, <1>8, ClearIs
<1>9. todo # <<>>
  BY <1>1, OpsAre, Zenon
<1> QED BY <1>4, <1>5, <1>6, <1>7, <1>8, <1>9 DEF TodoOK, TodoForm

\* Queueing the message's next change parts no pair.
LEMMA SendKeyShift ==
  ASSUME HostTypeOK, SendKey, NEW h \in ShiftKeys \ mixed', Unparted(h, Shifted[h])
  PROVE  Unparted(h, Shifted[h])'
<1> DEFINE d == Shifted[h]
           c == todo[1]
           l == Len(queue)
<1>1. d \in Key /\ "Shift" \in Key /\ d # "Shift"
  BY KeysOK
<1>2. /\ todo # <<>> /\ TodoForm(todo) /\ c.op = "key" /\ c.key \in Key /\ c.pressed \in BOOLEAN
      /\ todo' = Tail(todo) /\ UNCHANGED <<entry, held, sent, paused>>
  <2>1. todo # <<>> /\ c.op = "key" /\ todo' = Tail(todo) /\ UNCHANGED <<entry, held, sent, paused>>
    BY DEF SendKey, TakeTodo, QueueKey, modes
  <2> QED BY <2>1, TakeOK DEF HostTypeOK, TodoOK
<1>3. /\ d \notin held \cup sent /\ ~Lone(d)
      /\ Pairs(queue, d) /\ Cuts(queue, matrix, d)
      /\ ~Between(h) /\ LevelOf(d) => LevelOf("Shift")
      /\ Final(d) => Final("Shift")
      /\ \A p \in BOOLEAN : todo = Second(h, p) =>
           IF paused THEN queue = <<>>
           ELSE queue # <<>> /\ queue[Len(queue)].key = "Shift" /\ queue[Len(queue)].pressed = p
      /\ d \in entry.keys => "Shift" \in entry.keys
  BY DEF Unparted
<1>4. queue \in Seq(Change) /\ l \in Nat /\ l # MaxQueuedKeys /\ l <= MaxQueuedKeys
  <2>1. l # MaxQueuedKeys
    BY DEF SendKey, ShiftKeys
  <2> QED BY <2>1 DEF HostTypeOK, TypeOK
<1>5. c.key = d => \E p \in BOOLEAN : todo = Second(h, p) /\ c.pressed = p /\ todo' = <<>>
  <2>1. \A g \in ShiftKeys : Shifted[g] = d => g = h
    BY ShiftedOK DEF ShiftKeys
  <2>2. \A p \in BOOLEAN : todo # One(d, p)
    BY <1>3 DEF Lone
  <2> HIDE DEF d
  <2> QED BY <1>1, <1>2, <2>1, <2>2, KeyForms
<1>6. todo' = <<>> \/ \E g \in ShiftKeys, p \in BOOLEAN :
        todo = Both(g, p) /\ c.key = "Shift" /\ c.pressed = p /\ todo' = Second(g, p)
  BY <1>2, KeyForms
<1>7. ~Lone(d)'
  <2>1. (\A p : One(d, p) # <<>>) /\ (\A p : LatchOne(d, p) # <<>>)
    <3>1. \A p : One(d, p) # <<>>
      BY OneIs
    <3>2. \A p : LatchOne(d, p) # <<>>
      BY LatchIs
    <3> QED BY <3>1, <3>2
  <2>2. \A g, p, b : Second(g, p) # One(d, b) /\ Second(g, p) # LatchOne(d, b)
    <3>1. \A g, p : Second(g, p)[1].locked = TRUE
      BY SecondIs
    <3>2. \A p : One(d, p)[1].locked = FALSE
      BY OneIs
    <3>3. \A p : LatchOne(d, p)[1].locked = FALSE
      BY LatchIs
    <3> HIDE DEF d
    <3> QED BY <3>1, <3>2, <3>3
  <2> HIDE DEF d
  <2>3. \A p \in BOOLEAN : todo' # One(d, p) /\ todo' # LatchOne(d, p)
    BY <1>6, <2>1, <2>2
  <2> QED BY <2>3 DEF Lone, d
<1>8. Final(d)' => Final("Shift")'
  <2>1. (Final(d)' <=> Final(d)) /\ (Final("Shift")' <=> Final("Shift"))
    BY <1>1, SendKeyFinal
  <2> QED BY <1>3, <2>1
<1>9. ~Between(h)' /\ LevelOf(d)' => LevelOf("Shift")'
  <2> SUFFICES ASSUME ~Between(h)' PROVE LevelOf(d)' => LevelOf("Shift")'
    OBVIOUS
  <2>1. \A o \in OpsOf(todo') : o.op = "key" => o.key # d /\ o.key # "Shift"
    <3>1. CASE todo' = <<>>
      BY <3>1, OpsAre
    <3>2. ASSUME NEW g \in ShiftKeys, NEW p \in BOOLEAN, todo' = Second(g, p)
          PROVE  \A o \in OpsOf(todo') : o.key # d /\ o.key # "Shift"
      <4>1. g # h
        BY <3>2 DEF Between
      <4>2. Shifted[g] # d /\ Shifted[g] # "Shift"
        BY <4>1, ShiftedOK DEF ShiftKeys
      <4>3. \A o \in OpsOf(Second(g, p)) : o.key = Shifted[g]
        <5>1. OpsOf(Second(g, p)) = {Second(g, p)[1]} /\ Second(g, p)[1].key = Shifted[g]
          BY SecondIs
        <5> QED BY <5>1
      <4> QED BY <3>2, <4>2, <4>3
    <3> QED BY <1>6, <3>1, <3>2
  <2>2. ~Pressing(d)' /\ ~Releasing(d)'
    BY <2>1 DEF Pressing, Releasing
  <2>3. ~Pressing("Shift")' /\ ~Releasing("Shift")'
    BY <2>1 DEF Pressing, Releasing
  <2> QED BY <1>8, <2>2, <2>3 DEF Final
<1>10. CASE paused
  <2>1. queue' = <<>> /\ Len(queue') = 0
    BY <1>10 DEF SendKey
  <2>2. Pairs(queue, d)' /\ Cuts(queue, matrix, d)'
    <3>1. Pairs(<<>>, d) /\ \A m : Cuts(<<>>, m, d)
      BY DEF Pairs, Cuts
    <3> QED BY <2>1, <3>1
  <2> QED BY <1>2, <1>3, <1>7, <1>8, <1>9, <1>10, <2>1, <2>2 DEF Unparted
<1>11. CASE ~paused
  <2> DEFINE e == [key |-> c.key, pressed |-> c.pressed]
             r == Append(queue, e)
  <2>1. queue' = r /\ matrix' = matrix
    <3>1. Push(e)
      BY <1>11 DEF SendKey, QueueKey
    <3>2. ~(Len(queue) >= MaxQueuedKeys)
      BY <1>4, QueueAssumption
    <3> QED BY <3>1, <3>2 DEF Push
  <2>2. e \in Change /\ e.key = c.key /\ e.pressed = c.pressed
    BY <1>2 DEF Change
  <2> HIDE DEF e
  <2>3. /\ r \in Seq(Change) /\ Len(r) = l + 1 /\ r[l + 1] = e
        /\ \A i \in 1..l : r[i] = queue[i]
    BY <1>4, <2>2, AppendProperties
  <2>4. \A n \in 0..l, k \in Key : DownAfter(r, matrix, n, k) <=> DownAfter(queue, matrix, n, k)
    BY <1>4, <2>2, DownAppend
  <2>5. queue' # <<>> /\ queue'[Len(queue')].key = c.key /\ queue'[Len(queue')].pressed = c.pressed
    BY <1>4, <2>1, <2>2, <2>3
  <2> HIDE DEF r, c
  <2>6. Pairs(r, d)
    <3> HIDE DEF d
    <3> SUFFICES ASSUME NEW n \in 1..(l + 1), r[n].key = d
                 PROVE  n > 1 /\ r[n - 1].key = "Shift" /\ r[n - 1].pressed = r[n].pressed
      BY <2>3 DEF Pairs
    <3>1. CASE n \in 1..l
      <4>1. n > 1 /\ queue[n - 1].key = "Shift" /\ queue[n - 1].pressed = queue[n].pressed
        BY <1>3, <2>3, <3>1 DEF Pairs
      <4>2. n - 1 \in 1..l
        BY <1>4, <3>1, <4>1
      <4> QED BY <2>3, <3>1, <4>1, <4>2
    <3>2. CASE n = l + 1
      <4>1. queue # <<>> /\ queue[l].key = "Shift" /\ queue[l].pressed = c.pressed
        BY <1>3, <1>5, <1>11, <2>2, <2>3, <3>2
      <4>2. l > 0
        BY <1>4, <4>1, EmptySeq
      <4> QED BY <1>4, <2>2, <2>3, <3>2, <4>1, <4>2
    <3> QED BY <1>4, <3>1, <3>2
  <2>7. Cuts(r, matrix, d)
    <3> HIDE DEF d
    <3> SUFFICES ASSUME NEW n \in 0..l, r[n + 1].key # d, DownAfter(r, matrix, n, d)
                 PROVE  DownAfter(r, matrix, n, "Shift")
      BY <1>4, <2>3 DEF Cuts
    <3>1. DownAfter(queue, matrix, n, d)
      BY <1>1, <2>4
    <3>2. CASE n < l
      <4>1. n \in 0..(l - 1) /\ n + 1 \in 1..l
        BY <1>4, <3>2
      <4>2. queue[n + 1].key # d
        BY <2>3, <4>1
      <4>3. DownAfter(queue, matrix, n, "Shift")
        BY <1>3, <3>1, <4>1, <4>2 DEF Cuts
      <4> QED BY <1>1, <2>4, <4>3
    <3>3. CASE n = l
      <4>1. c.key # d
        BY <2>2, <2>3, <3>3
      <4>2. ~Between(h)
        <5>1. \A p : Second(h, p)[1].key = d
          BY SecondIs DEF d
        <5> QED BY <4>1, <5>1 DEF Between, c
      <4>3. DownAfter(queue, matrix, n, "Shift")
        BY <1>3, <3>1, <3>3, <4>2 DEF LevelOf
      <4> QED BY <1>1, <2>4, <4>3
    <3> QED BY <1>4, <3>2, <3>3
  <2>8. \A p \in BOOLEAN : todo' = Second(h, p) =>
          queue' # <<>> /\ queue'[Len(queue')].key = "Shift" /\ queue'[Len(queue')].pressed = p
    <3>1. ASSUME NEW p \in BOOLEAN, NEW g \in ShiftKeys, NEW b \in BOOLEAN, Second(g, b) = Second(h, p)
          PROVE  b = p
      <4>1. Second(g, b)[1].pressed = b /\ Second(h, p)[1].pressed = p
        BY SecondIs
      <4> QED BY <3>1, <4>1
    <3>2. \A p : Second(h, p) # <<>>
      BY SecondIs
    <3> QED BY <1>6, <2>5, <3>1, <3>2
  <2> QED BY <1>2, <1>3, <1>7, <1>8, <1>9, <1>11, <2>1, <2>6, <2>7, <2>8 DEF Unparted
<1> QED BY <1>10, <1>11

\* A frame takes the changes of a pair together or not at all.
LEMMA FrameShift ==
  ASSUME HostTypeOK, FrameRuns, ~UiHasLock, NEW h \in ShiftKeys, Unparted(h, Shifted[h])
  PROVE  Unparted(h, Shifted[h])'
<1> DEFINE d == Shifted[h]
           n == Used(queue)
           v == MatrixAfter(queue, matrix, n)
<1>1. d \in Key /\ "Shift" \in Key /\ d # "Shift"
  BY KeysOK
<1>2. /\ d \notin held \cup sent /\ ~Lone(d)
      /\ Pairs(queue, d) /\ Cuts(queue, matrix, d)
      /\ ~Between(h) /\ LevelOf(d) => LevelOf("Shift")
      /\ Final(d) => Final("Shift")
  BY DEF Unparted
<1>3. queue \in Seq(Change) /\ Len(queue) \in Nat /\ n \in 0..Len(queue)
  BY UsedOK DEF HostTypeOK, TypeOK
<1>4. /\ queue' = Rest(queue, n) /\ entry'.keys = matrix'
      /\ matrix' = IF SongGoesOn THEN v ELSE {}
      /\ UNCHANGED <<todo, held, sent, paused>>
  BY ExecType DEF FrameRuns, HostTypeOK, modes
<1>5. ~Between(h) /\ \A p \in BOOLEAN : todo # Second(h, p)
  <2>1. \A p : Second(h, p) # <<>> /\ Second(h, p)[1].locked = TRUE
    BY SecondIs
  <2> QED BY <2>1 DEF UiHasLock, Between
<1>6. n < Len(queue) => queue[n + 1].key # d
  BY <1>1, <1>2, <1>3, UsedPairs
<1> HIDE DEF n
<1>7. DownAfter(queue, matrix, n, d) => DownAfter(queue, matrix, n, "Shift")
  <2>1. CASE n < Len(queue)
    <3>1. n \in 0..(Len(queue) - 1)
      BY <1>3, <2>1
    <3> HIDE DEF d
    <3> QED BY <1>2, <1>6, <2>1, <3>1 DEF Cuts
  <2>2. CASE n = Len(queue)
    BY <1>2, <1>5, <2>2 DEF LevelOf
  <2> QED BY <1>3, <2>1, <2>2
<1>8. d \in entry'.keys => "Shift" \in entry'.keys
  BY <1>1, <1>4, <1>7 DEF MatrixAfter
<1> DEFINE r == Rest(queue, n)
           l == Len(queue) - n
<1>9. /\ r \in Seq(Change) /\ Len(r) = l /\ l \in 0..l /\ Pairs(r, d) /\ Cuts(r, v, d)
      /\ DownAfter(r, v, l, d) => DownAfter(r, v, l, "Shift")
  <2>1. Len(r) = l /\ l \in 0..l /\ r \in Seq(Change) /\ n + l = Len(queue)
    BY <1>3, RestOK
  <2> HIDE DEF d
  <2>2. Pairs(r, d) /\ Cuts(r, v, d)
    BY <1>1, <1>2, <1>3, <1>6, RestPairs
  <2> HIDE DEF r, v, l
  <2>3. \A k \in Key : DownAfter(r, v, l, k) <=> DownAfter(queue, matrix, n + l, k)
    BY <1>3, DownSplit DEF r, v, l
  <2> QED BY <1>1, <1>2, <1>5, <2>1, <2>2, <2>3 DEF LevelOf
<1> HIDE DEF r, v, l
<1>10. Cuts(queue, matrix, d)' /\ (LevelOf(d)' => LevelOf("Shift")')
  <2>1. queue' = r /\ Len(queue') = l
    BY <1>4, <1>9 DEF r
  <2>2. CASE SongGoesOn
    <3>1. matrix' = v
      BY <1>4, <2>2
    <3> HIDE DEF d
    <3>2. Cuts(queue', matrix', d) /\ (DownAfter(queue', matrix', Len(queue'), d)
                                       => DownAfter(queue', matrix', Len(queue'), "Shift"))
      BY <1>9, <2>1, <3>1
    <3> QED BY <3>2 DEF LevelOf, d
  <2>3. CASE ~SongGoesOn
    <3>1. matrix' = {}
      BY <1>4, <2>3
    <3> HIDE DEF d
    <3>2. Cuts(r, {}, d) /\ (DownAfter(r, {}, l, d) => DownAfter(r, {}, l, "Shift"))
      BY <1>9, OpenCuts, OpenPair
    <3>3. Cuts(queue', matrix', d) /\ (DownAfter(queue', matrix', Len(queue'), d)
                                       => DownAfter(queue', matrix', Len(queue'), "Shift"))
      BY <2>1, <3>1, <3>2
    <3> QED BY <3>3 DEF LevelOf, d
  <2> QED BY <2>2, <2>3
<1>11. Pairs(queue, d)' /\ (Final(d)' => Final("Shift")')
  <2>1. Pairs(queue, d)'
    <3>1. queue' = r
      BY <1>4 DEF r
    <3> HIDE DEF d
    <3> QED BY <1>9, <3>1 DEF d
  <2>2. \A k : (Pressing(k)' <=> Pressing(k)) /\ (Releasing(k)' <=> Releasing(k))
    BY <1>4 DEF Pressing, Releasing
  <2>3. Pressing(d) => Pressing("Shift")
    BY <1>2, PressesBoth DEF HostTypeOK
  <2>4. Final(d)' => Final(d)
    BY <1>1, FrameFinal
  <2> QED BY <1>2, <1>10, <2>1, <2>2, <2>3, <2>4 DEF Final
<1>12. ~Lone(d)' /\ ~Between(h)' /\ \A p \in BOOLEAN : todo' # Second(h, p)
  BY <1>2, <1>4, <1>5 DEF Lone, Between
<1> QED BY <1>2, <1>4, <1>8, <1>10, <1>11, <1>12 DEF Unparted

\* A step that leaves the machine and its message alone.
LEMMA SameShift ==
  ASSUME UNCHANGED <<queue, matrix, entry, todo, paused>>, held' \cup sent' \subseteq held \cup sent,
         NEW h, Unparted(h, Shifted[h])
  PROVE  Unparted(h, Shifted[h])'
<1>1. \A k : (Final(k)' <=> Final(k)) /\ (LevelOf(k)' <=> LevelOf(k))
  BY SameFinal DEF LevelOf
<1> QED BY <1>1 DEF Unparted, Lone, Between

\* The next message, which queues nothing yet.
LEMMA MessageShift ==
  ASSUME todo = <<>>, UNCHANGED <<queue, matrix, entry>>, NEW h, Unparted(h, Shifted[h]),
         ~UiHasLock', ~Lone(Shifted[h])', Shifted[h] \notin held' \cup sent',
         Final(Shifted[h])' => Final("Shift")'
  PROVE  Unparted(h, Shifted[h])'
<1>1. ~Between(h) /\ \A p \in BOOLEAN : todo' # Second(h, p)
  <2>1. \A p : Second(h, p) # <<>> /\ Second(h, p)[1].locked = TRUE
    BY SecondIs
  <2> QED BY <2>1 DEF UiHasLock, Between
<1>2. \A k : LevelOf(k)' <=> LevelOf(k)
  BY DEF LevelOf
<1>3. LevelOf(Shifted[h]) => LevelOf("Shift")
  BY <1>1 DEF Unparted
<1>4. /\ Pairs(queue, Shifted[h])' /\ Cuts(queue, matrix, Shifted[h])'
      /\ (Shifted[h] \in entry.keys => "Shift" \in entry.keys)'
  BY DEF Unparted
<1> QED BY <1>1, <1>2, <1>3, <1>4 DEF Unparted

\* With the matrix open and nothing queued there is nothing to part.
LEMMA EmptyShift ==
  ASSUME todo' = <<>>, queue' = <<>>, matrix' = {}, entry' = entry, NEW h, Unparted(h, Shifted[h]),
         held' \cup sent' \subseteq held \cup sent
  PROVE  Unparted(h, Shifted[h])'
<1> DEFINE d == Shifted[h]
<1>1. Pairs(<<>>, d) /\ Cuts(<<>>, {}, d)
  <2>1. Len(<<>>) = 0
    OBVIOUS
  <2> QED BY <2>1 DEF Pairs, Cuts
<1>2. Pairs(queue, d)' /\ Cuts(queue, matrix, d)'
  BY <1>1
<1>3. \A k : ~LevelOf(k)' /\ ~Final(k)'
  <2>1. \A k : ~LevelOf(k)'
    BY OpenLevel
  <2> QED BY <2>1, OpsAre DEF Final, Pressing
<1>4. ~Lone(d)'
  <2>1. \A p : One(d, p) # <<>>
    BY OneIs
  <2>2. \A p : LatchOne(d, p) # <<>>
    BY LatchIs
  <2> QED BY <2>1, <2>2 DEF Lone
<1>5. \A p \in BOOLEAN : todo' # Second(h, p)
  <2>1. \A p : Second(h, p) # <<>>
    BY SecondIs
  <2> QED BY <2>1
<1>6. d \notin held' \cup sent' /\ (d \in entry'.keys => "Shift" \in entry'.keys)
  BY DEF Unparted
<1> QED BY <1>2, <1>3, <1>4, <1>5, <1>6 DEF Unparted

\* A matrix that opens under a queue parts no pair of it.
LEMMA OpenShift ==
  ASSUME HostTypeOK, todo = <<>>, todo' = <<>>, matrix' = {},
         UNCHANGED <<queue, entry, paused, held, sent>>, NEW h, Unparted(h, Shifted[h])
  PROVE  Unparted(h, Shifted[h])'
<1> DEFINE d == Shifted[h]
<1>1. /\ d \notin held \cup sent /\ ~Lone(d)
      /\ Pairs(queue, d) /\ Cuts(queue, matrix, d)
      /\ ~Between(h) /\ LevelOf(d) => LevelOf("Shift")
      /\ d \in entry.keys => "Shift" \in entry.keys
  BY DEF Unparted
<1>2. queue \in Seq(Change) /\ Len(queue) \in 0..Len(queue)
  BY DEF HostTypeOK, TypeOK
<1>3. ~Between(h) /\ ~Between(h)' /\ \A p \in BOOLEAN : todo' # Second(h, p)
  <2>1. \A p : Second(h, p) # <<>>
    BY SecondIs
  <2> QED BY <2>1 DEF Between
<1>4. Pairs(queue, d)' /\ ~Lone(d)'
  BY <1>1 DEF Lone
<1> HIDE DEF d
<1>5. Cuts(queue, {}, d)
  BY <1>1, <1>2, OpenCuts
<1>6. DownAfter(queue, {}, Len(queue), d) => DownAfter(queue, {}, Len(queue), "Shift")
  BY <1>1, <1>2, <1>3, OpenPair DEF LevelOf
<1>7. Cuts(queue, matrix, Shifted[h])' /\ (LevelOf(Shifted[h])' => LevelOf("Shift")')
  BY <1>5, <1>6 DEF LevelOf, d
<1>8. Final(Shifted[h])' => Final("Shift")'
  BY <1>7, OpsAre DEF Final, Pressing, Releasing
<1> QED BY <1>1, <1>3, <1>4, <1>7, <1>8 DEF Unparted, d

LEMMA NoLock ==
  ASSUME todo' = <<>> PROVE ~UiHasLock'
BY DEF UiHasLock

\* A lone change of a plain key is in no message but that key's own.
LEMMA LoneOps ==
  ASSUME NEW h \in ShiftKeys, Lone(Shifted[h])'
  PROVE  \E o \in OpsOf(todo') :
           \/ o.op = "tap" /\ o.key = Shifted[h]
           \/ o.op = "key" /\ o.key = Shifted[h] /\ \A b \in OpsOf(todo') : b.key # "Shift"
<1> DEFINE d == Shifted[h]
<1>1. d # "Shift"
  BY ShiftedOK DEF ShiftKeys
<1> HIDE DEF d
<1>2. ASSUME NEW p, todo' = One(d, p)
      PROVE  \E o \in OpsOf(todo') : o.op = "key" /\ o.key = d /\ \A b \in OpsOf(todo') : b.key # "Shift"
  <2>1. OpsOf(One(d, p)) = {One(d, p)[1]} /\ One(d, p)[1].op = "key" /\ One(d, p)[1].key = d
    BY OneIs
  <2> QED BY <1>1, <1>2, <2>1
<1>3. ASSUME NEW p, todo' = LatchOne(d, p)
      PROVE  \E o \in OpsOf(todo') : o.op = "tap" /\ o.key = d
  <2>1. LatchOne(d, p)[1] \in OpsOf(LatchOne(d, p)) /\ LatchOne(d, p)[1].op = "tap" /\ LatchOne(d, p)[1].key = d
    BY LatchIs
  <2> QED BY <1>3, <2>1
<1>4. \E p \in BOOLEAN : todo' = One(d, p) \/ todo' = LatchOne(d, p)
  BY DEF Lone, d
<1> QED BY <1>2, <1>3, <1>4 DEF d

LEMMA DownShift ==
  ASSUME HostTypeOK, NEW g \in HostKey, KeyDown(g), NEW h \in ShiftKeys \ mixed', Unparted(h, Shifted[h])
  PROVE  Unparted(h, Shifted[h])'
<1> DEFINE d == Shifted[h]
<1>1. /\ todo = <<>> /\ UNCHANGED <<queue, matrix, entry>>
      /\ held' = held \cup {g} /\ sent' \subseteq sent \cup {g}
  BY DEF KeyDown, NextMessage, machine
<1>2. g # d
  BY DEF KeyDown, Alone, ShiftKeys
<1>3. d \notin held' \cup sent'
  BY <1>1, <1>2 DEF Unparted
<1>4. SwitchesOf(h) = {"Shift", d} /\ (d \in SwitchesOf(g) => g = h)
  <2>1. SwitchesOf(h) = {"Shift", d} /\ d # "Shift"
    BY SwitchesAre, ShiftedOK DEF ShiftKeys
  <2>2. CASE g \in DOMAIN Shifted
    <3>1. SwitchesOf(g) = {"Shift", Shifted[g]}
      BY <2>2, SwitchesAre
    <3> QED BY <2>1, <2>2, <3>1, ShiftedOK DEF ShiftKeys
  <2>3. CASE g \notin DOMAIN Shifted
    <3>1. SwitchesOf(g) = {g}
      BY <2>3, SwitchesAre
    <3> QED BY <1>2, <2>1, <3>1
  <2> QED BY <2>1, <2>2, <2>3
<1>5. \A o \in OpsOf(todo') :
        \/ /\ o.op = "key" /\ o.pressed = TRUE /\ o.key \in SwitchesOf(g)
           /\ \A k \in SwitchesOf(g) : \E b \in OpsOf(todo') : b.op = "key" /\ b.key = k /\ b.pressed = TRUE
        \/ o.op = "tap" /\ o.key = g
  BY DownOps
<1> HIDE DEF d
<1>6. ~Lone(Shifted[h])'
  <2>1. ~\E o \in OpsOf(todo') :
           \/ o.op = "tap" /\ o.key = d
           \/ o.op = "key" /\ o.key = d /\ \A b \in OpsOf(todo') : b.key # "Shift"
    BY <1>2, <1>4, <1>5
  <2> QED BY <2>1, LoneOps DEF d
<1>7. Final(d)' => Final("Shift")'
  <2> SUFFICES ASSUME Final(d)' PROVE Final("Shift")'
    OBVIOUS
  <2>1. CASE Pressing(d)'
    <3>1. PICK o \in OpsOf(todo') : o.op = "key" /\ o.key = d
      BY <2>1 DEF Pressing
    <3>2. \E b \in OpsOf(todo') : b.op = "key" /\ b.key = "Shift" /\ b.pressed = TRUE
      BY <1>4, <1>5, <3>1
    <3>3. Pressing("Shift")'
      BY <3>2 DEF Pressing
    <3> QED BY <3>3 DEF Final
  <2>2. CASE ~Pressing(d)'
    <3>1. LevelOf(d)
      BY <1>1, <2>2 DEF Final, LevelOf
    <3>2. LevelOf("Shift")
      <4>1. ~Between(h)
        <5>1. \A p : Second(h, p) # <<>>
          BY SecondIs
        <5> QED BY <1>1, <5>1 DEF Between
      <4> QED BY <3>1, <4>1 DEF Unparted, d
    <3>3. LevelOf("Shift")'
      BY <1>1, <3>2 DEF LevelOf
    <3>4. ~Releasing("Shift")'
      BY <1>5 DEF Releasing
    <3> QED BY <3>3, <3>4 DEF Final
  <2> QED BY <2>1, <2>2
<1>8. ~UiHasLock'
  BY DownOps
<1> QED BY <1>1, <1>3, <1>6, <1>7, <1>8, MessageShift DEF d

LEMMA UpShift ==
  ASSUME HostTypeOK, HeldInv, NEW g \in HostKey, KeyUp(g), NEW h \in ShiftKeys \ (mixed \cup mixed'),
         Unparted(h, Shifted[h])
  PROVE  Unparted(h, Shifted[h])'
<1> DEFINE d == Shifted[h]
<1>1. /\ todo = <<>> /\ UNCHANGED <<queue, matrix, entry>>
      /\ held' \subseteq held /\ sent' \subseteq sent /\ g \in held
  BY DEF KeyUp, NextMessage, machine
<1>2. d \notin held \cup sent /\ g # d
  BY <1>1 DEF Unparted
<1>3. h \in sent /\ h # g => SwitchesOf(g) \cap SwitchesOf(h) = {}
  BY DEF KeyUp, Shares, ShiftKeys
<1>4. SwitchesOf(h) = {"Shift", d} /\ \A x : x # d /\ d \in SwitchesOf(x) => x = h
  <2>1. SwitchesOf(h) = {"Shift", d} /\ d # "Shift"
    BY SwitchesAre, ShiftedOK DEF ShiftKeys
  <2>2. ASSUME NEW x, x # d, d \in SwitchesOf(x) PROVE x = h
    <3>1. CASE x \in DOMAIN Shifted
      <4>1. SwitchesOf(x) = {"Shift", Shifted[x]}
        BY <3>1, SwitchesAre
      <4> QED BY <2>1, <2>2, <3>1, <4>1, ShiftedOK DEF ShiftKeys
    <3>2. CASE x \notin DOMAIN Shifted
      <4>1. SwitchesOf(x) = {x}
        BY <3>2, SwitchesAre
      <4> QED BY <2>2, <4>1
    <3> QED BY <3>1, <3>2
  <2> QED BY <2>1, <2>2
<1>5. d \in Key
  BY KeysOK
<1> HIDE DEF d
<1>6. \/ todo' = <<>>
      \/ todo' = SendKeys(g, FALSE)
  BY UpOps
<1>7. /\ \A o \in OpsOf(SendKeys(g, FALSE)) : o.op = "key" /\ o.pressed = FALSE /\ o.key \in SwitchesOf(g)
      /\ \A k \in SwitchesOf(g) : \E o \in OpsOf(SendKeys(g, FALSE)) : o.key = k
  BY SendOps
<1>8. /\ \A o \in OpsOf(todo') : o.op = "key" /\ o.pressed = FALSE /\ o.key \in SwitchesOf(g)
      /\ (\E o \in OpsOf(todo') : TRUE) => \A k \in SwitchesOf(g) : \E o \in OpsOf(todo') : o.key = k
  <2>1. OpsOf(<<>>) = {}
    BY OpsAre, Zenon
  <2> QED BY <1>6, <1>7, <2>1
<1>9. ~Lone(Shifted[h])'
  <2>1. ~\E o \in OpsOf(todo') :
           \/ o.op = "tap" /\ o.key = d
           \/ o.op = "key" /\ o.key = d /\ \A b \in OpsOf(todo') : b.key # "Shift"
    BY <1>2, <1>4, <1>8
  <2> QED BY <2>1, LoneOps DEF d
<1>10. Final(d)' => Final("Shift")'
  <2> SUFFICES ASSUME Final(d)' PROVE Final("Shift")'
    OBVIOUS
  <2>1. ~Pressing(d)' /\ ~Releasing(d)'
    <3>1. ~Pressing(d)'
      BY <1>8 DEF Pressing
    <3> QED BY <3>1 DEF Final
  <2>2. LevelOf(d)
    BY <1>1, <2>1 DEF Final, LevelOf
  <2>3. LevelOf("Shift")
    <3>1. ~Between(h)
      <4>1. \A p : Second(h, p) # <<>>
        BY SecondIs
      <4> QED BY <1>1, <4>1 DEF Between
    <3> QED BY <2>2, <3>1 DEF Unparted, d
  <2>4. h \in sent
    <3>1. Final(d)
      BY <1>1, <2>2, NoOps
    <3>2. PICK x \in sent : d \in SwitchesOf(x)
      BY <1>5, <3>1 DEF HeldInv
    <3> QED BY <1>2, <1>4, <3>2
  <2>5. ~Releasing("Shift")'
    <3> SUFFICES ASSUME Releasing("Shift")' PROVE FALSE
      OBVIOUS
    <3>1. PICK o \in OpsOf(todo') : o.key = "Shift"
      BY DEF Releasing
    <3>2. "Shift" \in SwitchesOf(g)
      BY <1>8, <3>1
    <3>3. g = h
      BY <1>3, <1>4, <2>4, <3>2
    <3>4. Releasing(d)'
      BY <1>4, <1>8, <3>1, <3>3 DEF Releasing
    <3> QED BY <2>1, <3>4
  <2>6. LevelOf("Shift")'
    BY <1>1, <2>3 DEF LevelOf
  <2> QED BY <2>5, <2>6 DEF Final
<1>11. ~UiHasLock'
  BY UpOps
<1> QED BY <1>1, <1>2, <1>9, <1>10, <1>11, MessageShift DEF d

\* The operations that queue nothing.
LEMMA OtherShift ==
  ASSUME HostTypeOK, todo # <<>>, todo[1].op # "key", todo' = Tail(todo),
         UNCHANGED <<queue, matrix, entry, paused, held, sent>>,
         NEW h \in ShiftKeys, Unparted(h, Shifted[h])
  PROVE  Unparted(h, Shifted[h])' /\ ~UiHasLock'
<1> DEFINE d == Shifted[h]
<1>1. \/ todo' = <<>> \/ todo' = <<ClearWord("taps")>>
      \/ \E g \in HostKey \ ShiftKeys : todo = LatchOne(g, TRUE) /\ todo' = One(g, TRUE)
  BY OtherForms DEF HostTypeOK, TodoOK, LatchOne
<1>2. ~UiHasLock'
  <2>1. <<ClearWord("taps")>>[1].locked = FALSE
    BY ClearIs, Zenon
  <2>2. \A g, p : One(g, p)[1].locked = FALSE
    BY OneIs
  <2> QED BY <1>1, <2>1, <2>2 DEF UiHasLock
<1>3. ~Between(h) /\ ~Between(h)' /\ \A p \in BOOLEAN : todo' # Second(h, p)
  <2>1. \A p : Second(h, p) # <<>> /\ Second(h, p)[1].locked = TRUE
    BY SecondIs
  <2>2. ~Between(h)' /\ \A p \in BOOLEAN : todo' # Second(h, p)
    BY <1>2, <2>1 DEF UiHasLock, Between
  <2>3. \A p : Second(h, p)[1].op = "key"
    BY SecondOp
  <2> QED BY <2>2, <2>3 DEF Between
<1>4. ~Lone(d)'
  <2>1. ~Lone(d)
    BY DEF Unparted
  <2> HIDE DEF d
  <2>2. \A p : One(d, p) # <<>> /\ One(d, p)[1].op = "key" /\ One(d, p)[1].key = d
    BY OneIs
  <2>3. \A p : LatchOne(d, p) # <<>> /\ LatchOne(d, p)[1].op = "tap"
    BY LatchIs
  <2>4. <<ClearWord("taps")>>[1].op = "taps"
    <3>1. <<ClearWord("taps")>>[1] = ClearWord("taps")
      BY Tails, Zenon
    <3> QED BY <3>1 DEF ClearWord
  <2>5. \A g : One(g, TRUE)[1].op = "key" /\ One(g, TRUE)[1].key = g
    BY OneIs
  <2>6. CASE todo' = <<>> \/ todo' = <<ClearWord("taps")>>
    BY <2>2, <2>3, <2>4, <2>6 DEF Lone
  <2>7. ASSUME NEW g, todo = LatchOne(g, TRUE), todo' = One(g, TRUE) PROVE ~Lone(d)'
    <3>1. g # d
      BY <2>1, <2>7 DEF Lone
    <3>2. \A p : One(g, TRUE) # One(d, p)
      BY <2>2, <2>5, <3>1
    <3>3. \A p : One(g, TRUE) # LatchOne(d, p)
      BY <2>3, <2>5
    <3> QED BY <2>7, <3>2, <3>3 DEF Lone
  <2>8. ~Lone(d)'
    BY <1>1, <2>6, <2>7
  <2> QED BY <2>8 DEF d
<1>5. Final(d)' => Final("Shift")'
  <2>1. (Final(d)' <=> Final(d)) /\ (Final("Shift")' <=> Final("Shift"))
    BY TakeFinal
  <2> QED BY <2>1 DEF Unparted
<1>6. LevelOf(d)' => LevelOf("Shift")'
  <2>1. (LevelOf(d)' <=> LevelOf(d)) /\ (LevelOf("Shift")' <=> LevelOf("Shift"))
    BY DEF LevelOf
  <2> QED BY <1>3, <2>1 DEF Unparted
<1>7. /\ Pairs(queue, d)' /\ Cuts(queue, matrix, d)' /\ d \notin held' \cup sent'
      /\ d \in entry'.keys => "Shift" \in entry'.keys
  BY DEF Unparted
<1> QED BY <1>2, <1>3, <1>4, <1>5, <1>6, <1>7 DEF Unparted

LEMMA UnpartedInit ==
  ASSUME HostInit, NEW h \in ShiftKeys PROVE Unparted(h, Shifted[h])
<1> DEFINE d == Shifted[h]
<1>1. /\ todo = <<>> /\ queue = <<>> /\ matrix = {} /\ entry.keys = {} /\ held = {} /\ sent = {}
  BY DEF HostInit, Init
<1>2. Pairs(queue, d) /\ Cuts(queue, matrix, d)
  <2>1. Len(<<>>) = 0
    OBVIOUS
  <2> QED BY <1>1, <2>1 DEF Pairs, Cuts
<1>3. ~LevelOf(d) /\ ~Final(d)
  <2>1. Len(<<>>) = 0 /\ ~DownAfter(<<>>, {}, 0, d)
    BY DEF DownAfter
  <2> QED BY <1>1, <2>1, NoOps DEF LevelOf
<1>4. ~Lone(d)
  <2>1. \A p : One(d, p) # <<>>
    BY OneIs
  <2>2. \A p : LatchOne(d, p) # <<>>
    BY LatchIs
  <2> QED BY <1>1, <2>1, <2>2 DEF Lone
<1>5. \A p \in BOOLEAN : todo # Second(h, p)
  <2>1. \A p : Second(h, p) # <<>>
    BY SecondIs
  <2> QED BY <1>1, <2>1
<1> QED BY <1>1, <1>2, <1>3, <1>4, <1>5 DEF Unparted

LEMMA ShiftInit == HostInit => ShiftInv
<1>1. HostInit => worker.busy = FALSE
  BY DEF HostInit
<1> QED BY <1>1, UnpartedInit DEF ShiftInv

LEMMA MixedGrows == HostTypeOK /\ [HostNext]_hostVars => mixed \subseteq mixed'
<1> SUFFICES ASSUME HostTypeOK, [HostNext]_hostVars PROVE mixed \subseteq mixed'
  OBVIOUS
<1>1. mixed \subseteq DOMAIN Shifted
  BY DEF HostTypeOK
<1>2. CASE \E h \in HostKey : KeyDown(h) \/ KeyUp(h)
  BY <1>2 DEF KeyDown, KeyUp
<1>3. CASE SendKey
  BY <1>1, <1>3 DEF SendKey
<1>4. CASE \/ \E m \in Mode : SetArrowMode(m)
           \/ TogglePause \/ KillFocus \/ LoadMedia \/ ResetMachine \/ LatchTap \/ ClearJoystick \/ ClearTaps
  BY <1>4 DEF SetArrowMode, TogglePause, KillFocus, LoadMedia, ResetMachine, LatchTap, ClearJoystick, ClearTaps, history
<1>5. CASE FrameStarts \/ ReadsJoystick \/ TakesTaps \/ FrameRuns \/ UNCHANGED hostVars
  BY <1>5 DEF FrameStarts, ReadsJoystick, TakesTaps, FrameRuns, hostVars, history
<1> QED BY <1>2, <1>3, <1>4, <1>5 DEF HostNext

LEMMA ShiftStep == HostTypeOK /\ HeldInv /\ ShiftInv /\ [HostNext]_hostVars => ShiftInv'
<1> SUFFICES ASSUME HostTypeOK, HeldInv, ShiftInv, [HostNext]_hostVars PROVE ShiftInv'
  OBVIOUS
<1>0. mixed \subseteq mixed' /\ \A h \in ShiftKeys \ mixed : Unparted(h, Shifted[h])
  BY MixedGrows DEF ShiftInv
<1> DEFINE Kept == \A h \in ShiftKeys \ mixed' : Unparted(h, Shifted[h])'
<1>a. ASSUME UNCHANGED <<queue, matrix, entry, todo, paused, held, sent>>,
             UiHasLock => ~worker'.busy
      PROVE  ShiftInv'
  <2>1. UiHasLock' <=> UiHasLock
    BY <1>a DEF UiHasLock
  <2>2. Kept
    BY <1>0, <1>a, SameShift
  <2> QED BY <1>a, <2>1, <2>2 DEF ShiftInv
<1>b. UiHasLock => ~worker.busy
  BY DEF ShiftInv
<1>1. ASSUME NEW g \in HostKey, KeyDown(g) PROVE ShiftInv'
  <2>1. Kept
    BY <1>0, <1>1, DownShift
  <2>2. ~UiHasLock'
    BY <1>1, DownOps
  <2> QED BY <2>1, <2>2 DEF ShiftInv
<1>2. ASSUME NEW g \in HostKey, KeyUp(g) PROVE ShiftInv'
  <2>1. Kept
    <3> SUFFICES ASSUME NEW h \in ShiftKeys \ mixed' PROVE Unparted(h, Shifted[h])'
      OBVIOUS
    <3>1. h \in ShiftKeys \ (mixed \cup mixed') /\ Unparted(h, Shifted[h])
      BY <1>0
    <3> QED BY <1>2, <3>1, UpShift
  <2>2. ~UiHasLock'
    BY <1>2, UpOps
  <2> QED BY <2>1, <2>2 DEF ShiftInv
<1>3. ASSUME NEW m \in Mode, SetArrowMode(m) PROVE ShiftInv'
  <2>1. todo = <<>> /\ UNCHANGED <<queue, matrix, entry, held, sent>>
    BY <1>3 DEF SetArrowMode, NextMessage, machine
  <2>2. todo' = <<>> \/ todo' = ClearBoth
    BY <1>3 DEF SetArrowMode, ClearBoth
  <2>3. \A o \in OpsOf(todo') : o.op # "key" /\ o.op # "tap"
    <3>1. \A o \in OpsOf(ClearBoth) : o.op # "key" /\ o.op # "tap"
      BY ClearIs, Zenon
    <3>2. OpsOf(<<>>) = {}
      BY OpsAre, Zenon
    <3> QED BY <2>2, <3>1, <3>2
  <2>4. ~UiHasLock'
    <3>1. ClearBoth[1].locked = FALSE
      BY ClearIs, Zenon
    <3> QED BY <2>2, <3>1 DEF UiHasLock
  <2>5. ASSUME NEW h \in ShiftKeys \ mixed' PROVE Unparted(h, Shifted[h])'
    <3>1. Unparted(h, Shifted[h])
      BY <1>0
    <3>2. ~Lone(Shifted[h])'
      BY <2>3, LoneOps
    <3>3. (Final(Shifted[h])' <=> Final(Shifted[h])) /\ (Final("Shift")' <=> Final("Shift"))
      BY <2>1, <2>3, NoKeyFinal
    <3>4. (Final(Shifted[h]) => Final("Shift")) /\ Shifted[h] \notin held \cup sent
      BY <3>1 DEF Unparted
    <3> QED BY <2>1, <2>4, <3>1, <3>2, <3>3, <3>4, MessageShift
  <2> QED BY <2>4, <2>5 DEF ShiftInv
<1>4. CASE TogglePause
  <2>1. todo = <<>> /\ todo' = <<>> /\ UNCHANGED <<queue, matrix, entry, held, sent>>
    BY <1>4 DEF TogglePause, NextMessage, machine, history
  <2>2. ~UiHasLock'
    BY <2>1, NoLock
  <2>3. ASSUME NEW h \in ShiftKeys \ mixed' PROVE Unparted(h, Shifted[h])'
    <3>1. Unparted(h, Shifted[h])
      BY <1>0
    <3>2. ~Lone(Shifted[h])'
      <4>1. OpsOf(todo') = {}
        BY <2>1, OpsAre, Zenon
      <4> QED BY <4>1, LoneOps
    <3>3. (Final(Shifted[h])' <=> Final(Shifted[h])) /\ (Final("Shift")' <=> Final("Shift"))
      BY <2>1, SameFinal
    <3>4. (Final(Shifted[h]) => Final("Shift")) /\ Shifted[h] \notin held \cup sent
      BY <3>1 DEF Unparted
    <3> QED BY <2>1, <2>2, <3>1, <3>2, <3>3, <3>4, MessageShift
  <2> QED BY <2>2, <2>3 DEF ShiftInv
<1>5. CASE KillFocus
  <2>1. /\ todo' = <<>> /\ queue' = <<>> /\ matrix' = {} /\ entry' = entry
        /\ held' \cup sent' \subseteq held \cup sent
    BY <1>5 DEF KillFocus, NextMessage, ClearKeys
  <2>2. Kept
    BY <1>0, <2>1, EmptyShift
  <2> QED BY <2>1, <2>2, NoLock DEF ShiftInv
<1>6. CASE ResetMachine
  <2>1. /\ todo' = <<>> /\ queue' = <<>> /\ matrix' = {} /\ entry' = entry
        /\ held' \cup sent' \subseteq held \cup sent
    BY <1>6 DEF ResetMachine, NextMessage, Reset, history
  <2>2. Kept
    BY <1>0, <2>1, EmptyShift
  <2> QED BY <2>1, <2>2, NoLock DEF ShiftInv
<1>7. CASE LoadMedia
  <2>1. /\ todo = <<>> /\ todo' = <<>> /\ matrix' = {}
        /\ UNCHANGED <<queue, entry, paused, held, sent>>
    BY <1>7 DEF LoadMedia, NextMessage, StateReset, LoadTune, OpenMatrix, modes, history
  <2>2. Kept
    BY <1>0, <2>1, OpenShift
  <2> QED BY <2>1, <2>2, NoLock DEF ShiftInv
<1>8. CASE SendKey
  <2>1. Kept
    BY <1>0, <1>8, SendKeyShift
  <2>2. ~worker'.busy
    BY <1>8 DEF SendKey, MachineFree
  <2> QED BY <2>1, <2>2 DEF ShiftInv
<1>9. CASE LatchTap \/ ClearJoystick \/ ClearTaps
  <2>1. /\ todo # <<>> /\ todo[1].op # "key" /\ todo' = Tail(todo)
        /\ UNCHANGED <<queue, matrix, entry, paused, held, sent, worker>>
    BY <1>9 DEF LatchTap, ClearJoystick, ClearTaps, TakeTodo, machine, modes, history
  <2>2. Kept
    BY <1>0, <2>1, OtherShift
  <2>3. UiHasLock' => ~worker'.busy
    <3>1. TodoForm(todo)
      BY DEF HostTypeOK, TodoOK
    <3>2. \/ todo' = <<>> \/ todo' = <<ClearWord("taps")>>
          \/ \E h : todo' = One(h, TRUE)
      BY <2>1, <3>1, OtherForms
    <3>3. <<ClearWord("taps")>>[1].locked = FALSE
      BY ClearIs, Zenon
    <3>4. \A h, p : One(h, p)[1].locked = FALSE
      BY OneIs
    <3> QED BY <3>2, <3>3, <3>4 DEF UiHasLock
  <2> QED BY <2>2, <2>3 DEF ShiftInv
<1>10. CASE FrameStarts
  BY <1>10, <1>a DEF FrameStarts, machine, modes, history
<1>11. CASE ReadsJoystick
  <2>1. worker'.busy = worker.busy
    BY <1>11 DEF ReadsJoystick, HostTypeOK
  <2> QED BY <1>11, <1>a, <1>b, <2>1 DEF ReadsJoystick, machine, modes, history
<1>12. CASE TakesTaps
  <2>1. worker'.busy = worker.busy
    BY <1>12 DEF TakesTaps, HostTypeOK
  <2> QED BY <1>12, <1>a, <1>b, <2>1 DEF TakesTaps, machine, modes
<1>13. CASE FrameRuns
  <2>1. ~UiHasLock
    BY <1>13, <1>b DEF FrameRuns
  <2>2. Kept
    BY <1>0, <1>13, <2>1, FrameShift
  <2>3. ~UiHasLock'
    BY <1>13, <2>1 DEF FrameRuns, UiHasLock
  <2> QED BY <2>2, <2>3 DEF ShiftInv
<1>14. CASE UNCHANGED hostVars
  BY <1>14, <1>a, <1>b DEF hostVars, machine, modes, history
<1> QED BY <1>1, <1>2, <1>3, <1>4, <1>5, <1>6, <1>7, <1>8, <1>9, <1>10, <1>11, <1>12,
           <1>13, <1>14 DEF HostNext

-----------------------------------------------------------------------------
(* The theorems. *)

LEMMA HostInvInit == HostInit => HostInv
BY HostInitType, HeldInit, TapInit, ShiftInit DEF HostInv

LEMMA HostInvStep == HostInv /\ [HostNext]_hostVars => HostInv'
BY HostTypeStep, HeldStep, TapStep, ShiftStep DEF HostInv

\* The joint invariant of the key messages, the taps, the joystick and the queue.
THEOREM HostCorrect == HostSpec => []HostInv
BY HostInvInit, HostInvStep, PTL DEF HostSpec

\* No switch and no direction stays on without a PC key that holds it.
THEOREM NothingSticks == HostSpec => []NothingStuck
<1>1. HostInv => NothingStuck
  BY NoOps DEF HostInv, HeldInv, NothingStuck
<1> QED BY HostCorrect, <1>1, PTL

\* A tap a frame has taken is shown by no later frame, but while the key is down or after
\* it is pressed again.
THEOREM TapsShownOnce == HostSpec => []NoTapTwice
<1>1. HostInv => NoTapTwice
  BY DEF HostInv, TapInv, NoTapTwice
<1> QED BY HostCorrect, <1>1, PTL

\* A press made while the machine runs is on a port in the next frame, or latched, unless
\* a tune's player resets the machine in that frame.
THEOREM TapsArrive == HostSpec => NoTapLost
<1> DEFINE A == FrameRuns /\ worker.port # "cursor" /\ SongGoesOn =>
                  due \subseteq taps \cup InFlight \cup (UNION {ports'[p] : p \in Port})
<1>1. HostInv /\ [HostNext]_hostVars => [A]_hostVars
  <2> SUFFICES ASSUME HostInv, FrameRuns, worker.port # "cursor", SongGoesOn
               PROVE  due \subseteq taps \cup InFlight \cup (UNION {ports'[p] : p \in Port})
    OBVIOUS
  <2>1. worker.port \in Port /\ worker.busy /\ worker.left = {}
    BY DEF HostInv, HostTypeOK, Mode, FrameRuns
  <2>2. ~PlayerResets(MatrixOfBurst)
    BY ExecType DEF HostInv, HostTypeOK, FrameRuns
  <2>3. ports'[worker.port] = worker.bits
    BY <2>1, <2>2 DEF FrameRuns, PortsOf
  <2>4. Seen = worker.bits
    BY <2>1 DEF Seen
  <2>5. due \subseteq taps \cup InFlight \cup worker.bits
    BY <2>4 DEF HostInv, TapInv
  <2>6. worker.bits \subseteq UNION {ports'[p] : p \in Port}
    BY <2>1, <2>3
  <2> QED BY <2>5, <2>6
<1> QED BY HostCorrect, <1>1, PTL DEF HostSpec, NoTapLost

\* A frame sees the switch of a shifted key closed only with the shift.
THEOREM ShiftsTogether == HostSpec => []ShiftedTogether
<1>1. HostInv => ShiftedTogether
  BY DEF HostInv, ShiftInv, Unparted, ShiftKeys, ShiftedTogether
<1> QED BY HostCorrect, <1>1, PTL

=============================================================================
