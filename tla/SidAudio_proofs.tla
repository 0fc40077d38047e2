--------------------------- MODULE SidAudio_proofs --------------------------
(***************************************************************************)
(* Proofs about modules SidVoices and SidAudio, for every width of the     *)
(* accumulators, size of the queue, length of a span and program.          *)
(*                                                                         *)
(* TypeOK is inductive: the least of a set of cycle counts exists and is   *)
(* one of them, so clock's runs are of whole cycles.  With it the queue's  *)
(* order is, and from both follows where the chip's registers stand and    *)
(* when each write is made.  That the cached restart is never late (Calm)  *)
(* makes a run what its single cycles are.                                 *)
(***************************************************************************)
EXTENDS SidAudio, SequenceTheorems, WellFoundedInduction, TLAPS

-----------------------------------------------------------------------------
(* Numbers. *)

\* Induction up to n, for a set: the least number that is not in it has none before it.
Climbs(S, n) == 0 \in S /\ \A i \in 1..n : i - 1 \in S => i \in S

LEMMA Climb ==
  ASSUME NEW n \in Nat, NEW S, Climbs(S, n)
  PROVE  n \in S
<1> DEFINE D == {i \in 0..n : i \notin S}
           R == OpToRel(<, Nat)
<1>1. SUFFICES ASSUME D # {} PROVE FALSE
  OBVIOUS
<1>2. PICK d \in D : \A e \in D : ~(<<e, d>> \in R)
  <2>1. IsWellFoundedOn(R, Nat)
    BY NatLessThanWellFounded
  <2>2. D \in SUBSET Nat
    OBVIOUS
  <2> HIDE DEF D, R
  <2> QED
    BY <1>1, <2>1, <2>2, WFMin, Zenon
<1>3. d \in 1..n /\ d \notin S
  <2> HIDE DEF R
  <2>1. d \in 0..n /\ d \notin S
    BY <1>2
  <2>2. d # 0
    BY <2>1 DEF Climbs
  <2> QED
    BY <2>1, <2>2
<1>4. d - 1 \in 0..n /\ ~(d - 1 \in D)
  <2>1. d - 1 \in Nat /\ d \in Nat /\ d - 1 < d /\ d - 1 \in 0..n
    BY <1>3
  <2>2. d - 1 \in D => <<d - 1, d>> \in R
    BY <2>1 DEF OpToRel
  <2> QED
    BY <1>2, <2>1, <2>2
<1> QED
  BY <1>3, <1>4 DEF Climbs

\* A product grows with its factor.
LEMMA Monotone ==
  ASSUME NEW a \in Int, NEW b \in Int, a < b, NEW p \in Nat \ {0}
  PROVE  a * p + p <= b * p
<1>1. (b - a - 1) * p >= 0
  OBVIOUS
<1>2. (b - a - 1) * p = b * p - a * p - p
  OBVIOUS
<1> QED
  BY <1>1, <1>2


\* A number in its period.
LEMMA ModIs ==
  ASSUME NEW m \in Nat \ {0}, NEW x \in Int, NEW q \in Int, NEW r \in 0..(m - 1), x = q * m + r
  PROVE  x % m = r
<1> DEFINE d == x \div m
           s == x % m
<1>1. d \in Int /\ s \in 0..(m - 1) /\ x = d * m + s
  OBVIOUS
<1> HIDE DEF d, s
<1>2. ~(d < q)
  <2>1. d < q => d * m + m <= q * m
    BY <1>1, Monotone
  <2>2. d * m \in Int /\ q * m \in Int
    BY <1>1
  <2> QED
    BY <1>1, <2>1, <2>2
<1>3. ~(q < d)
  <2>1. q < d => q * m + m <= d * m
    BY <1>1, Monotone
  <2>2. d * m \in Int /\ q * m \in Int
    BY <1>1
  <2> QED
    BY <1>1, <2>1, <2>2
<1>4. d = q
  BY <1>1, <1>2, <1>3
<1> QED
  BY <1>1, <1>4 DEF s

\* Counting on from within the period is counting on.
LEMMA ModAdds ==
  ASSUME NEW m \in Nat \ {0}, NEW x \in Int, NEW y \in Int
  PROVE  ((x % m) + y) % m = (x + y) % m
<1> DEFINE d == x \div m
           s == x % m
           z == s + y
           e == z \div m
           r == z % m
           q == d + e
           w == x + y
<1>1. d \in Int /\ s \in 0..(m - 1) /\ x = d * m + s
  OBVIOUS
<1> HIDE DEF d, s
<1>2. z \in Int
  BY <1>1
<1> HIDE DEF z
<1>3. e \in Int /\ r \in 0..(m - 1) /\ z = e * m + r
  BY <1>2
<1> HIDE DEF e, r
<1>4. q * m = d * m + e * m /\ q \in Int
  BY <1>1, <1>3
<1>5. w = q * m + r /\ w \in Int
  BY <1>1, <1>3, <1>4 DEF z
<1> HIDE DEF q, w
<1>6. w % m = r
  BY <1>3, <1>4, <1>5, ModIs
<1> QED
  BY <1>6 DEF w, r, z, s

-----------------------------------------------------------------------------
(* The accumulators. *)

\* A nonempty set of natural numbers has a least one, and Min is it.
LEMMA MinOK ==
  ASSUME NEW T \in SUBSET Nat, T # {}
  PROVE  Min(T) \in T /\ \A j \in T : Min(T) <= j
<1> DEFINE R == OpToRel(<, Nat)
           P(i) == \A j \in T : i <= j
<1>1. PICK i \in T : \A j \in T : ~(<<j, i>> \in R)
  <2> HIDE DEF R
  <2>1. IsWellFoundedOn(R, Nat)
    BY NatLessThanWellFounded DEF R
  <2> QED
    BY <2>1, WFMin, Zenon
<1>2. P(i)
  <2> SUFFICES ASSUME NEW j \in T PROVE i <= j
    OBVIOUS
  <2>1. ~(j < i)
    BY <1>1 DEF OpToRel
  <2> HIDE DEF R
  <2> QED
    BY <2>1
<1>3. Min(T) = CHOOSE k \in T : P(k)
  BY DEF Min
<1> HIDE DEF P
<1>4. Min(T) \in T /\ P(Min(T))
  BY <1>2, <1>3, Zenon
<1> QED
  BY <1>4 DEF P

\* A chip whose next restart may not be worked out.
Unsynced == [acc : [Voice -> Accumulator], rising : [Voice -> BOOLEAN],
             freq : [Voice -> 0..MaxFreq], test : [Voice -> BOOLEAN],
             sync : [Voice -> BOOLEAN], next : Int]

\* voices is never left without its next restart.
LEMMA VoicesUnsynced ==
  ASSUME NEW c \in Voices
  PROVE  c \in Unsynced /\ c.next \in 1..Never
<1>1. Never \in Nat
  BY DEF Never
<1>2. c.next \in 1..Never /\ 1..Never \subseteq Int
  BY <1>1 DEF Voices
<1>3. c = [acc |-> c.acc, rising |-> c.rising, freq |-> c.freq, test |-> c.test,
           sync |-> c.sync, next |-> c.next]
  BY DEF Voices
<1>4. /\ c.acc \in [Voice -> Accumulator] /\ c.rising \in [Voice -> BOOLEAN]
      /\ c.freq \in [Voice -> 0..MaxFreq] /\ c.test \in [Voice -> BOOLEAN]
      /\ c.sync \in [Voice -> BOOLEAN]
  BY DEF Voices
<1> QED
  BY <1>2, <1>3, <1>4 DEF Unsynced

\* A voice under no test and with a frequency reaches its half in a positive number of cycles.
LEMMA CyclesToHalfOK ==
  ASSUME NEW c \in Unsynced, NEW v \in Sources(c)
  PROVE  CyclesToHalf(c, v) \in Nat \ {0}
<1>1. v \in Voice /\ c.freq[v] \in Nat \ {0} /\ c.acc[v] \in Nat
  BY WidthAssumption DEF Sources, Unsynced, Accumulator
<1>2. 2 * Half \in Nat \ {0} /\ Half - 1 - c.acc[v] \in Int
  BY <1>1, WidthAssumption
<1>3. (Half - 1 - c.acc[v]) % (2 * Half) \in Nat
  BY <1>2
<1> DEFINE a == (Half - 1 - c.acc[v]) % (2 * Half)
<1> HIDE DEF a
<1>4. a \div c.freq[v] \in Nat
  BY <1>1, <1>3 DEF a
<1> QED
  BY <1>4 DEF CyclesToHalf, a

\* voice_sync works out a restart that is at least a cycle away.
LEMMA NextSyncOK ==
  ASSUME NEW c \in Unsynced
  PROVE  NextSync(c) \in Voices
<1> DEFINE T == {Never} \cup {CyclesToHalf(c, v) : v \in Sources(c)}
<1>1. T \in SUBSET Nat /\ T # {} /\ \A x \in T : x >= 1
  <2>1. \A v \in Sources(c) : CyclesToHalf(c, v) \in Nat \ {0}
    BY CyclesToHalfOK
  <2> QED
    BY <2>1 DEF Never
<1>2. Never \in T /\ Never \in Nat
  BY DEF Never
<1>3. NextSync(c) = [c EXCEPT !.next = Min(T)]
  BY DEF NextSync
<1> HIDE DEF T
<1>4. Min(T) \in T /\ \A j \in T : Min(T) <= j
  BY <1>1, MinOK
<1> DEFINE m == Min(T)
<1> HIDE DEF m
<1>5. m \in 1..Never
  <2>1. m \in T /\ m <= Never
    BY <1>2, <1>4 DEF m
  <2>2. m \in Nat /\ m >= 1
    BY <1>1, <2>1
  <2> QED
    BY <1>2, <2>1, <2>2
<1>6. [c EXCEPT !.next = m] \in Voices
  BY <1>5 DEF Voices, Unsynced
<1> QED
  BY <1>3, <1>6 DEF m

\* Any number of cycles leaves an accumulator in its width.
LEMMA AccAfterOK ==
  ASSUME NEW c \in Unsynced, NEW v \in Voice, NEW n \in Int
  PROVE  AccAfter(c, v, n) \in Accumulator
<1>1. c.acc[v] \in Accumulator /\ c.freq[v] \in Nat
  BY WidthAssumption DEF Unsynced
<1>2. 2 * Half \in Nat \ {0}
  BY WidthAssumption
<1> DEFINE f == c.freq[v]
           x == c.acc[v]
           h == 2 * Half
<1>3. n * f \in Int /\ x \in Int
  BY <1>1, <1>2 DEF Accumulator
<1>4. Accumulator = 0..(h - 1) /\ h \in Nat \ {0}
  BY <1>2 DEF Accumulator
<1> DEFINE y == n * f
<1>5. AccAfter(c, v, n) = IF c.test[v] THEN x ELSE (x + y) % h
  BY DEF AccAfter
<1>6. x \in Accumulator
  BY <1>1
<1> HIDE DEF y, f, x, h
<1>7. y \in Int
  BY <1>3 DEF y
<1>8. (x + y) % h \in 0..(h - 1)
  <2>1. x + y \in Int /\ h \in Nat \ {0}
    BY <1>3, <1>4, <1>7
  <2> DEFINE z == x + y
  <2> HIDE DEF z
  <2>2. z % h \in 0..(h - 1)
    BY <2>1 DEF z
  <2> QED
    BY <2>2 DEF z
<1> QED
  BY <1>4, <1>5, <1>6, <1>8

\* The chip n cycles on, before any restart.
LEMMA ClockedVoices ==
  ASSUME NEW c \in Voices, NEW n \in Nat
  PROVE  LET d == [ClockVoices(c, n) EXCEPT !.next = @ - n]
         IN  /\ d \in Unsynced
             /\ d.acc = [v \in Voice |-> AccAfter(c, v, n)]
             /\ d.rising = [v \in Voice |-> IF c.test[v] THEN c.rising[v] ELSE RisesAt(c, v, n)]
             /\ d.freq = c.freq /\ d.test = c.test /\ d.sync = c.sync /\ d.next = c.next - n
<1> DEFINE d == [ClockVoices(c, n) EXCEPT !.next = @ - n]
           acc == [v \in Voice |-> AccAfter(c, v, n)]
           rising == [v \in Voice |-> IF c.test[v] THEN c.rising[v] ELSE RisesAt(c, v, n)]
<1>1. c \in Unsynced /\ c.next \in 1..Never
  BY VoicesUnsynced
<1>2. acc \in [Voice -> Accumulator]
  BY <1>1, AccAfterOK
<1>3. rising \in [Voice -> BOOLEAN]
  <2>1. \A v \in Voice : c.rising[v] \in BOOLEAN
    BY <1>1 DEF Unsynced
  <2>2. \A v \in Voice : RisesAt(c, v, n) \in BOOLEAN
    BY DEF RisesAt
  <2> QED
    BY <2>1, <2>2
<1>4. d = [acc |-> acc, rising |-> rising, freq |-> c.freq, test |-> c.test, sync |-> c.sync,
           next |-> c.next - n]
  <2>1. ClockVoices(c, n) = [c EXCEPT !.acc = acc, !.rising = rising]
    BY DEF ClockVoices
  <2> HIDE DEF acc, rising, d
  <2>2. ClockVoices(c, n) = [acc |-> acc, rising |-> rising, freq |-> c.freq, test |-> c.test,
                             sync |-> c.sync, next |-> c.next]
    BY <1>1, <2>1 DEF Unsynced
  <2> QED
    BY <2>2 DEF d
<1> HIDE DEF d, acc, rising
<1>5. d \in Unsynced
  <2>1. /\ c.freq \in [Voice -> 0..MaxFreq] /\ c.test \in [Voice -> BOOLEAN]
        /\ c.sync \in [Voice -> BOOLEAN]
    BY <1>1 DEF Unsynced
  <2>2. c.next - n \in Int
    BY <1>1
  <2> QED
    BY <1>2, <1>3, <1>4, <2>1, <2>2 DEF Unsynced
<1>6. d.acc = acc /\ d.rising = rising /\ d.freq = c.freq /\ d.test = c.test /\ d.sync = c.sync
      /\ d.next = c.next - n
  BY <1>4
<1> QED
  BY <1>5, <1>6 DEF d, acc, rising

LEMMA SynchronizedVoices ==
  ASSUME NEW d \in Unsynced
  PROVE  /\ Synchronize(d) \in Unsynced
         /\ NextSync(Synchronize(d)).acc =
              [v \in Voice |-> IF d.rising[prev_v(v)] /\ d.sync[v] THEN 0 ELSE d.acc[v]]
<1> DEFINE zero == [v \in Voice |-> IF d.rising[prev_v(v)] /\ d.sync[v] THEN 0 ELSE d.acc[v]]
<1>1. zero \in [Voice -> Accumulator]
  BY WidthAssumption DEF Unsynced, Accumulator
<1>2. Synchronize(d) = [d EXCEPT !.acc = zero]
  BY DEF Synchronize, Unsynced
<1> HIDE DEF zero
<1>3. Synchronize(d) \in Unsynced /\ Synchronize(d).acc = zero
  BY <1>1, <1>2 DEF Unsynced
<1>4. NextSync(Synchronize(d)).acc = Synchronize(d).acc
  BY <1>3 DEF NextSync, Unsynced
<1> QED
  BY <1>3, <1>4 DEF zero

\* n cycles of every voice, and the restart they may end in.
LEMMA RunCyclesOK ==
  ASSUME NEW c \in Voices, NEW n \in Nat
  PROVE  RunCycles(c, n) \in Voices
<1> DEFINE d == [ClockVoices(c, n) EXCEPT !.next = @ - n]
<1>1. d \in Unsynced /\ d.next = c.next - n
  BY ClockedVoices
<1>2. RunCycles(c, n) = IF d.next <= 0 THEN NextSync(Synchronize(d)) ELSE d
  BY DEF RunCycles
<1> HIDE DEF d
<1>3. CASE d.next <= 0
  BY <1>1, <1>2, <1>3, SynchronizedVoices, NextSyncOK
<1>4. CASE ~(d.next <= 0)
  <2>1. d.next \in 1..Never
    <3>1. Never \in Nat
      BY DEF Never
    <3>2. c.next \in 1..Never
      BY VoicesUnsynced
    <3> QED
      BY <1>1, <1>4, <3>1, <3>2
  <2> QED
    BY <1>1, <1>2, <1>4, <2>1 DEF Unsynced, Voices
<1> QED
  BY <1>3, <1>4

\* A register write, whichever register it is to.
LEMMA ApplyWriteSyncs ==
  ASSUME NEW c \in Voices, NEW w, w.voice \in Voice, w.value \in 0..MaxFreq,
         w.reg \in {"freq", "sync", "test"}
  PROVE  \E d \in Unsynced : ApplyWrite(c, w) = NextSync(d)
<1> DEFINE freq == [c EXCEPT !.freq[w.voice] = w.value]
           sync == [c EXCEPT !.sync[w.voice] = w.value = 1]
           test == [c EXCEPT !.test[w.voice] = w.value = 1,
                             !.acc[w.voice] = IF w.value = 1 /\ ~c.test[w.voice] THEN 0 ELSE @]
<1>1. c \in Unsynced /\ 0 \in Accumulator
  BY VoicesUnsynced, WidthAssumption DEF Accumulator
<1>2. freq \in Unsynced
  BY <1>1 DEF Unsynced
<1>3. sync \in Unsynced
  <2>1. (w.value = 1) \in BOOLEAN
    OBVIOUS
  <2> DEFINE b == w.value = 1
  <2> HIDE DEF b
  <2>2. [c EXCEPT !.sync[w.voice] = b] \in Unsynced
    BY <1>1, <2>1 DEF Unsynced, b
  <2> QED
    BY <2>2 DEF b
<1>4. test \in Unsynced
  <2> DEFINE b == w.value = 1
             x == IF w.value = 1 /\ ~c.test[w.voice] THEN 0 ELSE c.acc[w.voice]
  <2>1. b \in BOOLEAN
    OBVIOUS
  <2>2. x \in Accumulator
    BY <1>1 DEF Unsynced
  <2>3. test = [c EXCEPT !.test[w.voice] = b, !.acc[w.voice] = x]
    BY <1>1 DEF Unsynced
  <2> HIDE DEF b, x
  <2>4. [c EXCEPT !.test[w.voice] = b, !.acc[w.voice] = x] \in Unsynced
    BY <1>1, <2>1, <2>2 DEF Unsynced
  <2> QED
    BY <2>3, <2>4
<1>5. ApplyWrite(c, w) \in {NextSync(freq), NextSync(sync), NextSync(test)}
  BY DEF ApplyWrite
<1> HIDE DEF freq, sync, test
<1> QED
  BY <1>2, <1>3, <1>4, <1>5

LEMMA ApplyWriteOK ==
  ASSUME NEW c \in Voices, NEW w, w.voice \in Voice, w.value \in 0..MaxFreq,
         w.reg \in {"freq", "sync", "test"}
  PROVE  ApplyWrite(c, w) \in Voices
BY ApplyWriteSyncs, NextSyncOK

\* A chip after a reset.
LEMMA VoicesResetOK == VoicesReset \in Voices
<1>1. (2 * Half) \div 3 \in Accumulator /\ 0 \in 0..MaxFreq
  <2>1. 2 * Half \in Nat \ {0} /\ MaxFreq \in Nat
    BY WidthAssumption
  <2> DEFINE h == 2 * Half
  <2> HIDE DEF h
  <2>2. h \div 3 \in 0..(h - 1)
    BY <2>1 DEF h
  <2> QED
    BY <2>1, <2>2 DEF Accumulator, h
<1>2. Never \in 1..Never
  BY DEF Never
<1> QED
  BY <1>1, <1>2 DEF VoicesReset, Voices

-----------------------------------------------------------------------------
(* The queue. *)

\* What Bounded keeps of a queue and what it drops.
LEMMA BoundedOK ==
  ASSUME NEW q \in Seq(Queued), Len(q) <= max_queued
  PROVE  \E k \in 0..Len(q) :
           /\ Bounded(q) \in Seq(Queued) /\ Len(Bounded(q)) = Len(q) - k
           /\ Len(Bounded(q)) < max_queued
           /\ \A i \in 1..(Len(q) - k) : Bounded(q)[i] = q[i + k]
           /\ Dropped(q) \in Seq(Queued) /\ Len(Dropped(q)) = k
           /\ \A i \in 1..k : Dropped(q)[i] = q[i]
<1>1. Len(q) \in Nat /\ max_queued \in Nat /\ max_queued >= 2
  BY QueueAssumption
<1>2. CASE Len(q) >= max_queued
  <2> DEFINE k == max_queued \div 2
  <2>1. k \in 1..Len(q)
    BY <1>1, <1>2
  <2>2. Bounded(q) = SubSeq(q, k + 1, Len(q)) /\ Dropped(q) = SubSeq(q, 1, k)
    BY <1>2 DEF Bounded, Dropped
  <2> HIDE DEF k
  <2>3. \A i \in 1..Len(q) : q[i] \in Queued
    OBVIOUS
  <2>4. /\ SubSeq(q, k + 1, Len(q)) \in Seq(Queued)
        /\ Len(SubSeq(q, k + 1, Len(q))) = Len(q) - k
        /\ \A i \in 1..(Len(q) - k) : SubSeq(q, k + 1, Len(q))[i] = q[i + k]
    BY <1>1, <2>1, <2>3
  <2>5. /\ SubSeq(q, 1, k) \in Seq(Queued) /\ Len(SubSeq(q, 1, k)) = k
        /\ \A i \in 1..k : SubSeq(q, 1, k)[i] = q[i]
    BY <1>1, <2>1, <2>3
  <2>6. Len(Bounded(q)) < max_queued
    BY <1>1, <1>2, <2>1, <2>2, <2>4
  <2> QED
    BY <2>1, <2>2, <2>4, <2>5, <2>6
<1>3. CASE ~(Len(q) >= max_queued)
  <2>1. Bounded(q) = q /\ Dropped(q) = <<>>
    BY <1>3 DEF Bounded, Dropped
  <2>2. 0 \in 0..Len(q) /\ Len(q) < max_queued /\ Len(<<>>) = 0 /\ <<>> \in Seq(Queued)
    BY <1>1, <1>3
  <2>3. \A i \in 1..(Len(q) - 0) : q[i] = q[i + 0]
    BY <1>1
  <2> QED
    BY <1>1, <2>1, <2>2, <2>3
<1> QED
  BY <1>2, <1>3

-----------------------------------------------------------------------------
(* The invariant. *)

\* While clock is at work it is inside its span, and past the start no write is late.
InSpan ==
  rendering # Idle =>
    /\ rendering.start <= rendering.at /\ rendering.at < rendering.end
    /\ rendering.at # rendering.start =>
         \A i \in 1..Len(write_queue) : write_queue[i].cycle >= rendering.at

IInv == TypeOK /\ QueueInOrder /\ InSpan

\* clock runs a whole number of cycles, and over nothing that is to happen on the way.
LEMMA RunLengthOK ==
  ASSUME IInv, rendering # Idle, ~Due
  PROVE  /\ RunLength \in Nat \ {0}
         /\ RunLength <= rendering.end - rendering.at /\ RunLength <= voices.next
         /\ write_queue # <<>> => RunLength <= Head(write_queue).cycle - rendering.at
<1> DEFINE T == {rendering.end - rendering.at, voices.next}
                  \cup (IF write_queue = <<>> THEN {} ELSE {Head(write_queue).cycle - rendering.at})
<1>1. rendering.end - rendering.at \in Nat \ {0}
  BY DEF IInv, TypeOK, InSpan
<1>2. voices.next \in Nat \ {0}
  <2>1. Never \in Nat
    BY DEF Never
  <2>2. voices.next \in 1..Never
    BY VoicesUnsynced DEF IInv, TypeOK
  <2> QED
    BY <2>1, <2>2
<1>3. write_queue # <<>> => Head(write_queue).cycle - rendering.at \in Nat \ {0}
  <2> SUFFICES ASSUME write_queue # <<>>
               PROVE  Head(write_queue).cycle - rendering.at \in Nat \ {0}
    OBVIOUS
  <2>1. Head(write_queue) \in Queued /\ rendering.at \in Nat
    BY DEF IInv, TypeOK
  <2>2. Head(write_queue).cycle \in Nat
    BY <2>1 DEF Queued
  <2>3. ~(Head(write_queue).cycle <= rendering.at)
    BY DEF Due, IsDue
  <2> QED
    BY <2>1, <2>2, <2>3
<1>4. T \in SUBSET Nat /\ T # {} /\ 0 \notin T
  BY <1>1, <1>2, <1>3
<1>5. RunLength = Min(T)
  BY DEF RunLength
<1>6. /\ rendering.end - rendering.at \in T /\ voices.next \in T
      /\ write_queue # <<>> => Head(write_queue).cycle - rendering.at \in T
  OBVIOUS
<1> HIDE DEF T
<1>7. Min(T) \in T /\ \A j \in T : Min(T) <= j
  BY <1>4, MinOK
<1>8. RunLength \in T /\ \A j \in T : RunLength <= j
  BY <1>5, <1>7
<1> QED
  BY <1>4, <1>6, <1>8

\* What is queued, by its index.
LEMMA QueuedOK ==
  ASSUME TypeOK
  PROVE  \A i \in 1..Len(write_queue) : write_queue[i] \in Queued /\ write_queue[i].cycle \in Nat
<1>1. \A i \in 1..Len(write_queue) : write_queue[i] \in Queued
  BY DEF TypeOK
<1> QED
  BY <1>1 DEF Queued

\* No queued write is passed by a run.
LEMMA NothingPassed ==
  ASSUME IInv, ClockRuns
  PROVE  \A i \in 1..Len(write_queue) : write_queue[i].cycle >= rendering.at + RunLength
<1> SUFFICES ASSUME NEW i \in 1..Len(write_queue)
             PROVE  write_queue[i].cycle >= rendering.at + RunLength
  OBVIOUS
<1> DEFINE n == RunLength
<1>1. n \in Nat \ {0} /\ (write_queue # <<>> => n <= Head(write_queue).cycle - rendering.at)
  BY RunLengthOK DEF ClockRuns
<1> HIDE DEF n
<1>2. /\ write_queue # <<>> /\ Head(write_queue) = write_queue[1] /\ 1 \in 1..Len(write_queue)
      /\ write_queue[1].cycle \in Nat /\ write_queue[i].cycle \in Nat /\ rendering.at \in Nat
  <2>1. write_queue \in Seq(Queued) /\ rendering.at \in Nat
    BY DEF IInv, TypeOK
  <2>2. write_queue # <<>> /\ Head(write_queue) = write_queue[1] /\ 1 \in 1..Len(write_queue)
    BY <2>1
  <2> QED
    BY <2>1, <2>2, QueuedOK DEF IInv
<1>3. write_queue[1].cycle >= rendering.at + n
  BY <1>1, <1>2
<1>4. write_queue[1].cycle <= write_queue[i].cycle
  <2>1. CASE i = 1
    BY <1>2, <2>1
  <2>2. CASE i # 1
    BY <1>2, <2>2 DEF IInv, QueueInOrder
  <2> QED
    BY <2>1, <2>2
<1>5. write_queue[i].cycle >= rendering.at + n
  BY <1>1, <1>2, <1>3, <1>4
<1> QED
  BY <1>5 DEF n

\* The initial states.
LEMMA InitIInv == Init => IInv
<1> SUFFICES ASSUME Init PROVE IInv
  OBVIOUS
<1>1. 0 \in 0..MaxFreq /\ max_queued >= 0
  BY WidthAssumption, QueueAssumption
<1>2. [r \in Reg |-> 0] \in [Reg -> 0..MaxFreq] /\ <<>> \in Seq(Queued)
      /\ Idle \in [at : Nat, start : Nat, end : Nat]
  BY <1>1 DEF Idle
<1>3. TypeOK
  <2>1. voices \in Voices
    BY VoicesResetOK DEF Init
  <2>2. clock_ticks \in Nat /\ audio_cycle \in 0..clock_ticks
    BY DEF Init
  <2>3. write_queue \in Seq(Queued) /\ rendering \in [at : Nat, start : Nat, end : Nat]
        /\ sid_regs \in [Reg -> 0..MaxFreq] /\ chip_regs \in [Reg -> 0..MaxFreq]
    BY <1>2 DEF Init
  <2>4. audio_enabled \in BOOLEAN /\ lost \subseteq Reg
    BY DEF Init
  <2> QED
    BY <2>1, <2>2, <2>3, <2>4 DEF TypeOK
<1> QED
  BY <1>1, <1>3 DEF Init, IInv, QueueInOrder, InSpan

\* Every step keeps the queue in order and clock inside its span.
LEMMA StepIInv == IInv /\ [Next]_vars => IInv'
<1> SUFFICES ASSUME IInv, [Next]_vars PROVE IInv'
  OBVIOUS
<1> USE DEF IInv
<1>1. ASSUME NEW n \in 1..MaxBurst, CpuRuns(n) PROVE IInv'
  <2>1. n \in Nat
    BY ProgramsAssumption
  <2>2. \A i \in 1..Len(write_queue) : write_queue[i].cycle \in Nat
    BY QueuedOK
  <2>3. TypeOK'
    BY <1>1, <2>1 DEF CpuRuns, TypeOK
  <2>4. clock_ticks \in Nat /\ clock_ticks' = clock_ticks + n /\ write_queue' = write_queue
    BY <1>1 DEF CpuRuns, TypeOK
  <2>5. QueueInOrder'
    BY <2>1, <2>2, <2>4 DEF QueueInOrder
  <2> QED
    BY <1>1, <2>3, <2>5 DEF CpuRuns, InSpan
<1>2. ASSUME NEW p \in Programs, SidWrite(p[1], p[2]) PROVE IInv'
  <2> DEFINE w == Write(p[1], p[2], clock_ticks)
  <2>1. p[1] \in Reg /\ p[2] \in 0..MaxFreq
    BY ProgramsAssumption
  <2>2. w \in Queued /\ w.cycle = clock_ticks /\ w.voice \in Voice /\ w.value \in 0..MaxFreq
        /\ w.reg \in {"freq", "sync", "test"}
    BY <2>1 DEF Write, Queued, Reg, TypeOK
  <2>3. rendering = Idle /\ rendering' = Idle /\ clock_ticks' = clock_ticks
        /\ audio_enabled' = audio_enabled /\ audio_cycle' = audio_cycle
        /\ sid_regs' = [sid_regs EXCEPT ![p[1]] = p[2]]
    BY <1>2 DEF SidWrite
  <2>4. sid_regs' \in [Reg -> 0..MaxFreq]
    BY <2>1, <2>3 DEF TypeOK
  <2> HIDE DEF w
  <2>5. CASE audio_enabled
    <3> DEFINE b == Bounded(write_queue)
    <3>1. write_queue' = Append(b, w) /\ voices' = voices /\ chip_regs' = chip_regs
          /\ lost' = (lost \cup RegsIn(Dropped(write_queue))) \ RegsIn(write_queue')
      BY <1>2, <2>5 DEF SidWrite, w
    <3>2. PICK k \in 0..Len(write_queue) :
            /\ b \in Seq(Queued) /\ Len(b) = Len(write_queue) - k /\ Len(b) < max_queued
            /\ \A i \in 1..(Len(write_queue) - k) : b[i] = write_queue[i + k]
            /\ Dropped(write_queue) \in Seq(Queued)
      BY BoundedOK DEF TypeOK, QueueInOrder
    <3> HIDE DEF b
    <3>a. Len(b) \in Nat /\ k \in Nat /\ Len(write_queue) \in Nat /\ clock_ticks \in Nat
      BY <3>2 DEF TypeOK
    <3>b. \A i \in 1..Len(write_queue) : write_queue[i].cycle \in Nat
      BY QueuedOK
    <3>3. lost' \subseteq Reg
      <4>1. \A i \in DOMAIN Dropped(write_queue) : Dropped(write_queue)[i] \in Queued
        BY <3>2
      <4>2. RegsIn(Dropped(write_queue)) \subseteq Reg
        BY <4>1 DEF RegsIn, RegOf, Queued, Reg
      <4> QED
        BY <3>1, <4>2 DEF TypeOK
    <3>4. write_queue' \in Seq(Queued)
      BY <2>2, <3>1, <3>2
    <3>5. TypeOK'
      BY <2>3, <2>4, <3>1, <3>3, <3>4 DEF TypeOK
    <3>6. /\ Len(write_queue') = Len(b) + 1
          /\ \A i \in 1..Len(b) : write_queue'[i] = write_queue[i + k]
          /\ write_queue'[Len(b) + 1] = w
      <4>1. /\ Len(Append(b, w)) = Len(b) + 1 /\ Append(b, w)[Len(b) + 1] = w
            /\ \A i \in 1..Len(b) : Append(b, w)[i] = b[i]
        BY <2>2, <3>2
      <4> QED
        BY <3>1, <3>2, <3>a, <4>1
    <3>7. QueueInOrder'
      <4>1. Len(write_queue') <= max_queued
        BY <3>2, <3>6, QueueAssumption
      <4>2. \A i \in 1..Len(write_queue') : write_queue'[i].cycle <= clock_ticks'
        <5> SUFFICES ASSUME NEW i \in 1..Len(write_queue')
                     PROVE  write_queue'[i].cycle <= clock_ticks
          BY <2>3
        <5>1. CASE i = Len(b) + 1
          <6>1. write_queue'[i] = w
            BY <3>6, <5>1
          <6>2. w.cycle = clock_ticks /\ clock_ticks \in Nat
            BY <2>2, <3>a
          <6> QED
            BY <6>1, <6>2
        <5>2. CASE i # Len(b) + 1
          <6>1. i \in 1..Len(b) /\ i + k \in 1..Len(write_queue)
            BY <3>2, <3>6, <3>a, <5>2
          <6> QED
            BY <3>6, <6>1 DEF QueueInOrder
        <5> QED
          BY <5>1, <5>2
      <4>3. ASSUME NEW i \in 1..Len(write_queue'), NEW j \in 1..Len(write_queue'), i < j
            PROVE  write_queue'[i].cycle <= write_queue'[j].cycle
        <5>1. i \in 1..Len(b) /\ i + k \in 1..Len(write_queue)
          BY <3>2, <3>6, <3>a, <4>3
        <5>2. CASE j = Len(b) + 1
          BY <2>2, <2>3, <3>6, <4>2, <5>1, <5>2
        <5>3. CASE j # Len(b) + 1
          <6>1. j \in 1..Len(b) /\ j + k \in 1..Len(write_queue) /\ i + k < j + k
            <7>1. j \in 1..Len(b)
              BY <3>6, <3>a, <4>3, <5>3
            <7>2. i \in Nat /\ Len(b) = Len(write_queue) - k
              BY <3>2, <5>1
            <7> QED
              BY <3>a, <4>3, <7>1, <7>2
          <6>2. write_queue[i + k].cycle <= write_queue[j + k].cycle
            BY <5>1, <6>1 DEF QueueInOrder
          <6> QED
            BY <3>6, <5>1, <6>1, <6>2
        <5> QED
          BY <5>2, <5>3
      <4> QED
        BY <4>1, <4>2, <4>3 DEF QueueInOrder
    <3> QED
      BY <2>3, <3>5, <3>7 DEF InSpan
  <2>6. CASE ~audio_enabled
    <3>1. voices' = ApplyWrite(voices, w) /\ chip_regs' = [chip_regs EXCEPT ![p[1]] = p[2]]
          /\ write_queue' = write_queue /\ lost' = lost
      BY <1>2, <2>6 DEF SidWrite, w
    <3>2. voices' \in Voices
      BY <2>2, <3>1, ApplyWriteOK DEF TypeOK
    <3> QED
      BY <2>1, <2>3, <2>4, <3>1, <3>2 DEF TypeOK, QueueInOrder, InSpan
  <2> QED
    BY <2>5, <2>6 DEF TypeOK
<1>3. ASSUME NEW on \in BOOLEAN, SetAudioEnabled(on) PROVE IInv'
  BY <1>3 DEF SetAudioEnabled, TypeOK, QueueInOrder, InSpan
<1>4. ASSUME Reset PROVE IInv'
  <2>1. 0 \in 0..MaxFreq /\ max_queued >= 0
    BY WidthAssumption, QueueAssumption
  <2>2. TypeOK'
    BY <1>4, <2>1, VoicesResetOK DEF Reset, TypeOK
  <2> QED
    BY <1>4, <2>1, <2>2 DEF Reset, QueueInOrder, InSpan
<1>5. ASSUME GenerateAudio PROVE IInv'
  <2> DEFINE T == {clock_ticks - audio_cycle, max_cycles}
             n == Min(T)
  <2>1. T \in SUBSET Nat /\ T # {}
    BY QueueAssumption DEF TypeOK
  <2>2. n \in Nat
    BY <2>1, MinOK
  <2>3. rendering' = IF n <= 0 THEN Idle
                     ELSE [at |-> audio_cycle, start |-> audio_cycle, end |-> audio_cycle + n]
    BY <1>5 DEF GenerateAudio
  <2> HIDE DEF n
  <2>4. rendering' \in [at : Nat, start : Nat, end : Nat]
    BY <2>2, <2>3 DEF TypeOK, Idle
  <2>5. TypeOK'
    BY <1>5, <2>4 DEF GenerateAudio, TypeOK
  <2>6. InSpan'
    BY <2>2, <2>3 DEF InSpan, TypeOK
  <2> QED
    BY <1>5, <2>5, <2>6 DEF GenerateAudio, QueueInOrder
<1>6. ASSUME ClockApplies PROVE IInv'
  <2> DEFINE w == Head(write_queue)
  <2>1. write_queue # <<>> /\ rendering # Idle /\ write_queue' = Tail(write_queue)
        /\ voices' = ApplyWrite(voices, w)
        /\ chip_regs' = [chip_regs EXCEPT ![RegOf(w)] = w.value]
    BY <1>6 DEF ClockApplies, Due
  <2>2. w \in Queued
    BY <2>1 DEF TypeOK
  <2> HIDE DEF w
  <2>3. voices' \in Voices
    BY <2>1, <2>2, ApplyWriteOK DEF TypeOK, Queued
  <2>4. write_queue' \in Seq(Queued) /\ Len(write_queue') = Len(write_queue) - 1
        /\ \A i \in 1..Len(write_queue') : write_queue'[i] = write_queue[i + 1]
    BY <2>1 DEF TypeOK
  <2>5. chip_regs' \in [Reg -> 0..MaxFreq]
    BY <2>1, <2>2 DEF TypeOK, Queued, RegOf, Reg
  <2>6. TypeOK'
    BY <1>6, <2>3, <2>4, <2>5 DEF ClockApplies, TypeOK
  <2>7. QueueInOrder'
    BY <1>6, <2>4, QueueAssumption DEF ClockApplies, QueueInOrder, TypeOK
  <2>8. InSpan'
    BY <1>6, <2>4 DEF ClockApplies, InSpan, TypeOK
  <2> QED
    BY <2>6, <2>7, <2>8
<1>7. ASSUME ClockRuns PROVE IInv'
  <2> DEFINE n == RunLength
             u == rendering.at + n
  <2>1. /\ n \in Nat \ {0} /\ n <= rendering.end - rendering.at
        /\ write_queue # <<>> => n <= Head(write_queue).cycle - rendering.at
        /\ rendering # Idle
    BY <1>7, RunLengthOK DEF ClockRuns
  <2>2. voices' = RunCycles(voices, n)
        /\ rendering' = IF u >= rendering.end THEN Idle ELSE [rendering EXCEPT !.at = u]
    BY <1>7, <2>1 DEF ClockRuns
  <2> HIDE DEF n
  <2>3. voices' \in Voices
    BY <2>1, <2>2, RunCyclesOK DEF TypeOK
  <2>4. rendering' \in [at : Nat, start : Nat, end : Nat]
    BY <2>1, <2>2 DEF TypeOK, Idle
  <2>5. TypeOK'
    BY <1>7, <2>3, <2>4 DEF ClockRuns, TypeOK
  <2>6. \A i \in 1..Len(write_queue) : write_queue[i].cycle >= u
    BY <1>7, NothingPassed DEF n
  <2>7. InSpan'
    <3>1. CASE u >= rendering.end
      BY <2>2, <3>1 DEF InSpan
    <3>2. CASE ~(u >= rendering.end)
      <4>1. rendering' = [rendering EXCEPT !.at = u] /\ write_queue' = write_queue
        BY <1>7, <2>2, <3>2 DEF ClockRuns
      <4>2. rendering'.at = u /\ rendering'.start = rendering.start /\ rendering'.end = rendering.end
        BY <4>1 DEF TypeOK
      <4> QED
        BY <2>1, <2>6, <3>2, <4>1, <4>2 DEF InSpan, TypeOK
    <3> QED
      BY <3>1, <3>2
  <2> QED
    BY <1>7, <2>5, <2>7 DEF ClockRuns, QueueInOrder
<1>8. CASE UNCHANGED vars
  BY <1>8 DEF vars, TypeOK, QueueInOrder, InSpan
<1> QED
  BY <1>1, <1>2, <1>3, <1>4, <1>5, <1>6, <1>7, <1>8 DEF Next

\* Every counter stays in its range and the accumulators in their width, whatever the
\* frequencies, writes and spans.
THEOREM AudioTypeCorrect == Spec => []TypeOK
<1>1. IInv => TypeOK
  BY DEF IInv
<1> QED
  BY InitIInv, StepIInv, <1>1, PTL DEF Spec

\* The queue of sid_chip is bounded and in the order of its cycles, whatever is dropped,
\* reset or replayed.
THEOREM QueueOrdered == Spec => []QueueInOrder
<1>1. IInv => QueueInOrder
  BY DEF IInv
<1> QED
  BY InitIInv, StepIInv, <1>1, PTL DEF Spec

\* A write made while sound is rendered takes effect at its own cycle, or at the start of
\* the span if it is older, and none is left behind.
THEOREM WritesAtTheirCycle == Spec => CycleAccurate
<1> DEFINE A == /\ ClockApplies =>
                     Head(write_queue).cycle = rendering.at \/ rendering.at = rendering.start
                /\ ClockRuns => \A i \in DOMAIN write_queue :
                     write_queue[i].cycle >= IF rendering' = Idle THEN rendering.end ELSE rendering'.at
<1>1. IInv /\ [Next]_vars => [A]_vars
  <2> SUFFICES ASSUME IInv PROVE A
    OBVIOUS
  <2>1. DOMAIN write_queue = 1..Len(write_queue) /\ rendering \in [at : Nat, start : Nat, end : Nat]
    BY DEF IInv, TypeOK
  <2>2. ASSUME ClockApplies
        PROVE  Head(write_queue).cycle = rendering.at \/ rendering.at = rendering.start
    <3>1. /\ write_queue # <<>> /\ rendering # Idle
          /\ Head(write_queue).cycle <= rendering.at
      BY <2>2 DEF ClockApplies, Due, IsDue
    <3>2. Head(write_queue) = write_queue[1] /\ 1 \in 1..Len(write_queue)
      BY <3>1 DEF IInv, TypeOK
    <3>3. write_queue[1].cycle \in Nat
      BY <3>2, QueuedOK DEF IInv
    <3>4. rendering.at # rendering.start => write_queue[1].cycle >= rendering.at
      BY <3>1, <3>2 DEF IInv, InSpan
    <3> QED
      BY <2>1, <3>1, <3>2, <3>3, <3>4
  <2>3. ASSUME ClockRuns
        PROVE  \A i \in DOMAIN write_queue :
                 write_queue[i].cycle >= IF rendering' = Idle THEN rendering.end ELSE rendering'.at
    <3> DEFINE n == RunLength
               u == rendering.at + n
    <3>1. n \in Nat \ {0}
      BY <2>3, RunLengthOK DEF ClockRuns
    <3>2. rendering' = IF u >= rendering.end THEN Idle ELSE [rendering EXCEPT !.at = u]
      BY <2>3, <3>1 DEF ClockRuns
    <3>3. \A i \in 1..Len(write_queue) : write_queue[i].cycle \in Nat /\ write_queue[i].cycle >= u
      BY <2>3, NothingPassed, QueuedOK DEF IInv
    <3> HIDE DEF n
    <3>4. u \in Nat /\ rendering.end \in Nat
      BY <2>1, <3>1
    <3>5. u >= IF rendering' = Idle THEN rendering.end ELSE rendering'.at
      <4>1. CASE u >= rendering.end
        BY <3>2, <3>4, <4>1
      <4>2. CASE ~(u >= rendering.end)
        <5>1. rendering'.at = u /\ rendering'.end = rendering.end
          BY <2>1, <3>2, <4>2
        <5>2. rendering' # Idle
          BY <3>4, <4>2, <5>1 DEF Idle
        <5> QED
          BY <3>4, <5>1, <5>2
      <4> QED
        BY <4>1, <4>2
    <3>6. (IF rendering' = Idle THEN rendering.end ELSE rendering'.at) \in Nat
      BY <2>1, <3>2, <3>4 DEF Idle
    <3> QED
      BY <2>1, <3>3, <3>4, <3>5, <3>6
  <2> QED
    BY <2>2, <2>3
<1>2. CycleAccurate <=> [][A]_vars
  BY DEF CycleAccurate
<1> HIDE DEF A
<1> QED
  BY InitIInv, StepIInv, <1>1, <1>2, PTL DEF Spec

-----------------------------------------------------------------------------
(* The chip's registers. *)

\* A register lost to the bound has no write left in the queue, and while audio is off
\* there is no queue.
ChipInv ==
  /\ IInv /\ ChipFollows
  /\ lost \cap RegsIn(write_queue) = {}
  /\ ~audio_enabled => write_queue = <<>>

\* The last write to a register carries its value.
Carried(r) == \E i \in DOMAIN write_queue : LastWrite(r, i) /\ write_queue[i].value = sid_regs[r]

\* The indices of a queue.
LEMMA DomainOK ==
  ASSUME NEW q \in Seq(Queued)
  PROVE  DOMAIN q = 1..Len(q) /\ Len(q) \in Nat
OBVIOUS

\* A write that is queued becomes the last to its register, and the bound drops whole the
\* registers it drops the last write of.
LEMMA QueuedChip ==
  ASSUME ChipInv, IInv', NEW p \in Programs, SidWrite(p[1], p[2]), audio_enabled
  PROVE  ChipInv'
<1> DEFINE b == Bounded(write_queue)
           w == Write(p[1], p[2], clock_ticks)
<1>1. /\ write_queue' = Append(b, w) /\ chip_regs' = chip_regs /\ audio_enabled' = audio_enabled
      /\ lost' = (lost \cup RegsIn(Dropped(write_queue))) \ RegsIn(write_queue')
      /\ sid_regs' = [sid_regs EXCEPT ![p[1]] = p[2]]
  BY DEF SidWrite
<1>2. p[1] \in Reg /\ RegOf(w) = p[1] /\ w.value = p[2] /\ w \in Queued
  BY ProgramsAssumption DEF RegOf, Write, Reg, ChipInv, IInv, TypeOK, Queued
<1>3. write_queue \in Seq(Queued) /\ Len(write_queue) <= max_queued
      /\ sid_regs \in [Reg -> 0..MaxFreq]
  BY DEF ChipInv, IInv, TypeOK, QueueInOrder
<1>4. PICK k \in 0..Len(write_queue) :
        /\ b \in Seq(Queued) /\ Len(b) = Len(write_queue) - k
        /\ \A i \in 1..(Len(write_queue) - k) : b[i] = write_queue[i + k]
        /\ Dropped(write_queue) \in Seq(Queued) /\ Len(Dropped(write_queue)) = k
        /\ \A i \in 1..k : Dropped(write_queue)[i] = write_queue[i]
  BY <1>3, BoundedOK
<1> HIDE DEF b, w
<1> DEFINE n == Len(b)
           q == write_queue
<1>5. /\ n \in Nat /\ k \in Nat /\ Len(q) = n + k
      /\ DOMAIN q = 1..(n + k) /\ DOMAIN q' = 1..(n + 1)
      /\ q'[n + 1] = w
      /\ \A i \in 1..n : q'[i] = q[i + k]
  <2>1. /\ Append(b, w) \in Seq(Queued) /\ Len(Append(b, w)) = n + 1 /\ Append(b, w)[n + 1] = w
        /\ \A i \in 1..n : Append(b, w)[i] = b[i]
    BY <1>2, <1>4
  <2>2. DOMAIN q = 1..Len(q) /\ DOMAIN Append(b, w) = 1..(n + 1) /\ Len(q) \in Nat
    BY <1>3, <2>1, DomainOK
  <2> QED
    BY <1>1, <1>4, <2>1, <2>2
<1>6. \A i \in 1..k : RegOf(q[i]) \in RegsIn(Dropped(q))
  <2>1. DOMAIN Dropped(q) = 1..k
    BY <1>4, DomainOK
  <2> QED
    BY <1>4, <2>1 DEF RegsIn
<1>7. \A r : r \in RegsIn(write_queue') <=> \E i \in 1..(n + 1) : RegOf(write_queue'[i]) = r
  BY <1>5 DEF RegsIn
<1>8. \A r : r \in RegsIn(q) <=> \E i \in 1..(n + k) : RegOf(q[i]) = r
  BY <1>5 DEF RegsIn
<1> HIDE DEF n
<1>9. ASSUME NEW r \in Reg, r \notin lost',
             IF r \in RegsIn(write_queue') THEN ~Carried(r)' ELSE chip_regs'[r] # sid_regs'[r]
      PROVE  FALSE
  <2>1. CASE r = p[1]
    <3>1. n + 1 \in DOMAIN write_queue' /\ RegOf(write_queue'[n + 1]) = r
          /\ write_queue'[n + 1].value = sid_regs'[r]
      BY <1>1, <1>2, <1>3, <1>5, <2>1
    <3>2. \A j \in DOMAIN write_queue' : ~(j > n + 1)
      BY <1>5
    <3>3. r \in RegsIn(write_queue')
      BY <1>5, <1>7, <3>1
    <3> QED
      BY <1>9, <3>1, <3>2, <3>3 DEF Carried, LastWrite
  <2>2. CASE r # p[1]
    <3>1. sid_regs'[r] = sid_regs[r] /\ chip_regs'[r] = chip_regs[r]
      BY <1>1, <1>3, <2>2
    <3>2. r \in RegsIn(write_queue') => r \in RegsIn(q)
      <4> SUFFICES ASSUME NEW i \in 1..(n + 1), RegOf(write_queue'[i]) = r PROVE r \in RegsIn(q)
        BY <1>7
      <4>1. i \in 1..n /\ i + k \in 1..(n + k)
        BY <1>2, <1>5, <2>2
      <4> QED
        BY <1>5, <1>8, <4>1
    <3>3. r \notin lost
      BY <1>1, <1>9, <3>2 DEF ChipInv
    <3>4. CASE r \in RegsIn(q)
      <4>1. PICK i \in 1..(n + k) : LastWrite(r, i) /\ q[i].value = sid_regs[r]
        BY <1>5, <3>3, <3>4 DEF ChipInv, ChipFollows
      <4>2. RegOf(q[i]) = r /\ \A j \in 1..(n + k) : j > i => RegOf(q[j]) # r
        BY <1>5, <4>1 DEF LastWrite
      <4>3. CASE i > k
        <5>1. i - k \in 1..n /\ i - k \in 1..(n + 1) /\ (i - k) + k = i
          BY <1>5, <4>3
        <5>2. write_queue'[i - k] = q[i]
          BY <1>5, <5>1
        <5>3. \A j \in 1..(n + 1) : j > i - k => RegOf(write_queue'[j]) # r
          <6> SUFFICES ASSUME NEW j \in 1..(n + 1), j > i - k PROVE RegOf(write_queue'[j]) # r
            OBVIOUS
          <6>1. CASE j = n + 1
            BY <1>2, <1>5, <2>2, <6>1
          <6>2. CASE j # n + 1
            <7>1. j \in 1..n /\ j + k \in 1..(n + k) /\ j + k > i
              BY <1>5, <6>2
            <7> QED
              BY <1>5, <4>2, <7>1
          <6> QED
            BY <6>1, <6>2
        <5>4. Carried(r)'
          BY <1>5, <3>1, <4>1, <4>2, <5>1, <5>2, <5>3 DEF Carried, LastWrite
        <5>5. r \in RegsIn(write_queue')
          BY <1>7, <4>2, <5>1, <5>2
        <5> QED
          BY <1>9, <5>4, <5>5
      <4>4. CASE ~(i > k)
        <5>1. r \in RegsIn(Dropped(q))
          BY <1>5, <1>6, <4>2, <4>4
        <5>2. r \in RegsIn(write_queue')
          BY <1>1, <1>9, <5>1
        <5>3. PICK j \in 1..(n + 1) : RegOf(write_queue'[j]) = r
          BY <1>7, <5>2
        <5>4. j \in 1..n /\ j + k \in 1..(n + k) /\ j + k > i
          BY <1>2, <1>5, <2>2, <4>4, <5>3
        <5> QED
          BY <1>5, <4>2, <5>3, <5>4
      <4> QED
        BY <1>5, <4>3, <4>4
    <3>5. CASE r \notin RegsIn(q)
      BY <1>9, <3>1, <3>2, <3>3, <3>5 DEF ChipInv, ChipFollows
    <3> QED
      BY <3>4, <3>5
  <2> QED
    BY <2>1, <2>2
<1>10. ChipFollows'
  BY <1>9 DEF ChipFollows, Carried
<1> QED
  BY <1>1, <1>10 DEF ChipInv

\* A write that clock makes leaves the queue, and its register with its value if it was
\* the last one to it.
LEMMA AppliedChip ==
  ASSUME ChipInv, IInv', ClockApplies
  PROVE  ChipInv'
<1> DEFINE q == write_queue
           n == Len(q) - 1
<1>1. /\ q # <<>> /\ q \in Seq(Queued) /\ write_queue' = Tail(q)
      /\ chip_regs' = [chip_regs EXCEPT ![RegOf(Head(q))] = Head(q).value]
      /\ UNCHANGED <<sid_regs, lost, audio_enabled>>
      /\ chip_regs \in [Reg -> 0..MaxFreq]
  BY DEF ClockApplies, ChipInv, IInv, TypeOK
<1>2. /\ n \in Nat /\ Head(q) = q[1] /\ q[1] \in Queued
      /\ DOMAIN q = 1..(n + 1) /\ DOMAIN write_queue' = 1..n
      /\ \A i \in 1..n : write_queue'[i] = q[i + 1]
  <2>1. Tail(q) \in Seq(Queued) /\ Len(Tail(q)) = n /\ n \in Nat /\ Head(q) = q[1] /\ q[1] \in Queued
        /\ \A i \in 1..n : Tail(q)[i] = q[i + 1]
    BY <1>1
  <2> QED
    BY <1>1, <2>1, DomainOK
<1>3. RegOf(q[1]) \in Reg
  BY <1>2 DEF Queued, RegOf, Reg
<1>4. \A r : r \in RegsIn(write_queue') <=> \E i \in 1..n : RegOf(q[i + 1]) = r
  BY <1>2 DEF RegsIn
<1>5. \A r : r \in RegsIn(q) <=> \E i \in 1..(n + 1) : RegOf(q[i]) = r
  BY <1>2 DEF RegsIn
<1> HIDE DEF n
<1>6. RegsIn(write_queue') \subseteq RegsIn(q)
  <2> SUFFICES ASSUME NEW i \in 1..n PROVE RegOf(q[i + 1]) \in RegsIn(q)
    BY <1>4
  <2>1. i + 1 \in 1..(n + 1)
    BY <1>2
  <2> QED
    BY <1>5, <2>1
<1>7. ASSUME NEW r \in Reg, r \notin lost'
      PROVE  IF r \in RegsIn(write_queue') THEN Carried(r)' ELSE chip_regs'[r] = sid_regs'[r]
  <2>1. r \in RegsIn(q) => \E i \in 1..(n + 1) : LastWrite(r, i) /\ q[i].value = sid_regs[r]
    BY <1>1, <1>2, <1>7 DEF ChipInv, ChipFollows
  <2>2. r \notin RegsIn(q) => chip_regs[r] = sid_regs[r]
    BY <1>1, <1>7 DEF ChipInv, ChipFollows
  <2>3. CASE r \in RegsIn(write_queue')
    <3>1. PICK i \in 1..(n + 1) : LastWrite(r, i) /\ q[i].value = sid_regs[r]
      BY <1>6, <2>1, <2>3
    <3>2. RegOf(q[i]) = r /\ \A j \in 1..(n + 1) : j > i => RegOf(q[j]) # r
      BY <1>2, <3>1 DEF LastWrite
    <3>3. PICK j \in 1..n : RegOf(q[j + 1]) = r
      BY <1>4, <2>3
    <3>4. i # 1
      <4>1. j + 1 \in 1..(n + 1) /\ j + 1 > 1
        BY <1>2
      <4> QED
        BY <3>2, <3>3, <4>1
    <3>5. i - 1 \in 1..n /\ (i - 1) + 1 = i
      BY <1>2, <3>4
    <3>6. write_queue'[i - 1] = q[i]
      BY <1>2, <3>5
    <3>7. \A m \in 1..n : m > i - 1 => RegOf(write_queue'[m]) # r
      <4> SUFFICES ASSUME NEW m \in 1..n, m > i - 1 PROVE RegOf(write_queue'[m]) # r
        OBVIOUS
      <4>1. m + 1 \in 1..(n + 1) /\ m + 1 > i
        BY <1>2, <3>5
      <4> QED
        BY <1>2, <3>2, <4>1
    <3> QED
      BY <1>1, <1>2, <2>3, <3>1, <3>2, <3>5, <3>6, <3>7 DEF Carried, LastWrite
  <2>4. CASE r \notin RegsIn(write_queue')
    <3>1. CASE r = RegOf(q[1])
      <4>1. r \in RegsIn(q)
        <5>1. 1 \in 1..(n + 1)
          BY <1>2
        <5> QED
          BY <1>5, <3>1, <5>1
      <4>2. PICK i \in 1..(n + 1) : LastWrite(r, i) /\ q[i].value = sid_regs[r]
        BY <2>1, <4>1
      <4>3. i = 1
        <5> SUFFICES ASSUME i # 1 PROVE FALSE
          OBVIOUS
        <5>1. i - 1 \in 1..n /\ (i - 1) + 1 = i
          BY <1>2
        <5>2. RegOf(q[(i - 1) + 1]) = r
          BY <4>2, <5>1 DEF LastWrite
        <5> QED
          BY <1>4, <2>4, <5>1, <5>2
      <4>4. chip_regs'[r] = q[1].value
        BY <1>1, <1>2, <3>1
      <4> QED
        BY <1>1, <2>4, <4>2, <4>3, <4>4
    <3>2. CASE r # RegOf(q[1])
      <4>1. r \notin RegsIn(q)
        <5> SUFFICES ASSUME NEW i \in 1..(n + 1), RegOf(q[i]) = r PROVE FALSE
          BY <1>5
        <5>1. i # 1
          BY <3>2
        <5>2. i - 1 \in 1..n /\ (i - 1) + 1 = i
          BY <1>2, <5>1
        <5> QED
          BY <1>4, <2>4, <5>2
      <4>2. chip_regs'[r] = chip_regs[r]
        BY <1>1, <1>2, <3>2
      <4> QED
        BY <1>1, <2>2, <2>4, <4>1, <4>2
    <3> QED
      BY <3>1, <3>2
  <2> QED
    BY <2>3, <2>4
<1>8. ChipFollows'
  BY <1>7 DEF ChipFollows, Carried
<1>9. audio_enabled' = audio_enabled /\ (q = <<>> => write_queue' = <<>>)
  BY <1>1
<1>10. audio_enabled
  BY <1>1 DEF ChipInv
<1> QED
  BY <1>1, <1>6, <1>8, <1>9, <1>10 DEF ChipInv

\* A step that touches neither the registers nor the queue.
LEMMA UntouchedChip ==
  ASSUME ChipInv, IInv', UNCHANGED <<sid_regs, chip_regs, write_queue, lost>>,
         audio_enabled => audio_enabled'
  PROVE  ChipInv'
<1>1. ChipFollows'
  BY DEF ChipInv, ChipFollows, LastWrite
<1> QED
  BY <1>1 DEF ChipInv

\* Every step keeps the chip's registers following.
LEMMA StepChip ==
  ASSUME ~HostDisables, ChipInv, IInv', [Next]_vars
  PROVE  ChipInv'
<1>1. ASSUME NEW n \in 1..MaxBurst, CpuRuns(n) PROVE ChipInv'
  BY <1>1, UntouchedChip DEF CpuRuns
<1>2. ASSUME NEW p \in Programs, SidWrite(p[1], p[2]) PROVE ChipInv'
  <2>1. CASE audio_enabled
    BY <1>2, <2>1, QueuedChip
  <2>2. CASE ~audio_enabled
    <3>1. /\ write_queue = <<>> /\ write_queue' = write_queue /\ lost' = lost
          /\ audio_enabled' = audio_enabled
          /\ sid_regs' = [sid_regs EXCEPT ![p[1]] = p[2]]
          /\ chip_regs' = [chip_regs EXCEPT ![p[1]] = p[2]]
      BY <1>2, <2>2 DEF SidWrite, ChipInv
    <3>2. RegsIn(write_queue) = {} /\ RegsIn(write_queue') = {}
      BY <3>1 DEF RegsIn
    <3>3. \A r \in Reg \ lost : chip_regs[r] = sid_regs[r]
      BY <3>2 DEF ChipInv, ChipFollows
    <3>4. sid_regs \in [Reg -> 0..MaxFreq] /\ chip_regs \in [Reg -> 0..MaxFreq]
      BY DEF ChipInv, IInv, TypeOK
    <3>5. \A r \in Reg \ lost' : chip_regs'[r] = sid_regs'[r]
      BY <3>1, <3>3, <3>4
    <3>6. ChipFollows'
      BY <3>2, <3>5 DEF ChipFollows
    <3> QED
      BY <3>1, <3>2, <3>6 DEF ChipInv
  <2> QED
    BY <2>1, <2>2
<1>3. ASSUME NEW on \in BOOLEAN, SetAudioEnabled(on) PROVE ChipInv'
  BY <1>3, UntouchedChip DEF SetAudioEnabled
<1>4. ASSUME Reset PROVE ChipInv'
  <2>1. /\ write_queue' = <<>> /\ lost' = {}
        /\ sid_regs' = [r \in Reg |-> 0] /\ chip_regs' = [r \in Reg |-> 0]
    BY <1>4 DEF Reset
  <2>2. RegsIn(write_queue') = {}
    BY <2>1 DEF RegsIn
  <2>3. ChipFollows'
    BY <2>1, <2>2 DEF ChipFollows
  <2> QED
    BY <2>1, <2>2, <2>3 DEF ChipInv
<1>5. ASSUME GenerateAudio PROVE ChipInv'
  BY <1>5, UntouchedChip DEF GenerateAudio
<1>6. ASSUME ClockApplies PROVE ChipInv'
  BY <1>6, AppliedChip
<1>7. ASSUME ClockRuns PROVE ChipInv'
  BY <1>7, UntouchedChip DEF ClockRuns
<1>8. ASSUME UNCHANGED vars PROVE ChipInv'
  BY <1>8, UntouchedChip DEF vars
<1> QED
  BY <1>1, <1>2, <1>3, <1>4, <1>5, <1>6, <1>7, <1>8 DEF Next

\* The chip ends where the CPU put it, however many writes the bound drops on the way, as
\* long as the host does not switch audio off over a queue it has not played.
THEOREM ChipCorrect == ~HostDisables => (Spec => []ChipFollows)
<1> SUFFICES ASSUME ~HostDisables PROVE Spec => []ChipFollows
  OBVIOUS
<1>1. Init => ChipInv
  <2> SUFFICES ASSUME Init PROVE ChipInv
    OBVIOUS
  <2>1. write_queue = <<>> /\ lost = {} /\ sid_regs = chip_regs
    BY DEF Init
  <2>2. RegsIn(write_queue) = {}
    BY <2>1 DEF RegsIn
  <2> QED
    BY <2>1, <2>2, InitIInv DEF ChipInv, ChipFollows
<1>2. ~HostDisables /\ ChipInv /\ IInv' /\ [Next]_vars => ChipInv'
  BY StepChip
<1>3. ChipInv => ChipFollows
  BY DEF ChipInv
<1> QED
  BY InitIInv, StepIInv, <1>1, <1>2, <1>3, PTL DEF Spec

-----------------------------------------------------------------------------
(* Spans and single cycles. *)

\* i cycles and then j are i + j, of a chip d that is c but i cycles on.
LEMMA AccAdds ==
  ASSUME NEW c \in Unsynced, NEW d, NEW v \in Voice, NEW i \in Int, NEW j \in Int,
         d.acc[v] = AccAfter(c, v, i), d.freq[v] = c.freq[v], d.test[v] = c.test[v]
  PROVE  AccAfter(d, v, j) = AccAfter(c, v, i + j)
<1> DEFINE f == c.freq[v]
           a == c.acc[v]
           m == 2 * Half
           x == a + i * f
           y == j * f
<1>1. f \in Int /\ a \in Int /\ m \in Nat \ {0}
  BY WidthAssumption DEF Unsynced, Accumulator
<1>2. x \in Int /\ y \in Int /\ a + (i + j) * f = x + y
  <2> HIDE DEF f, a
  <2>1. i * f \in Int /\ j * f \in Int /\ (i + j) * f = i * f + j * f
    BY <1>1
  <2> QED
    BY <1>1, <2>1
<1>3. CASE c.test[v]
  BY <1>3 DEF AccAfter
<1>4. CASE ~c.test[v]
  <2>1. AccAfter(c, v, i) = x % m /\ AccAfter(d, v, j) = (d.acc[v] + y) % m
    BY <1>4 DEF AccAfter
  <2>2. AccAfter(c, v, i + j) = (a + (i + j) * f) % m
    BY <1>4 DEF AccAfter
  <2> HIDE DEF x, y, m
  <2>3. ((x % m) + y) % m = (x + y) % m
    BY <1>1, <1>2, ModAdds
  <2> QED
    BY <1>2, <2>1, <2>2, <2>3
<1> QED
  BY <1>3, <1>4

LEMMA RisesLater ==
  ASSUME NEW c \in Unsynced, NEW d, NEW v \in Voice, NEW i \in Int, NEW j \in Int,
         d.acc[v] = AccAfter(c, v, i), d.freq[v] = c.freq[v], d.test[v] = c.test[v]
  PROVE  RisesAt(d, v, j) <=> RisesAt(c, v, i + j)
<1> DEFINE h == j - 1
<1>1. h \in Int /\ i + h = (i + j) - 1
  OBVIOUS
<1> HIDE DEF h
<1>2. AccAfter(d, v, h) = AccAfter(c, v, i + h) /\ AccAfter(d, v, j) = AccAfter(c, v, i + j)
  BY <1>1, AccAdds
<1> QED
  BY <1>1, <1>2 DEF RisesAt, h

\* voice_sync finds the first cycle in which a voice passes its half.
LEMMA FirstRise ==
  ASSUME NEW c \in Unsynced, NEW v \in Sources(c), NEW i \in Nat \ {0}, i < CyclesToHalf(c, v)
  PROVE  ~RisesAt(c, v, i)
<1> DEFINE f == c.freq[v]
           a == c.acc[v]
           m == 2 * Half
           t == (Half - 1 - a) % m
           k == t \div f
           past == a + (i - 1) * f
           now == a + i * f
<1>1. /\ v \in Voice /\ ~c.test[v] /\ f \in Nat \ {0} /\ f < Half /\ a \in 0..(m - 1)
      /\ Half \in Nat \ {0} /\ m \in Nat \ {0}
  BY WidthAssumption DEF Sources, Unsynced, Accumulator
<1>2. /\ CyclesToHalf(c, v) = k + 1
      /\ AccAfter(c, v, i) = now % m /\ AccAfter(c, v, i - 1) = past % m
  BY <1>1 DEF CyclesToHalf, AccAfter
<1> HIDE DEF f, a
<1>3. t = IF a < Half THEN Half - 1 - a ELSE 3 * Half - 1 - a
  <2> DEFINE x == Half - 1 - a
  <2>1. CASE a < Half
    <3> DEFINE q == 0
    <3>1. x \in Int /\ x \in 0..(m - 1) /\ x = q * m + x /\ q \in Int
      BY <1>1, <2>1
    <3> HIDE DEF x, q, m
    <3>2. x % m = x
      BY <1>1, <3>1, ModIs
    <3> QED
      BY <2>1, <3>2 DEF x
  <2>2. CASE ~(a < Half)
    <3> DEFINE q == -1
               r == x + m
    <3>1. x \in Int /\ r \in 0..(m - 1) /\ x = q * m + r /\ q \in Int
      BY <1>1, <2>2
    <3>2. r = 3 * Half - 1 - a
      BY <1>1
    <3> HIDE DEF x, q, m, r
    <3>3. x % m = r
      BY <1>1, <3>1, ModIs
    <3> QED
      BY <2>2, <3>2, <3>3 DEF x
  <2> QED
    BY <2>1, <2>2
<1>4. t \in Nat
  BY <1>1, <1>3
<1> HIDE DEF t
<1>5. k \in Nat /\ k * f <= t
  BY <1>1, <1>4
<1> HIDE DEF k
<1>6. i * f <= t /\ i * f \in Nat /\ (i - 1) * f = i * f - f /\ i * f >= f
  <2>1. i <= k
    BY <1>2, <1>5
  <2>2. (k - i) * f >= 0 /\ (k - i) * f = k * f - i * f
    BY <1>1, <1>5, <2>1
  <2>3. i * f \in Nat /\ k * f \in Nat /\ (i - 1) * f = i * f - f
    BY <1>1, <1>5
  <2>4. (i - 1) * f >= 0
    BY <1>1
  <2> QED
    BY <1>1, <1>4, <1>5, <2>2, <2>3, <2>4
<1>7. past \in Nat /\ now = past + f /\ past >= a /\ now <= a + t
  BY <1>1, <1>4, <1>6
<1> HIDE DEF past, now
<1>8. ASSUME NEW x \in 0..(m - 1) PROVE x % m = x
  BY <1>1
<1>9. CASE a < Half
  <2>1. now \in 0..(m - 1) /\ now < Half
    BY <1>1, <1>3, <1>7, <1>9
  <2>2. now % m = now
    BY <1>8, <2>1
  <2> QED
    BY <1>1, <1>2, <2>1, <2>2 DEF RisesAt
<1>10. CASE ~(a < Half) /\ past < m
  <2>1. past \in 0..(m - 1) /\ ~(past < Half)
    BY <1>1, <1>7, <1>10
  <2>2. past % m = past
    BY <1>8, <2>1
  <2> QED
    BY <1>2, <2>1, <2>2 DEF RisesAt
<1>11. CASE ~(a < Half) /\ ~(past < m)
  <2> DEFINE r == now - m
             q == 1
  <2>1. r \in 0..(m - 1) /\ r < Half /\ now = q * m + r /\ now \in Int /\ q \in Int
    BY <1>1, <1>3, <1>7, <1>11
  <2> HIDE DEF r, q, m
  <2>2. now % m = r
    BY <1>1, <2>1, ModIs
  <2> QED
    BY <1>1, <1>2, <2>1, <2>2 DEF RisesAt
<1> QED
  BY <1>9, <1>10, <1>11

\* Before the next restart is due, no voice passes its half that restarts another.
Calm(c) == \A v \in Sources(c) : \A i \in 1..(c.next - 1) : ~RisesAt(c, v, i)

LEMMA CalmSync ==
  ASSUME NEW c \in Unsynced
  PROVE  Calm(NextSync(c))
<1> DEFINE T == {Never} \cup {CyclesToHalf(c, v) : v \in Sources(c)}
           d == NextSync(c)
<1>1. T \in SUBSET Nat /\ T # {}
  <2>1. \A v \in Sources(c) : CyclesToHalf(c, v) \in Nat \ {0}
    BY CyclesToHalfOK
  <2> QED
    BY <2>1 DEF Never
<1>2. d = [c EXCEPT !.next = Min(T)]
  BY DEF NextSync
<1>3. \A v \in Sources(c) : CyclesToHalf(c, v) \in T /\ CyclesToHalf(c, v) \in Nat
  BY <1>1
<1> HIDE DEF T
<1>4. Min(T) \in Nat /\ \A j \in T : Min(T) <= j
  BY <1>1, MinOK
<1>5. d.acc = c.acc /\ d.freq = c.freq /\ d.test = c.test /\ d.sync = c.sync /\ d.next = Min(T)
  BY <1>2 DEF Unsynced
<1> HIDE DEF d
<1>6. Sources(d) = Sources(c)
  BY <1>5 DEF Sources
<1>7. ASSUME NEW v \in Sources(c), NEW i \in 1..(d.next - 1) PROVE ~RisesAt(d, v, i)
  <2>1. i \in Nat \ {0} /\ i < CyclesToHalf(c, v)
    <3>1. Min(T) <= CyclesToHalf(c, v) /\ CyclesToHalf(c, v) \in Nat
      BY <1>3, <1>4
    <3> QED
      BY <1>4, <1>5, <3>1
  <2>2. ~RisesAt(c, v, i)
    BY <2>1, FirstRise
  <2> QED
    BY <1>5, <2>2 DEF RisesAt, AccAfter
<1> QED
  BY <1>6, <1>7 DEF Calm, d

\* A run leaves it so.
LEMMA CalmRun ==
  ASSUME NEW c \in Voices, Calm(c), NEW n \in Nat, n <= c.next
  PROVE  Calm(RunCycles(c, n))
<1> DEFINE d == [ClockVoices(c, n) EXCEPT !.next = @ - n]
<1>1. /\ d \in Unsynced
      /\ d.acc = [v \in Voice |-> AccAfter(c, v, n)]
      /\ d.freq = c.freq /\ d.test = c.test /\ d.sync = c.sync /\ d.next = c.next - n
  BY ClockedVoices
<1>2. RunCycles(c, n) = IF d.next <= 0 THEN NextSync(Synchronize(d)) ELSE d
  BY DEF RunCycles
<1> HIDE DEF d
<1>3. CASE d.next <= 0
  BY <1>1, <1>2, <1>3, SynchronizedVoices, CalmSync
<1>4. CASE ~(d.next <= 0)
  <2>1. Sources(d) = Sources(c) /\ Sources(c) \subseteq Voice
    BY <1>1 DEF Sources
  <2>2. c \in Unsynced /\ c.next \in Nat
    <3>1. Never \in Nat
      BY DEF Never
    <3>2. c \in Unsynced /\ c.next \in 1..Never
      BY VoicesUnsynced
    <3> QED
      BY <3>1, <3>2
  <2>3. ASSUME NEW v \in Sources(c), NEW i \in 1..(d.next - 1) PROVE ~RisesAt(d, v, i)
    <3> DEFINE j == n + i
    <3>1. v \in Voice /\ n \in Int /\ i \in Int /\ j \in 1..(c.next - 1)
      BY <1>1, <2>1, <2>2
    <3>2. d.acc[v] = AccAfter(c, v, n) /\ d.freq[v] = c.freq[v] /\ d.test[v] = c.test[v]
      BY <1>1, <3>1
    <3>3. RisesAt(d, v, i) <=> RisesAt(c, v, n + i)
      BY <2>2, <3>1, <3>2, RisesLater
    <3>4. ~RisesAt(c, v, j)
      BY <3>1 DEF Calm
    <3> QED
      BY <3>3, <3>4
  <2> QED
    BY <1>2, <1>4, <2>1, <2>3 DEF Calm
<1> QED
  BY <1>3, <1>4

\* The chip after i single cycles, if none but the last may restart a voice.
Passed(c, i) ==
  [c EXCEPT !.acc = [v \in Voice |-> IF RisesAt(c, prev_v(v), i) /\ ~c.test[prev_v(v)] /\ c.sync[v]
                                     THEN 0 ELSE AccAfter(c, v, i)]]

\* A voice that restarts the one after it is one of the sources.
LEMMA SourceOf ==
  ASSUME NEW c \in Unsynced, NEW v \in Voice, NEW i \in Int,
         RisesAt(c, prev_v(v), i), ~c.test[prev_v(v)], c.sync[v]
  PROVE  prev_v(v) \in Sources(c)
<1> DEFINE p == prev_v(v)
<1>1. p \in Voice /\ next_v(p) = v
  BY DEF Voice, prev_v, next_v
<1> HIDE DEF p
<1>2. c.freq[p] # 0
  <2> SUFFICES ASSUME c.freq[p] = 0 PROVE FALSE
    OBVIOUS
  <2>1. i * 0 = 0 /\ (i - 1) * 0 = 0
    OBVIOUS
  <2>2. AccAfter(c, p, i) = AccAfter(c, p, i - 1)
    BY <2>1 DEF AccAfter
  <2>3. AccAfter(c, p, i) \in Accumulator
    BY <1>1, AccAfterOK
  <2>4. AccAfter(c, p, i - 1) < Half /\ AccAfter(c, p, i) >= Half
    BY DEF RisesAt, p
  <2> QED
    BY <2>2, <2>3, <2>4, WidthAssumption DEF Accumulator
<1>3. ~c.test[p] /\ c.sync[next_v(p)]
  BY <1>1 DEF p
<1> QED
  BY <1>1, <1>2, <1>3 DEF Sources, p

\* Before the restart all accumulators just count.
LEMMA PassedCalm ==
  ASSUME NEW c \in Unsynced, Calm(c), NEW i \in 1..(c.next - 1)
  PROVE  Passed(c, i) = [c EXCEPT !.acc = [v \in Voice |-> AccAfter(c, v, i)]]
<1>1. ASSUME NEW v \in Voice
      PROVE  ~(RisesAt(c, prev_v(v), i) /\ ~c.test[prev_v(v)] /\ c.sync[v])
  <2>1. i \in Int
    OBVIOUS
  <2> QED
    BY <2>1, SourceOf DEF Calm
<1> QED
  BY <1>1 DEF Passed

\* One cycle of a chip that has only counted.
LEMMA CyclePassed ==
  ASSUME NEW c \in Unsynced, NEW i \in Nat, NEW d,
         d = [c EXCEPT !.acc = [v \in Voice |-> AccAfter(c, v, i)]]
  PROVE  OneCycle(d) = Passed(c, i + 1)
<1> DEFINE one == 1
           j == i + one
<1>1. /\ d.freq = c.freq /\ d.test = c.test /\ d.sync = c.sync
      /\ \A v \in Voice : d.acc[v] = AccAfter(c, v, i)
  BY DEF Unsynced
<1>2. one \in Int /\ i \in Int
  OBVIOUS
<1> HIDE DEF one
<1>3. \A v \in Voice : /\ AccAfter(d, v, one) = AccAfter(c, v, j)
                       /\ RisesAt(d, v, one) <=> RisesAt(c, v, j)
  BY <1>1, <1>2, AccAdds, RisesLater
<1>4. \A v \in Voice : prev_v(v) \in Voice
  BY DEF Voice, prev_v
<1> HIDE DEF j
<1>5. OneCycle(d) = [d EXCEPT !.acc = [v \in Voice |->
         IF (~d.test[prev_v(v)] /\ RisesAt(d, prev_v(v), one)) /\ d.sync[v] THEN 0 ELSE AccAfter(d, v, one)]]
  BY DEF OneCycle, one
<1> DEFINE acc == [v \in Voice |-> IF RisesAt(c, prev_v(v), j) /\ ~c.test[prev_v(v)] /\ c.sync[v]
                                   THEN 0 ELSE AccAfter(c, v, j)]
<1>6. OneCycle(d) = [d EXCEPT !.acc = acc]
  BY <1>1, <1>3, <1>4, <1>5
<1>7. Passed(c, j) = [c EXCEPT !.acc = acc]
  BY DEF Passed
<1> HIDE DEF acc
<1>8. [d EXCEPT !.acc = acc] = [c EXCEPT !.acc = acc]
  BY DEF Unsynced
<1> QED
  BY <1>6, <1>7, <1>8 DEF j, one

\* No cycle at all.
LEMMA NotYet ==
  ASSUME NEW c \in Unsynced
  PROVE  c = [c EXCEPT !.acc = [v \in Voice |-> AccAfter(c, v, 0)]]
<1>1. \A v \in Voice : c.acc[v] \in 0..(2 * Half - 1) /\ c.freq[v] \in Int
  BY WidthAssumption DEF Unsynced, Accumulator
<1>2. 2 * Half \in Nat \ {0}
  BY WidthAssumption
<1>3. \A v \in Voice : AccAfter(c, v, 0) = c.acc[v]
  <2> SUFFICES ASSUME NEW v \in Voice PROVE AccAfter(c, v, 0) = c.acc[v]
    OBVIOUS
  <2> DEFINE m == 2 * Half
             a == c.acc[v]
             f == c.freq[v]
             z == 0
  <2>1. a \in 0..(m - 1) /\ a \in Int /\ m \in Nat \ {0} /\ z \in Int /\ a = z * m + a
    BY <1>1, <1>2
  <2>2. 0 * f = 0 /\ a + 0 = a
    BY <1>1
  <2> HIDE DEF a, m, z
  <2>3. a % m = a
    BY <2>1, ModIs
  <2> QED
    BY <2>2, <2>3 DEF AccAfter, a, m
<1>4. c.acc = [v \in Voice |-> c.acc[v]]
  BY DEF Unsynced
<1>5. [c EXCEPT !.acc = c.acc] = c
  BY DEF Unsynced
<1> QED
  BY <1>3, <1>4, <1>5

\* The single cycles have only one outcome.
LEMMA EachCycleIs ==
  ASSUME NEW c, NEW n \in Nat, NEW g, g[0] = c, \A i \in 1..n : g[i] = OneCycle(g[i - 1])
  PROVE  EachCycle(c, n) = g[n].acc
<1> DEFINE f == CHOOSE f : f = [i \in 0..n |-> IF i = 0 THEN c ELSE OneCycle(f[i - 1])]
           h == [i \in 0..n |-> g[i]]
<1>1. h = [i \in 0..n |-> IF i = 0 THEN c ELSE OneCycle(h[i - 1])]
  <2>1. \A i \in 0..n : i = 0 \/ (i # 0 /\ i \in 1..n /\ i - 1 \in 0..n)
    OBVIOUS
  <2> QED
    BY <2>1
<1>2. f = [i \in 0..n |-> IF i = 0 THEN c ELSE OneCycle(f[i - 1])]
  <2> HIDE DEF h
  <2> QED
    BY <1>1
<1>3. EachCycle(c, n) = f[n].acc
  BY DEF EachCycle
<1> HIDE DEF f, h
<1>4. \A i \in 0..n : f[i] = IF i = 0 THEN c ELSE OneCycle(f[i - 1])
  BY <1>2
<1> DEFINE S == {i \in 0..n : f[i] = g[i]}
<1>5. Climbs(S, n)
  <2>1. \A i \in 1..n : i \in 0..n /\ i # 0 /\ i - 1 \in 0..n
    OBVIOUS
  <2>2. 0 \in 0..n
    OBVIOUS
  <2> QED
    BY <1>4, <2>1, <2>2 DEF Climbs
<1> HIDE DEF S
<1>6. n \in S
  BY <1>5, Climb
<1> QED
  BY <1>3, <1>6 DEF S

\* A run up to the next restart is its single cycles.
LEMMA RunIsCycles ==
  ASSUME NEW c \in Voices, Calm(c), ~StaleRise(c), NEW n \in Nat \ {0}, n <= c.next
  PROVE  RunCycles(c, n).acc = EachCycle(c, n)
<1> DEFINE g == [i \in 0..n |-> IF i = 0 THEN c ELSE Passed(c, i)]
           d == [ClockVoices(c, n) EXCEPT !.next = @ - n]
           Counted(i) == [c EXCEPT !.acc = [v \in Voice |-> AccAfter(c, v, i)]]
<1>1. c \in Unsynced /\ c.next \in Nat
  <2>1. Never \in Nat
    BY DEF Never
  <2>2. c \in Unsynced /\ c.next \in 1..Never
    BY VoicesUnsynced
  <2> QED
    BY <2>1, <2>2
<1>2. \A i \in 0..(n - 1) : g[i] = Counted(i)
  <2>1. c = Counted(0)
    BY <1>1, NotYet
  <2>2. ASSUME NEW i \in 1..(n - 1) PROVE Passed(c, i) = Counted(i)
    <3>1. i \in 1..(c.next - 1)
      BY <1>1
    <3> QED
      BY <1>1, <3>1, PassedCalm
  <2>3. \A i \in 0..(n - 1) : i \in 0..n /\ (i = 0 \/ (i # 0 /\ i \in 1..(n - 1)))
    OBVIOUS
  <2> HIDE DEF Counted
  <2> QED
    BY <2>1, <2>2, <2>3
<1>3. ASSUME NEW i \in 1..n PROVE g[i] = OneCycle(g[i - 1])
  <2> DEFINE j == i - 1
  <2>1. j \in 0..(n - 1) /\ j \in Nat /\ i = j + 1 /\ i \in 0..n /\ i # 0
    OBVIOUS
  <2>2. g[i] = Passed(c, j + 1)
    BY <2>1
  <2> HIDE DEF g, j
  <2>3. g[j] = Counted(j)
    BY <1>2, <2>1
  <2>4. OneCycle(g[j]) = Passed(c, j + 1)
    BY <1>1, <2>1, <2>3, CyclePassed
  <2> QED
    BY <2>2, <2>4 DEF j
<1>4. g[0] = c /\ g[n] = Passed(c, n)
  OBVIOUS
<1> HIDE DEF g
<1>5. EachCycle(c, n) = Passed(c, n).acc
  BY <1>3, <1>4, EachCycleIs
<1> DEFINE acc == [v \in Voice |-> IF RisesAt(c, prev_v(v), n) /\ ~c.test[prev_v(v)] /\ c.sync[v]
                                   THEN 0 ELSE AccAfter(c, v, n)]
<1>6. Passed(c, n).acc = acc
  BY <1>1 DEF Passed, Unsynced
<1>7. /\ d \in Unsynced
      /\ d.acc = [v \in Voice |-> AccAfter(c, v, n)]
      /\ d.rising = [v \in Voice |-> IF c.test[v] THEN c.rising[v] ELSE RisesAt(c, v, n)]
      /\ d.sync = c.sync /\ d.next = c.next - n
  BY ClockedVoices
<1>8. RunCycles(c, n) = IF d.next <= 0 THEN NextSync(Synchronize(d)) ELSE d
  BY DEF RunCycles
<1> HIDE DEF d
<1>9. \A v \in Voice : prev_v(v) \in Voice /\ (c.test[v] => ~c.rising[v])
  BY DEF Voice, prev_v, StaleRise
<1>10. CASE d.next <= 0
  <2>1. RunCycles(c, n).acc = [v \in Voice |-> IF d.rising[prev_v(v)] /\ d.sync[v] THEN 0 ELSE d.acc[v]]
    BY <1>7, <1>8, <1>10, SynchronizedVoices
  <2>2. \A v \in Voice : /\ d.acc[v] = AccAfter(c, v, n)
                         /\ d.rising[prev_v(v)] <=> RisesAt(c, prev_v(v), n) /\ ~c.test[prev_v(v)]
    BY <1>7, <1>9
  <2>3. RunCycles(c, n).acc = acc
    BY <1>7, <2>1, <2>2
  <2> QED
    BY <1>5, <1>6, <2>3
<1>11. CASE ~(d.next <= 0)
  <2>1. n \in 1..(c.next - 1)
    BY <1>1, <1>7, <1>11
  <2>2. Passed(c, n) = Counted(n)
    BY <1>1, <2>1, PassedCalm
  <2>3. Counted(n).acc = [v \in Voice |-> AccAfter(c, v, n)]
    BY <1>1 DEF Unsynced
  <2> QED
    BY <1>5, <1>7, <1>8, <1>11, <2>2, <2>3
<1> QED
  BY <1>10, <1>11

LEMMA CalmWrite ==
  ASSUME NEW c \in Voices, NEW w, w.voice \in Voice, w.value \in 0..MaxFreq,
         w.reg \in {"freq", "sync", "test"}
  PROVE  Calm(ApplyWrite(c, w))
BY ApplyWriteSyncs, CalmSync

\* The cached restart is never late.
CalmInv == IInv /\ Calm(voices)

LEMMA CalmReset == Calm(VoicesReset)
  BY DEF Calm, VoicesReset, Sources, next_v, Voice

LEMMA CalmInvariant == Spec => []CalmInv
<1>1. Init => CalmInv
  BY InitIInv, CalmReset DEF Init, CalmInv
<1>2. CalmInv /\ [Next]_vars => CalmInv'
  <2> SUFFICES ASSUME CalmInv, [Next]_vars PROVE Calm(voices)'
    BY StepIInv DEF CalmInv
  <2>0. IInv /\ TypeOK /\ Calm(voices) /\ voices \in Voices
    BY DEF CalmInv, IInv, TypeOK
  <2>1. CASE voices' = voices
    BY <2>0, <2>1
  <2>2. ASSUME NEW p \in Programs, SidWrite(p[1], p[2]), voices' # voices PROVE Calm(voices)'
    <3> DEFINE w == Write(p[1], p[2], clock_ticks)
    <3>1. voices' = ApplyWrite(voices, w)
      BY <2>2 DEF SidWrite
    <3>2. w.voice \in Voice /\ w.value \in 0..MaxFreq /\ w.reg \in {"freq", "sync", "test"}
      BY ProgramsAssumption DEF Write, Reg
    <3> HIDE DEF w
    <3> QED
      BY <2>0, <3>1, <3>2, CalmWrite
  <2>3. CASE Reset
    BY <2>3, CalmReset DEF Reset
  <2>4. CASE ClockApplies
    <3> DEFINE w == Head(write_queue)
    <3>1. voices' = ApplyWrite(voices, w) /\ write_queue # <<>>
      BY <2>4 DEF ClockApplies, Due
    <3>2. w \in Queued
      BY <2>0, <3>1 DEF TypeOK
    <3> HIDE DEF w
    <3> QED
      BY <2>0, <3>1, <3>2, CalmWrite DEF Queued
  <2>5. CASE ClockRuns
    <3>1. voices' = RunCycles(voices, RunLength) /\ RunLength \in Nat /\ RunLength <= voices.next
      BY <2>0, <2>5, RunLengthOK DEF ClockRuns
    <3> DEFINE n == RunLength
    <3> HIDE DEF n
    <3> QED
      BY <2>0, <3>1, CalmRun
  <2> QED
    BY <2>1, <2>2, <2>3, <2>4, <2>5 DEF Next, CpuRuns, SetAudioEnabled, GenerateAudio, vars
<1> QED
  BY <1>1, <1>2, PTL DEF Spec

\* Running straight to the next write, restart or end of the span (sid_chip::clock) leaves the
\* accumulators that looking for restarts at every cycle leaves: the cached restart is never
\* late, whatever the registers written and the spans cut.
THEOREM SpansCorrect == Spec => SpansAreCycles
<1> DEFINE A == ClockRuns /\ ~StaleRise(voices) =>
                  voices'.acc = EachCycle(voices, (IF rendering' = Idle THEN rendering.end
                                                   ELSE rendering'.at) - rendering.at)
<1>1. CalmInv /\ [Next]_vars => [A]_vars
  <2> SUFFICES ASSUME CalmInv, ClockRuns, ~StaleRise(voices)
               PROVE  voices'.acc = EachCycle(voices, (IF rendering' = Idle THEN rendering.end
                                                       ELSE rendering'.at) - rendering.at)
    OBVIOUS
  <2> DEFINE n == RunLength
             u == rendering.at + n
  <2>1. /\ IInv /\ voices \in Voices /\ Calm(voices)
        /\ rendering \in [at : Nat, start : Nat, end : Nat]
    BY DEF CalmInv, IInv, TypeOK
  <2>2. n \in Nat \ {0} /\ n <= rendering.end - rendering.at /\ n <= voices.next
    BY <2>1, RunLengthOK DEF ClockRuns
  <2>3. /\ voices' = RunCycles(voices, n)
        /\ rendering' = IF u >= rendering.end THEN Idle ELSE [rendering EXCEPT !.at = u]
    BY <2>2 DEF ClockRuns
  <2> HIDE DEF n
  <2>4. (IF rendering' = Idle THEN rendering.end ELSE rendering'.at) - rendering.at = n
    <3>1. rendering.at \in Nat /\ rendering.end \in Nat
      BY <2>1
    <3>2. CASE u >= rendering.end
      BY <2>2, <2>3, <3>1, <3>2
    <3>3. CASE ~(u >= rendering.end)
      <4>1. rendering'.at = u /\ rendering'.end = rendering.end
        BY <2>1, <2>3, <3>3
      <4>2. rendering' # Idle
        BY <2>2, <3>1, <3>3, <4>1 DEF Idle
      <4> QED
        BY <2>2, <3>1, <4>1, <4>2
    <3> QED
      BY <3>2, <3>3
  <2>5. RunCycles(voices, n).acc = EachCycle(voices, n)
    BY <2>1, <2>2, RunIsCycles
  <2> QED
    BY <2>3, <2>4, <2>5
<1>2. SpansAreCycles <=> [][A]_vars
  BY DEF SpansAreCycles
<1> HIDE DEF A
<1> QED
  BY CalmInvariant, <1>1, <1>2, PTL DEF Spec
=============================================================================
