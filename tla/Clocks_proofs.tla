---------------------------- MODULE Clocks_proofs ----------------------------
(* The counters of Clocks stay in range for any byte width, line and frame:  *)
(* the reloads leave a count within 16 bits whatever the latch and however   *)
(* long the instruction.  Counting an instruction at once is counting its    *)
(* cycles one by one.  Of the line the raster has finished: the walk over    *)
(* the sprites leaves what their pixels alone decide, and no fetch leaves    *)
(* the VIC's bank.  What is defined by recursion is followed by an induction *)
(* over the set of the steps where the claim holds (Climb).                  *)
EXTENDS Clocks, VicLine, WellFoundedInduction, TLAPS

\* Induction up to n, for a set: the least number that is not in it has none before it.
Climbs(S, n) == 0 \in S /\ \A i \in 1..n : i - 1 \in S => i \in S

LEMMA Climb ==
  ASSUME NEW n \in Nat, NEW S, Climbs(S, n)
  PROVE  n \in S
<1> DEFINE D == {i \in 0..n : i \notin S}
           R == OpToRel(<, Nat)
<1>1. SUFFICES ASSUME D # {} PROVE FALSE
  OBVIOUS
<1>2. PICK d \in D : \A e \in D : ~(<<e, d>> \in R)
  <2>1. IsWellFoundedOn(R, Nat)
    BY NatLessThanWellFounded
  <2>2. D \in SUBSET Nat
    OBVIOUS
  <2> HIDE DEF D, R
  <2> QED
    BY <1>1, <2>1, <2>2, WFMin, Zenon
<1>3. d \in 1..n /\ d \notin S
  <2> HIDE DEF R
  <2>1. d \in 0..n /\ d \notin S
    BY <1>2
  <2>2. d # 0
    BY <2>1 DEF Climbs
  <2> QED
    BY <2>1, <2>2
<1>4. d - 1 \in 0..n /\ ~(d - 1 \in D)
  <2>1. d - 1 \in Nat /\ d \in Nat /\ d - 1 < d /\ d - 1 \in 0..n
    BY <1>3
  <2>2. d - 1 \in D => <<d - 1, d>> \in R
    BY <2>1 DEF OpToRel
  <2> QED
    BY <1>2, <2>1, <2>2
<1> QED
  BY <1>3, <1>4 DEF Climbs

LEMMA DivBounds ==
  ASSUME NEW a \in Nat, NEW p \in Nat \ {0}
  PROVE  a \div p \in Nat /\ (a \div p) * p <= a /\ a < (a \div p) * p + p
  OBVIOUS

LEMMA ModBounds ==
  ASSUME NEW a \in Nat, NEW p \in Nat \ {0}
  PROVE  a % p \in 0..(p - 1)
  OBVIOUS

LEMMA WrapFact == Wrap \in Nat \ {0} /\ Base \in Nat \ {0} /\ Wrap = Base * Base
  BY ClockAssumption DEF Wrap

\* The high byte of a latch.
LEMMA HighByte ==
  ASSUME NEW l \in 0..(Wrap - 1)
  PROVE  l \div Base \in 0..(Base - 1)
  <1>1. l \div Base \in Nat /\ (l \div Base) * Base <= l
    BY WrapFact, DivBounds
  <1>2. ASSUME l \div Base >= Base PROVE FALSE
    <2>1. (l \div Base) * Base >= Base * Base
      BY <1>1, <1>2, WrapFact
    <2> QED BY <2>1, <1>1, WrapFact
  <1> QED BY <1>1, <1>2, WrapFact

\* Two bytes make a latch.
LEMMA TwoBytes ==
  ASSUME NEW high \in 0..(Base - 1), NEW low \in 0..(Base - 1)
  PROVE  high * Base + low \in 0..(Wrap - 1)
  <1>1. high * Base <= (Base - 1) * Base /\ high * Base \in Nat
    BY WrapFact
  <1>2. (Base - 1) * Base = Wrap - Base
    BY WrapFact
  <1> QED BY <1>1, <1>2, WrapFact

LEMMA PeriodRange == ASSUME NEW t \in Timer PROVE Period(t) \in 1..Wrap
  <1>1. t.latch \in 0..(Wrap - 1)
    BY DEF Timer
  <1> QED BY <1>1, WrapFact DEF Period

\* The reload loop ends with the count in floor .. floor + period - 1.
LEMMA ReloadRange ==
  ASSUME NEW missing \in Nat \ {0}, NEW period \in Nat \ {0}
  PROVE  /\ Reloads(missing, period) \in Nat \ {0}
         /\ missing <= Reloads(missing, period) * period
         /\ Reloads(missing, period) * period <= missing + period - 1
  <1> DEFINE a == missing + period - 1
             k == a \div period
  <1>1. a \in Nat
    OBVIOUS
  <1>2. k \in Nat /\ k * period <= a /\ a < k * period + period
    BY <1>1, DivBounds
  <1>3. k # 0
    <2>1. ASSUME k = 0 PROVE FALSE
      <3>1. k * period = 0
        BY <2>1
      <3> QED BY <1>2, <3>1
    <2> QED BY <2>1
  <1>4. k * period \in Nat
    BY <1>2
  <1>5. Reloads(missing, period) = k
    BY DEF Reloads
  <1> HIDE DEF k
  <1> QED BY <1>2, <1>3, <1>4, <1>5

LEMMA Recounted ==
  ASSUME NEW t \in Timer, NEW count \in 0..Wrap
  PROVE  LET u == [t EXCEPT !.count = count]
         IN  u \in Timer /\ u.start = t.start /\ u.running = t.running
  BY DEF Timer

\* Counting keeps a timer a timer, and its start bit what it was to `running`.
LEMMA CountTyped ==
  ASSUME NEW t \in Timer, t.start = t.running, NEW n \in Nat, NEW floor \in {0, 1}
  PROVE  LET c == Count(t, n, floor)
         IN  c.timer \in Timer /\ c.timer.start = c.timer.running /\ c.times \in Nat
  <1> DEFINE left    == t.count - n
             missing == floor - left
             c       == Count(t, n, floor)
  <1>1. /\ t.latch \in 0..(Wrap - 1) /\ t.count \in 0..Wrap
        /\ t.running \in BOOLEAN /\ t.start \in BOOLEAN
        /\ t.oneshot \in BOOLEAN /\ t.source \in Sources
    BY DEF Timer
  <1>2. left \in Int /\ left <= Wrap /\ missing \in Int
    BY <1>1, WrapFact
  <1>3. CASE missing <= 0
    <2>1. c = [timer |-> [t EXCEPT !.count = left], times |-> 0]
      BY <1>3 DEF Count
    <2>2. left \in 0..Wrap
      BY <1>2, <1>3, WrapFact
    <2> DEFINE u == [t EXCEPT !.count = left]
    <2>3. u \in Timer /\ u.start = t.start /\ u.running = t.running
      BY <2>2, Recounted
    <2>4. c.timer = u /\ c.times = 0
      BY <2>1
    <2> HIDE DEF u
    <2> QED BY <2>3, <2>4
  <1>4. CASE missing > 0 /\ t.oneshot
    <2>1. c = [timer |-> Stopped(t), times |-> 1]
      BY <1>2, <1>4 DEF Count
    <2>2. t.latch \in 0..Wrap
      BY <1>1, WrapFact
    <2> DEFINE u == Stopped(t)
    <2>3. u \in Timer /\ u.start = u.running
      BY <2>2 DEF Timer, Stopped
    <2>4. c.timer = u /\ c.times = 1
      BY <2>1
    <2> HIDE DEF u
    <2> QED BY <2>3, <2>4
  <1>5. CASE missing > 0 /\ ~t.oneshot
    <2> DEFINE period == Period(t)
               k == Reloads(missing, period)
    <2>1. period \in 1..Wrap
      BY PeriodRange
    <2>2. k \in Nat \ {0} /\ missing <= k * period /\ k * period <= missing + period - 1
      <3>1. missing \in Nat \ {0}
        BY <1>2, <1>5
      <3>2. period \in Nat \ {0}
        BY <2>1, WrapFact
      <3> HIDE DEF missing, period
      <3> QED BY <3>1, <3>2, ReloadRange
    <2>3. c = [timer |-> [t EXCEPT !.count = left + k * period], times |-> k]
      BY <1>2, <1>5 DEF Count, Reloaded
    <2>4. k * period \in Nat
      BY <2>1, <2>2, WrapFact
    <2>5. left + k * period \in 0..Wrap
      <3> HIDE DEF k, period
      <3> QED BY <1>2, <2>1, <2>2, <2>4, WrapFact
    <2> DEFINE u == [t EXCEPT !.count = left + k * period]
    <2>6. u \in Timer /\ u.start = t.start /\ u.running = t.running
      BY <2>5, Recounted
    <2>7. c.timer = u /\ c.times = k
      BY <2>3
    <2> HIDE DEF k, u
    <2> QED BY <2>2, <2>6, <2>7
  <1>6. missing <= 0 \/ missing > 0
    BY <1>2
  <1> QED BY <1>1, <1>3, <1>4, <1>5, <1>6

LEMMA TickCiaTyped ==
  ASSUME TypeOK, StartBitExact, NEW n \in Nat
  PROVE  LET after == TickCia(timer, n).timer
         IN  after \in [Names -> Timer] /\ \A i \in Names : after[i].start = after[i].running
  <1> DEFINE x == timer
             a == IF x["A"].running THEN Count(x["A"], n, 1) ELSE Idle(x["A"])
             b == IF ~x["B"].running THEN Idle(x["B"])
                  ELSE CASE x["B"].source = "phi2"   -> Count(x["B"], n, 1)
                         [] x["B"].source = "timerA" -> Cascaded(x["B"], a.times)
                         [] x["B"].source = "cnt"    -> Idle(x["B"])
  <1>1. /\ x["A"] \in Timer /\ x["A"].start = x["A"].running
        /\ x["B"] \in Timer /\ x["B"].start = x["B"].running
    BY DEF TypeOK, StartBitExact, Names
  <1>2. \A i \in Names : Idle(x[i]) = [timer |-> x[i], times |-> 0]
    BY DEF Idle
  <1>3. a.timer \in Timer /\ a.timer.start = a.timer.running /\ a.times \in Nat
    <2>1. CASE x["A"].running
      BY <1>1, <2>1, CountTyped
    <2>2. CASE ~x["A"].running
      BY <1>1, <2>2 DEF Idle
    <2> QED BY <2>1, <2>2
  <1> HIDE DEF a
  <1>4. b.timer \in Timer /\ b.timer.start = b.timer.running
    <2>1. x["B"].source = "phi2" \/ x["B"].source = "timerA" \/ x["B"].source = "cnt"
      BY <1>1 DEF Timer, Sources
    <2>2. b = Idle(x["B"]) \/ b = Count(x["B"], n, 1) \/ b = Count(x["B"], a.times, 0)
      BY <2>1 DEF Cascaded
    <2> HIDE DEF b
    <2>3. CASE b = Idle(x["B"])
      BY <1>1, <2>3 DEF Idle
    <2>4. CASE b = Count(x["B"], n, 1)
      BY <1>1, <2>4, CountTyped
    <2>5. CASE b = Count(x["B"], a.times, 0)
      BY <1>1, <1>3, <2>5, CountTyped
    <2> QED BY <2>2, <2>3, <2>4, <2>5
  <1>5. TickCia(timer, n).timer = [i \in Names |-> IF i = "A" THEN a.timer ELSE b.timer]
    BY DEF TickCia, a
  <1> HIDE DEF b, x
  <1> QED BY <1>3, <1>4, <1>5

LEMMA TickVicTyped ==
  ASSUME NEW r \in Raster, NEW n \in Nat
  PROVE  TickVic(r, n).raster \in Raster
  <1> DEFINE cycles == r.cycle + n
             lines  == r.line + cycles \div CyclesPerLine
  <1>1. CyclesPerLine \in Nat \ {0} /\ LinesPerFrame \in Nat \ {0}
    BY ClockAssumption
  <1>2. r.cycle \in Nat /\ r.line \in Nat /\ r.compare \in CompareValue
    BY <1>1 DEF Raster
  <1>3. cycles \in Nat /\ cycles \div CyclesPerLine \in Nat /\ lines \in Nat
    BY <1>1, <1>2, DivBounds
  <1> HIDE DEF cycles, lines
  <1>4. cycles % CyclesPerLine \in 0..(CyclesPerLine - 1)
    BY <1>1, <1>3, ModBounds
  <1>5. lines % LinesPerFrame \in 0..(LinesPerFrame - 1)
    BY <1>1, <1>3, ModBounds
  <1>6. lines % LinesPerFrame \in -1..(LinesPerFrame - 1)
    BY <1>1, <1>5
  <1>7. TickVic(r, n).raster =
          [r EXCEPT !.cycle = cycles % CyclesPerLine, !.line = lines % LinesPerFrame,
                    !.last = lines % LinesPerFrame]
    BY DEF TickVic, Advanced, cycles, lines, Raster
  <1> QED BY <1>4, <1>5, <1>6, <1>7 DEF Raster

IInv == TypeOK /\ StartBitExact

LEMMA ColdTyped == ColdTimer \in Timer /\ ColdTimer.start = ColdTimer.running /\ ColdRaster \in Raster
  <1>1. Wrap - 1 \in 0..(Wrap - 1) /\ Wrap - 1 \in 0..Wrap
    BY WrapFact
  <1>2. /\ 0 \in 0..(LinesPerFrame - 1) /\ 0 \in 0..(CyclesPerLine - 1) /\ 0 \in CompareValue
        /\ -1 \in -1..(LinesPerFrame - 1)
    BY ClockAssumption
  <1> QED BY <1>1, <1>2 DEF ColdTimer, ColdRaster, Timer, Raster, Sources

LEMMA InitInv == Init => IInv
  BY ColdTyped DEF Init, IInv, TypeOK, StartBitExact

LEMMA StepInv == IInv /\ [Next]_vars => IInv'
  <1> SUFFICES ASSUME IInv, [Next]_vars PROVE IInv'
    OBVIOUS
  <1>0. timer \in [Names -> Timer] /\ raster \in Raster
    BY DEF IInv, TypeOK
  <1>1. ASSUME NEW i \in Names, NEW v \in Byte, WriteLow(i, v) PROVE IInv'
    <2>1. timer[i].latch \in 0..(Wrap - 1)
      BY <1>0 DEF Timer
    <2>2. (timer[i].latch \div Base) * Base + v \in 0..(Wrap - 1)
      BY <2>1, HighByte, TwoBytes DEF Byte
    <2> QED BY <1>0, <1>1, <2>2 DEF WriteLow, IInv, TypeOK, StartBitExact, Timer
  <1>2. ASSUME NEW i \in Names, NEW v \in Byte, WriteHigh(i, v) PROVE IInv'
    <2> DEFINE low   == timer[i].latch % Base
               latch == (v * Base) + low
               u     == [timer[i] EXCEPT !.latch = latch,
                                         !.count = IF timer[i].running THEN @ ELSE latch]
    <2>1. timer[i].latch \in Nat
      BY <1>0, WrapFact DEF Timer
    <2>2. low \in 0..(Base - 1) /\ v \in 0..(Base - 1)
      BY <2>1, WrapFact, ModBounds DEF Byte
    <2>3. timer' = [timer EXCEPT ![i] = u] /\ raster' = raster
      BY <1>0, <1>2 DEF WriteHigh
    <2> HIDE DEF low
    <2>4. latch \in 0..(Wrap - 1)
      BY <2>2, TwoBytes
    <2> HIDE DEF latch
    <2>5. latch \in 0..Wrap
      BY <2>4, WrapFact
    <2>6. u \in Timer /\ u.start = timer[i].start /\ u.running = timer[i].running
      BY <1>0, <2>4, <2>5 DEF Timer
    <2> HIDE DEF u
    <2> QED BY <1>0, <2>3, <2>6 DEF IInv, TypeOK, StartBitExact
  <1>3. ASSUME NEW i \in Names, NEW start \in BOOLEAN, NEW oneshot \in BOOLEAN,
               NEW load \in BOOLEAN, NEW source \in Sources,
               WriteControl(i, start, oneshot, load, source)
        PROVE  IInv'
    <2> DEFINE u == [timer[i] EXCEPT !.start = start, !.running = start,
                                     !.oneshot = oneshot, !.source = source,
                                     !.count = IF load THEN timer[i].latch ELSE @]
    <2>1. timer[i].latch \in 0..Wrap
      BY <1>0, WrapFact DEF Timer
    <2>2. timer' = [timer EXCEPT ![i] = u] /\ raster' = raster
      BY <1>0, <1>3 DEF WriteControl
    <2>3. u \in Timer /\ u.start = u.running
      BY <1>0, <2>1 DEF Timer
    <2> HIDE DEF u
    <2> QED BY <1>0, <2>2, <2>3 DEF IInv, TypeOK, StartBitExact
  <1>4. ASSUME NEW v \in CompareValue, WriteCompare(v) PROVE IInv'
    BY <1>0, <1>4 DEF WriteCompare, IInv, TypeOK, StartBitExact, Raster
  <1>5. ASSUME NEW n \in InstructionCycles, StepHardware(n) PROVE IInv'
    <2>1. n \in Nat
      BY ClockAssumption
    <2> QED BY <1>0, <1>5, <2>1, TickCiaTyped, TickVicTyped
            DEF StepHardware, IInv, TypeOK, StartBitExact
  <1>6. CASE Reset
    BY <1>6, ColdTyped DEF Reset, IInv, TypeOK, StartBitExact
  <1>7. CASE UNCHANGED vars
    BY <1>7 DEF vars, IInv, TypeOK, StartBitExact
  <1>8. {"phi2"} \subseteq Sources
    BY DEF Sources
  <1> QED BY <1>1, <1>2, <1>3, <1>4, <1>5, <1>6, <1>7, <1>8 DEF Next

LEMMA Invariance == Spec => []IInv
  BY InitInv, StepInv, PTL DEF Spec

\* tick_cia's reload loops and tick_vic's leave every counter in range, for any latch,
\* any instruction length and any geometry of the frame.
THEOREM ClocksTypeCorrect == Spec => []TypeOK
  <1>1. IInv => TypeOK
    BY DEF IInv
  <1> QED BY <1>1, Invariance, PTL

\* Bit 0 of CRA and CRB is set exactly while the timer runs.
THEOREM StartBit == Spec => []StartBitExact
  <1>1. IInv => StartBitExact
    BY DEF IInv
  <1> QED BY <1>1, Invariance, PTL
-----------------------------------------------------------------------------
(* Counting at once and counting one by one. *)

\* A product grows with its factor.
LEMMA Monotone ==
  ASSUME NEW a \in Int, NEW b \in Int, a < b, NEW p \in Nat \ {0}
  PROVE  a * p + p <= b * p
<1>1. (b - a - 1) * p >= 0
  OBVIOUS
<1>2. (b - a - 1) * p = b * p - a * p - p
  OBVIOUS
<1> QED
  BY <1>1, <1>2

\* How many reloads it takes: the least that reach.
LEMMA ReloadsIs ==
  ASSUME NEW missing \in Nat \ {0}, NEW period \in Nat \ {0}, NEW q \in Nat \ {0},
         q * period - period < missing, missing <= q * period
  PROVE  Reloads(missing, period) = q
<1> DEFINE k == Reloads(missing, period)
<1>1. k \in Nat \ {0} /\ missing <= k * period /\ k * period <= missing + period - 1
  BY ReloadRange
<1> HIDE DEF k
<1>2. k * period \in Nat /\ q * period \in Nat
  BY <1>1
<1>3. ~(k < q)
  <2>1. k < q => k * period + period <= q * period
    BY <1>1, Monotone
  <2> QED
    BY <1>1, <1>2, <2>1
<1>4. ~(q < k)
  <2>1. q < k => q * period + period <= k * period
    BY <1>1, Monotone
  <2> QED
    BY <1>1, <1>2, <2>1
<1>5. k = q
  BY <1>1, <1>3, <1>4
<1> QED
  BY <1>5 DEF k

LEMMA TimerParts ==
  ASSUME NEW t \in Timer
  PROVE  /\ t.latch \in Nat /\ t.count \in Nat /\ t.running \in BOOLEAN
         /\ t.start \in BOOLEAN /\ t.oneshot \in BOOLEAN /\ t.source \in Sources
         /\ Period(t) \in Nat \ {0}
<1>1. Period(t) \in Nat \ {0}
  BY PeriodRange, WrapFact
<1> QED
  BY <1>1, WrapFact DEF Timer

LEMMA CountedTimer ==
  ASSUME NEW t \in Timer, NEW c
  PROVE  LET u == [t EXCEPT !.count = c]
         IN  /\ u.count = c /\ u.latch = t.latch /\ u.running = t.running
             /\ u.oneshot = t.oneshot /\ u.source = t.source
             /\ Period(u) = Period(t) /\ Stopped(u) = Stopped(t)
             /\ \A d : [u EXCEPT !.count = d] = [t EXCEPT !.count = d]
             /\ (t.count = c => u = t)
BY DEF Timer, Period, Stopped

\* One event more, whatever the number before it.
LEMMA CountNext ==
  ASSUME NEW t \in Timer, t.running, NEW n \in Nat, NEW floor \in {0, 1}
  PROVE  LET c == Count(t, n, floor)
             u == TimerCycle(c.timer, c.timer.running, floor)
             d == Count(t, n + 1, floor)
         IN  d.timer = u.timer /\ d.times = c.times + u.times /\ u.times \in {0, 1}
<1> DEFINE left == t.count - n
           missing == floor - left
           period == Period(t)
           c == Count(t, n, floor)
           u == TimerCycle(c.timer, c.timer.running, floor)
           d == Count(t, n + 1, floor)
           With(x) == [t EXCEPT !.count = x]
<1> SUFFICES d.timer = u.timer /\ d.times = c.times + u.times /\ u.times \in {0, 1}
  OBVIOUS
<1>1. /\ left \in Int /\ missing \in Int /\ period \in Nat \ {0}
      /\ t.count - (n + 1) = left - 1 /\ floor - (left - 1) = missing + 1
      /\ (missing <= 0 <=> left >= floor)
  <2>1. t.count \in Int /\ period \in Nat \ {0}
    BY TimerParts
  <2> HIDE DEF period
  <2> QED
    BY <2>1
<1>2. c = IF missing <= 0 THEN [timer |-> With(left), times |-> 0]
          ELSE IF t.oneshot THEN [timer |-> Stopped(t), times |-> 1]
          ELSE [timer |-> With(left + Reloads(missing, period) * period),
                times |-> Reloads(missing, period)]
  BY DEF Count, Reloaded
<1>3. d = IF missing + 1 <= 0 THEN [timer |-> With(left - 1), times |-> 0]
          ELSE IF t.oneshot THEN [timer |-> Stopped(t), times |-> 1]
          ELSE [timer |-> With((left - 1) + Reloads(missing + 1, period) * period),
                times |-> Reloads(missing + 1, period)]
  BY <1>1 DEF Count, Reloaded
\* A cycle of a running timer that stands at x.
<1>4. ASSUME NEW x \in Int, x >= floor
      PROVE  TimerCycle(With(x), With(x).running, floor) =
               IF x - 1 >= floor THEN [timer |-> With(x - 1), times |-> 0]
               ELSE IF t.oneshot THEN [timer |-> Stopped(t), times |-> 1]
               ELSE [timer |-> With((x - 1) + period), times |-> 1]
  <2> DEFINE y == With(x)
  <2>1. /\ y.count = x /\ y.latch = t.latch /\ y.running /\ y.oneshot = t.oneshot
        /\ Period(y) = period /\ Stopped(y) = Stopped(t)
        /\ \A e : [y EXCEPT !.count = e] = With(e)
    BY CountedTimer
  <2>2. x - 1 + period >= floor
    BY <1>1, <1>4
  <2>3. Stopped(y) = [y EXCEPT !.count = y.latch, !.running = FALSE, !.start = FALSE]
    BY DEF Stopped
  <2> HIDE DEF y, period
  <2>4. 1 * period = period
    BY <1>1
  <2> QED
    BY <2>1, <2>2, <2>3, <2>4 DEF TimerCycle, y
<1> HIDE DEF left, missing, period, c, d, With
<1>5. CASE missing < 0
  <2>1. c.timer = With(left) /\ c.times = 0 /\ d.timer = With(left - 1) /\ d.times = 0
    BY <1>1, <1>2, <1>3, <1>5
  <2>2. left >= floor /\ left - 1 >= floor
    BY <1>1, <1>5 DEF missing
  <2>3. u = [timer |-> With(left - 1), times |-> 0]
    BY <1>1, <1>4, <2>1, <2>2
  <2> HIDE DEF u
  <2> QED
    BY <2>1, <2>3
<1>6. CASE missing = 0 /\ t.oneshot
  <2>1. c.timer = With(left) /\ c.times = 0 /\ d.timer = Stopped(t) /\ d.times = 1
    BY <1>1, <1>2, <1>3, <1>6
  <2>2. left >= floor /\ ~(left - 1 >= floor)
    BY <1>1, <1>6 DEF missing
  <2>3. u = [timer |-> Stopped(t), times |-> 1]
    BY <1>1, <1>4, <1>6, <2>1, <2>2
  <2> HIDE DEF u
  <2> QED
    BY <2>1, <2>3
<1>7. CASE missing = 0 /\ ~t.oneshot
  <2>1. Reloads(1, period) = 1 /\ 1 * period = period
    <3>1. 1 * period - period < 1 /\ 1 <= 1 * period
      BY <1>1
    <3> QED
      BY <1>1, <3>1, ReloadsIs
  <2>2. c.timer = With(left) /\ c.times = 0
    BY <1>1, <1>2, <1>7
  <2>3. d.timer = With((left - 1) + period) /\ d.times = 1
    <3>1. missing + 1 = 1
      BY <1>7
    <3> QED
      BY <1>3, <1>7, <2>1, <3>1
  <2>4. left >= floor /\ ~(left - 1 >= floor)
    BY <1>1, <1>7 DEF missing
  <2>5. u = [timer |-> With((left - 1) + period), times |-> 1]
    BY <1>1, <1>4, <1>7, <2>2, <2>4
  <2> HIDE DEF u
  <2> QED
    BY <2>2, <2>3, <2>5
<1>8. CASE missing > 0 /\ t.oneshot
  <2>1. c.timer = Stopped(t) /\ c.times = 1 /\ d.timer = Stopped(t) /\ d.times = 1
    BY <1>1, <1>2, <1>3, <1>8
  <2>2. Stopped(t).running = FALSE
    BY DEF Stopped, Timer
  <2>3. u = [timer |-> Stopped(t), times |-> 0]
    BY <2>1, <2>2 DEF TimerCycle, Idle
  <2> HIDE DEF u
  <2> QED
    BY <2>1, <2>3
<1>9. CASE missing > 0 /\ ~t.oneshot
  <2> DEFINE q == Reloads(missing, period)
             x == left + q * period
  <2>1. q \in Nat \ {0} /\ missing <= q * period /\ q * period <= missing + period - 1
    BY <1>1, <1>9, ReloadRange
  <2>2. c.timer = With(x) /\ c.times = q
    BY <1>1, <1>2, <1>9
  <2> DEFINE more == missing + 1
             p == q + 1
  <2>3. /\ q * period \in Nat /\ p * period = q * period + period
        /\ more \in Nat \ {0} /\ p \in Nat \ {0}
    BY <1>1, <1>9, <2>1
  <2>4. d.timer = With((left - 1) + Reloads(more, period) * period) /\ d.times = Reloads(more, period)
    BY <1>1, <1>3, <1>9
  <2> HIDE DEF q, more, p
  <2>5. x \in Int /\ x >= floor
    BY <1>1, <2>1, <2>3 DEF missing
  <2>6. CASE x - 1 >= floor
    <3>1. Reloads(more, period) = q
      <4>1. more <= q * period /\ q * period - period < more
        BY <1>1, <2>1, <2>3, <2>6 DEF missing, more
      <4> QED
        BY <1>1, <2>1, <2>3, <4>1, ReloadsIs
    <3>2. (left - 1) + q * period = x - 1
      BY <1>1, <2>3
    <3> HIDE DEF x
    <3>3. u = [timer |-> With(x - 1), times |-> 0]
      BY <1>4, <2>2, <2>5, <2>6
    <3> HIDE DEF u
    <3>4. u.timer = With(x - 1) /\ u.times = 0
      BY <3>3
    <3>5. d.timer = With(x - 1) /\ d.times = q
      BY <2>4, <3>1, <3>2
    <3> QED
      BY <2>1, <2>2, <3>4, <3>5
  <2>7. CASE ~(x - 1 >= floor)
    <3>1. Reloads(more, period) = p
      <4>1. more <= p * period /\ p * period - period < more
        BY <1>1, <2>1, <2>3, <2>5, <2>7 DEF missing, more
      <4> QED
        BY <1>1, <2>1, <2>3, <4>1, ReloadsIs
    <3>2. (left - 1) + p * period = (x - 1) + period
      BY <1>1, <2>3
    <3> HIDE DEF x
    <3>3. u = [timer |-> With((x - 1) + period), times |-> 1]
      BY <1>4, <1>9, <2>2, <2>5, <2>7
    <3> HIDE DEF u
    <3>4. u.timer = With((x - 1) + period) /\ u.times = 1
      BY <3>3
    <3>5. d.timer = With((x - 1) + period) /\ d.times = q + 1
      BY <2>4, <3>1, <3>2 DEF p
    <3> QED
      BY <2>1, <2>2, <3>4, <3>5
  <2> QED
    BY <2>6, <2>7
<1>10. missing < 0 \/ missing = 0 \/ missing > 0
  BY <1>1
<1> HIDE DEF u
<1> QED
  BY <1>5, <1>6, <1>7, <1>8, <1>9, <1>10

\* The first event, which may find a count already below its floor.
LEMMA CountFirst ==
  ASSUME NEW t \in Timer, t.running, NEW floor \in {0, 1}
  PROVE  LET u == TimerCycle(t, TRUE, floor)
             d == Count(t, 1, floor)
         IN  d.timer = u.timer /\ d.times = u.times /\ u.times \in {0, 1, 2}
<1> DEFINE left == t.count - 1
           missing == floor - left
           period == Period(t)
           u == TimerCycle(t, TRUE, floor)
           d == Count(t, 1, floor)
           With(x) == [t EXCEPT !.count = x]
           k == IF left + period >= floor THEN 1 ELSE 2
<1> SUFFICES d.timer = u.timer /\ d.times = u.times /\ u.times \in {0, 1, 2}
  OBVIOUS
<1>1. t.count \in Nat /\ period \in Nat \ {0}
  BY TimerParts
<1>2. left \in Int /\ left >= -1 /\ missing \in Int /\ (missing <= 0 <=> left >= floor)
  BY <1>1
<1>3. d = IF missing <= 0 THEN [timer |-> With(left), times |-> 0]
          ELSE IF t.oneshot THEN [timer |-> Stopped(t), times |-> 1]
          ELSE [timer |-> With(left + Reloads(missing, period) * period),
                times |-> Reloads(missing, period)]
  BY DEF Count, Reloaded
<1>4. u = IF left >= floor THEN [timer |-> With(left), times |-> 0]
          ELSE IF t.oneshot THEN [timer |-> Stopped(t), times |-> 1]
          ELSE [timer |-> With(left + k * period), times |-> k]
  BY DEF TimerCycle, Stopped
<1>5. missing > 0 => Reloads(missing, period) = k
  <2> SUFFICES ASSUME missing > 0 PROVE Reloads(missing, period) = k
    OBVIOUS
  <2>1. missing \in Nat \ {0} /\ k \in Nat \ {0} /\ missing <= 2
    BY <1>2
  <2>2. k * period - period < missing /\ missing <= k * period
    <3>1. 1 * period = period /\ 2 * period = period + period
      BY <1>1
    <3>2. CASE k = 1
      BY <1>1, <1>2, <2>1, <3>1, <3>2
    <3>3. CASE k = 2
      <4>1. left + period < floor
        BY <1>1, <1>2, <3>3
      <4>2. period = 1 /\ missing = 2
        <5> HIDE DEF period
        <5> QED
          BY <1>1, <1>2, <2>1, <4>1
      <4> HIDE DEF k, period, missing
      <4> QED
        BY <3>1, <3>3, <4>2
    <3> QED
      BY <3>2, <3>3
  <2> HIDE DEF missing, period, k
  <2> QED
    BY <1>1, <2>1, <2>2, ReloadsIs
<1>6. k \in {1, 2}
  OBVIOUS
<1> HIDE DEF d, u, k, period, With, left, missing
<1> QED
  BY <1>2, <1>3, <1>4, <1>5, <1>6

LEMMA CountNone ==
  ASSUME NEW t \in Timer
  PROVE  Count(t, 0, 0) = Idle(t)
<1>1. t.count - 0 = t.count /\ 0 - t.count <= 0
  BY TimerParts
<1>2. [t EXCEPT !.count = t.count] = t
  BY CountedTimer
<1> QED
  BY <1>1, <1>2 DEF Count, Idle

LEMMA TimesNat ==
  ASSUME NEW t \in Timer, NEW n \in Nat, NEW floor \in {0, 1}
  PROVE  Count(t, n, floor).times \in Nat
<1> DEFINE missing == floor - (t.count - n)
<1>1. missing \in Int
  BY TimerParts
<1>2. missing > 0 => Reloads(missing, Period(t)) \in Nat
  <2> HIDE DEF missing
  <2> QED
    BY <1>1, TimerParts, ReloadRange
<1>3. \/ missing <= 0 /\ Count(t, n, floor).times = 0
      \/ Count(t, n, floor).times = 1
      \/ missing > 0 /\ Count(t, n, floor).times = Reloads(missing, Period(t))
  BY <1>1 DEF Count
<1> QED
  BY <1>2, <1>3

\* What counting leaves alone.
LEMMA CountKeeps ==
  ASSUME NEW t \in Timer, NEW n, NEW floor
  PROVE  Count(t, n, floor).timer.source = t.source
<1>1. Stopped(t).source = t.source
  BY DEF Stopped, Timer
<1>2. \A c : [t EXCEPT !.count = c].source = t.source
  BY CountedTimer
<1> DEFINE left == t.count - n
           more == left + Reloads(floor - left, Period(t)) * Period(t)
<1>3. \/ Count(t, n, floor) = [timer |-> [t EXCEPT !.count = left], times |-> 0]
      \/ Count(t, n, floor) = [timer |-> Stopped(t), times |-> 1]
      \/ Count(t, n, floor) = [timer |-> [t EXCEPT !.count = more],
                               times |-> Reloads(floor - left, Period(t))]
  BY DEF Count, Reloaded
<1> HIDE DEF left, more
<1>4. [t EXCEPT !.count = left].source = t.source /\ [t EXCEPT !.count = more].source = t.source
  BY <1>2
<1>5. \/ Count(t, n, floor).timer = [t EXCEPT !.count = left]
      \/ Count(t, n, floor).timer = Stopped(t)
      \/ Count(t, n, floor).timer = [t EXCEPT !.count = more]
  BY <1>3
<1> QED
  BY <1>1, <1>4, <1>5, Zenon

-----------------------------------------------------------------------------
(* The two timers of a chip, counted at once and one cycle later. *)

CountA(x, n) == IF x["A"].running THEN Count(x["A"], n, 1) ELSE Idle(x["A"])

CountB(x, n) ==
  IF ~x["B"].running THEN Idle(x["B"])
  ELSE CASE x["B"].source = "phi2"   -> Count(x["B"], n, 1)
         [] x["B"].source = "timerA" -> Cascaded(x["B"], CountA(x, n).times)
         [] x["B"].source = "cnt"    -> Idle(x["B"])

\* One cycle of each, as Cycle takes them.
CycleA(x) == TimerCycle(x["A"], x["A"].running, 1)

FloorB(x) == IF x["B"].source = "timerA" THEN 0 ELSE 1

CycleB1(x) ==
  TimerCycle(x["B"],
    /\ x["B"].running
    /\ x["B"].source = "phi2" \/ (x["B"].source = "timerA" /\ CycleA(x).times > 0), FloorB(x))

CycleB2(x) ==
  TimerCycle(CycleB1(x).timer,
    x["B"].source = "timerA" /\ CycleB1(x).timer.running /\ CycleA(x).times = 2, FloorB(x))

LEMMA TickCiaIs ==
  ASSUME NEW x, NEW n
  PROVE  TickCia(x, n) =
           [timer  |-> [i \in Names |-> IF i = "A" THEN CountA(x, n).timer ELSE CountB(x, n).timer],
            raised |-> {i \in Names : (IF i = "A" THEN CountA(x, n).times ELSE CountB(x, n).times) > 0}]
BY DEF TickCia, CountA, CountB

LEMMA IdleCycle ==
  ASSUME NEW t, NEW floor
  PROVE  TimerCycle(t, FALSE, floor) = Idle(t)
BY DEF TimerCycle

\* The first cycle.
LEMMA CiaFirst ==
  ASSUME NEW x \in [Names -> Timer]
  PROVE  /\ CountA(x, 1).timer = CycleA(x).timer
         /\ CountA(x, 1).times = CycleA(x).times /\ CycleA(x).times \in {0, 1, 2}
         /\ CountB(x, 1).timer = CycleB2(x).timer
         /\ CountB(x, 1).times = CycleB1(x).times + CycleB2(x).times
         /\ CycleB1(x).times \in {0, 1, 2} /\ CycleB2(x).times \in {0, 1}
<1> DEFINE a == x["A"]
           b == x["B"]
           k == CycleA(x).times
<1>0. a \in Timer /\ b \in Timer
  BY DEF Names
<1>1. CountA(x, 1).timer = CycleA(x).timer /\ CountA(x, 1).times = k /\ k \in {0, 1, 2}
  <2>1. CASE a.running
    <3>1. a.running = TRUE
      BY <1>0, <2>1, TimerParts, Zenon
    <3> QED
      BY <1>0, <2>1, <3>1, CountFirst DEF CountA, CycleA
  <2>2. CASE ~a.running
    <3>1. a.running = FALSE
      BY <1>0, <2>2, TimerParts, Zenon
    <3> QED
      BY <2>2, <3>1 DEF CountA, CycleA, TimerCycle, Idle
  <2> QED
    BY <2>1, <2>2
<1> HIDE DEF a, b, k
<1> DEFINE B1 == CycleB1(x)
           B2 == CycleB2(x)
           B == CountB(x, 1)
<1>3. b.source \in Sources /\ b.running \in BOOLEAN
  BY <1>0, TimerParts
<1>4. CASE ~b.running \/ b.source = "cnt"
  <2>1. B = Idle(b)
    BY <1>4 DEF CountB, b
  <2>2. B1 = Idle(b)
    <3>1. (b.running /\ (b.source = "phi2" \/ (b.source = "timerA" /\ k > 0))) = FALSE
      BY <1>3, <1>4
    <3> QED
      BY <3>1, IdleCycle DEF CycleB1, b, k
  <2>3. B1.timer = b /\ B1.times = 0
    BY <2>2 DEF Idle
  <2>4. B2 = Idle(b)
    <3>1. (b.source = "timerA" /\ B1.timer.running /\ k = 2) = FALSE
      BY <1>3, <1>4, <2>3
    <3> QED
      BY <2>3, <3>1, IdleCycle DEF CycleB2, b, k
  <2> QED
    BY <1>1, <2>1, <2>3, <2>4 DEF Idle, k
<1>5. CASE b.running /\ b.source = "phi2"
  <2>1. B = Count(b, 1, 1) /\ FloorB(x) = 1
    BY <1>5 DEF CountB, FloorB, b
  <2>2. B1 = TimerCycle(b, TRUE, 1)
    <3>1. (b.running /\ (b.source = "phi2" \/ (b.source = "timerA" /\ k > 0))) = TRUE
      BY <1>3, <1>5
    <3> QED
      BY <2>1, <3>1 DEF CycleB1, b, k
  <2>3. B1.timer = B.timer /\ B1.times = B.times /\ B1.times \in {0, 1, 2}
    BY <1>0, <1>5, <2>1, <2>2, CountFirst
  <2>4. B2 = Idle(B1.timer)
    <3>1. (b.source = "timerA" /\ B1.timer.running /\ k = 2) = FALSE
      BY <1>5
    <3> QED
      BY <3>1, IdleCycle DEF CycleB2, b, k
  <2> QED
    BY <1>1, <2>3, <2>4 DEF Idle, k
<1>6. CASE b.running /\ b.source = "timerA"
  <2>1. B = Count(b, k, 0) /\ FloorB(x) = 0
    BY <1>1, <1>6 DEF CountB, FloorB, b, Cascaded
  <2>2. CASE k = 0
    <3>1. B = Idle(b)
      BY <1>0, <2>1, <2>2, CountNone
    <3>2. (b.running /\ (b.source = "phi2" \/ (b.source = "timerA" /\ k > 0))) = FALSE
      BY <1>6, <2>2
    <3>3. B1 = Idle(b)
      BY <3>2, IdleCycle DEF CycleB1, b, k
    <3>4. (b.source = "timerA" /\ B1.timer.running /\ k = 2) = FALSE
      BY <2>2
    <3>5. B2 = Idle(B1.timer)
      BY <3>4, IdleCycle DEF CycleB2, b, k
    <3> QED
      BY <1>1, <3>1, <3>3, <3>5 DEF Idle, k
  <2>3. CASE k \in {1, 2}
    <3>1. (b.running /\ (b.source = "phi2" \/ (b.source = "timerA" /\ k > 0))) = TRUE
      BY <1>6, <2>3
    <3>2. B1 = TimerCycle(b, TRUE, 0)
      BY <2>1, <3>1 DEF CycleB1, b, k
    <3> DEFINE one == Count(b, 1, 0)
    <3>3. B1.timer = one.timer /\ B1.times = one.times /\ B1.times \in {0, 1, 2}
      BY <1>0, <1>6, <3>2, CountFirst
    <3>4. CASE k = 1
      <4>1. (b.source = "timerA" /\ B1.timer.running /\ k = 2) = FALSE
        BY <3>4
      <4>2. B2 = Idle(B1.timer)
        BY <4>1, IdleCycle DEF CycleB2, b, k
      <4> QED
        BY <1>1, <2>1, <3>3, <3>4, <4>2 DEF Idle, k
    <3>5. CASE k = 2
      <4> DEFINE two == Count(b, 2, 0)
                 u == TimerCycle(one.timer, one.timer.running, 0)
                 run == one.timer.running
      <4>1. two.timer = u.timer /\ two.times = one.times + u.times /\ u.times \in {0, 1}
        <5>1. 1 + 1 = 2
          OBVIOUS
        <5> QED
          BY <1>0, <1>6, <5>1, CountNext
      <4>2. B2 = TimerCycle(one.timer, b.source = "timerA" /\ run /\ k = 2, 0)
        BY <2>1, <3>3 DEF CycleB2, b, k
      <4>3. (b.source = "timerA" /\ run /\ k = 2) <=> run
        BY <1>6, <3>5
      <4>4. B2 = u
        <5>1. CASE run
          BY <4>2, <4>3, <5>1 DEF TimerCycle
        <5>2. CASE ~run
          BY <4>2, <4>3, <5>2 DEF TimerCycle
        <5> QED
          BY <5>1, <5>2
      <4> HIDE DEF u, one, two
      <4>5. B = two
        BY <2>1, <3>5 DEF two
      <4> QED
        BY <1>1, <3>3, <4>1, <4>4, <4>5 DEF k
    <3> QED
      BY <2>3, <3>4, <3>5
  <2> QED
    BY <1>1, <2>2, <2>3
<1> QED
  BY <1>3, <1>4, <1>5, <1>6 DEF Sources

LEMMA CountsNat ==
  ASSUME NEW x \in [Names -> Timer], NEW n \in Nat
  PROVE  CountA(x, n).times \in Nat /\ CountB(x, n).times \in Nat
<1> DEFINE a == x["A"]
           b == x["B"]
<1>0. a \in Timer /\ b \in Timer
  BY DEF Names
<1>1. CountA(x, n).times \in Nat
  <2>1. Count(a, n, 1).times \in Nat
    BY <1>0, TimesNat
  <2> QED
    BY <2>1 DEF CountA, Idle
<1> DEFINE k == CountA(x, n).times
<1>2. Count(b, n, 1).times \in Nat /\ Count(b, k, 0).times \in Nat
  <2> HIDE DEF k
  <2> QED
    BY <1>0, <1>1, TimesNat DEF k
<1>3. b.source \in Sources
  BY <1>0, TimerParts
<1> QED
  BY <1>1, <1>2, <1>3 DEF CountB, Idle, Cascaded, Sources

\* One cycle more.
LEMMA CiaNext ==
  ASSUME NEW x \in [Names -> Timer], NEW n \in Nat, NEW s,
         s["A"] = CountA(x, n).timer, s["B"] = CountB(x, n).timer
  PROVE  /\ CountA(x, n + 1).timer = CycleA(s).timer
         /\ CountA(x, n + 1).times = CountA(x, n).times + CycleA(s).times
         /\ CycleA(s).times \in {0, 1}
         /\ CountB(x, n + 1).timer = CycleB2(s).timer
         /\ CountB(x, n + 1).times = CountB(x, n).times + CycleB1(s).times + CycleB2(s).times
         /\ CycleB1(s).times \in {0, 1} /\ CycleB2(s).times = 0
<1> DEFINE a == x["A"]
           b == x["B"]
           k == CycleA(s).times
           ta == CountA(x, n).times
<1>0. a \in Timer /\ b \in Timer
  BY DEF Names
<1>1. CountA(x, n + 1).timer = CycleA(s).timer /\ CountA(x, n + 1).times = ta + k /\ k \in {0, 1}
  <2>1. CASE a.running
    BY <1>0, <2>1, CountNext DEF CountA, CycleA
  <2>2. CASE ~a.running
    <3>1. a.running = FALSE
      BY <1>0, <2>2, TimerParts, Zenon
    <3> QED
      BY <2>2, <3>1 DEF CountA, CycleA, TimerCycle, Idle
  <2> QED
    BY <2>1, <2>2
<1>2. ta \in Nat
  <2>1. ASSUME a.running PROVE ta = Count(a, n, 1).times
    BY <2>1 DEF CountA
  <2>2. ~a.running => ta = 0
    BY DEF CountA, Idle
  <2>3. a.running => Count(a, n, 1).times \in Nat
    BY <1>0, TimesNat
  <2> QED
    BY <2>1, <2>2, <2>3
<1> HIDE DEF a, b, k, ta
<1> DEFINE B1 == CycleB1(s)
           B2 == CycleB2(s)
           c == CountB(x, n)
           d == CountB(x, n + 1)
           now == s["B"]
<1>3. b.source \in Sources /\ b.running \in BOOLEAN
  BY <1>0, TimerParts
<1>4. now = c.timer /\ now.source = b.source
  <2>1. c = Idle(b) \/ c = Count(b, n, 1) \/ c = Count(b, ta, 0)
    BY <1>3 DEF CountB, b, ta, Cascaded, Sources
  <2>2. c.timer.source = b.source
    <3>1. CASE c = Idle(b)
      BY <3>1 DEF Idle
    <3>2. CASE c = Count(b, n, 1)
      BY <1>0, <3>2, CountKeeps
    <3>3. CASE c = Count(b, ta, 0)
      BY <1>0, <3>3, CountKeeps
    <3> QED
      BY <2>1, <3>1, <3>2, <3>3
  <2> QED
    BY <2>2
<1>5. CASE ~b.running \/ b.source = "cnt"
  <2>1. c = Idle(b) /\ d = Idle(b)
    BY <1>5 DEF CountB, b
  <2>2. now = b
    BY <1>4, <2>1 DEF Idle
  <2>3. (now.running /\ (now.source = "phi2" \/ (now.source = "timerA" /\ k > 0))) = FALSE
    BY <1>3, <1>5, <2>2
  <2>4. B1 = Idle(b)
    BY <2>2, <2>3, IdleCycle DEF CycleB1, b, k
  <2>5. B1.timer = b /\ B1.times = 0
    BY <2>4 DEF Idle
  <2>6. (now.source = "timerA" /\ B1.timer.running /\ k = 2) = FALSE
    BY <1>3, <1>5, <2>2, <2>5
  <2>7. B2 = Idle(b)
    BY <2>5, <2>6, IdleCycle DEF CycleB2, b, k
  <2> QED
    BY <1>1, <2>1, <2>5, <2>7 DEF Idle, k, ta
<1>6. CASE b.running /\ b.source = "phi2"
  <2>1. c = Count(b, n, 1) /\ d = Count(b, n + 1, 1) /\ FloorB(s) = 1
    BY <1>4, <1>6 DEF CountB, FloorB, b
  <2> DEFINE run == now.running
  <2>2. B1 = TimerCycle(now, now.running, 1)
    <3>1. (run /\ (now.source = "phi2" \/ (now.source = "timerA" /\ k > 0))) <=> run
      BY <1>4, <1>6
    <3>2. B1 = TimerCycle(now, run /\ (now.source = "phi2" \/ (now.source = "timerA" /\ k > 0)), 1)
      BY <2>1 DEF CycleB1, k
    <3> QED
      BY <3>1, <3>2 DEF TimerCycle
  <2>3. d.timer = B1.timer /\ d.times = c.times + B1.times /\ B1.times \in {0, 1}
    <3> HIDE DEF B1, now, d, c
    <3> QED
      BY <1>0, <1>4, <1>6, <2>1, <2>2, CountNext
  <2>4. (now.source = "timerA" /\ B1.timer.running /\ k = 2) = FALSE
    BY <1>4, <1>6
  <2>5. B2 = Idle(B1.timer)
    BY <2>4, IdleCycle DEF CycleB2, k
  <2>6. c.times \in Nat
    BY <1>0, <2>1, TimesNat
  <2> QED
    BY <1>1, <2>3, <2>5, <2>6 DEF Idle, k, ta
<1>7. CASE b.running /\ b.source = "timerA"
  <2>1. c = Count(b, ta, 0) /\ d = Count(b, ta + k, 0) /\ FloorB(s) = 0
    BY <1>1, <1>4, <1>7 DEF CountB, FloorB, b, Cascaded, ta
  <2>2. c.times \in Nat
    BY <1>0, <1>2, <2>1, TimesNat
  <2> DEFINE run == now.running
  <2>3. B1 = TimerCycle(now, run /\ k = 1, 0)
    <3>1. (run /\ (now.source = "phi2" \/ (now.source = "timerA" /\ k > 0))) <=> (run /\ k = 1)
      BY <1>1, <1>4, <1>7
    <3>2. B1 = TimerCycle(now, run /\ (now.source = "phi2" \/ (now.source = "timerA" /\ k > 0)), 0)
      BY <2>1 DEF CycleB1, k
    <3> QED
      BY <3>1, <3>2 DEF TimerCycle
  <2>4. d.timer = B1.timer /\ d.times = c.times + B1.times /\ B1.times \in {0, 1}
    <3>1. CASE k = 0
      <4>1. B1 = Idle(now) /\ d = c
        BY <1>2, <2>1, <2>3, <3>1 DEF TimerCycle
      <4> QED
        BY <1>4, <2>2, <4>1 DEF Idle
    <3>2. CASE k = 1
      <4>1. B1 = TimerCycle(now, now.running, 0)
        BY <2>3, <3>2 DEF TimerCycle
      <4> HIDE DEF B1, now, d, c
      <4> QED
        BY <1>0, <1>2, <1>4, <1>7, <2>1, <3>2, <4>1, CountNext
    <3> QED
      BY <1>1, <3>1, <3>2
  <2>5. (now.source = "timerA" /\ B1.timer.running /\ k = 2) = FALSE
    BY <1>1
  <2>6. B2 = Idle(B1.timer)
    BY <2>5, IdleCycle DEF CycleB2, k
  <2> QED
    BY <1>1, <2>2, <2>4, <2>6 DEF Idle, k, ta
<1> QED
  BY <1>3, <1>5, <1>6, <1>7 DEF Sources

-----------------------------------------------------------------------------
(* The raster, advanced at once and one cycle later. *)

\* A line in progress was looked at, but for the first one before its first cycle.
Seen(r) == r.last = r.line \/ (r.last = -1 /\ r.line = 0 /\ r.cycle = 0)

Turned(r, n) == r.cycle + n >= CyclesPerLine
LineAfter(r) == IF r.line = LinesPerFrame - 1 THEN 0 ELSE r.line + 1
LineAt(r, n) == IF Turned(r, n) THEN LineAfter(r) ELSE r.line
CycleAt(r, n) == IF Turned(r, n) THEN r.cycle + n - CyclesPerLine ELSE r.cycle + n

Flag(b) == IF b THEN {"raster"} ELSE {}

\* One cycle of it, as Cycle takes it.
TurnsNow(r) == r.cycle = CyclesPerLine - 1
LineNow(r)  == IF ~TurnsNow(r) THEN r.line
               ELSE IF r.line = LinesPerFrame - 1 THEN 0 ELSE r.line + 1
CycleRaster(r) == [r EXCEPT !.cycle = IF TurnsNow(r) THEN 0 ELSE @ + 1,
                            !.line = LineNow(r), !.last = LineNow(r)]
CycleFlag(r)   == Flag(LineNow(r) # r.last /\ LineNow(r) = r.compare)
CycleDrawn(r)  == IF LineNow(r) # r.last /\ r.last >= 0 THEN {r.last} ELSE {}

LEMMA CycleIs ==
  ASSUME NEW s
  PROVE  Cycle(s) =
           [timer  |-> [i \in Names |-> IF i = "A" THEN CycleA(s.timer).timer ELSE CycleB2(s.timer).timer],
            raster |-> CycleRaster(s.raster),
            raised |-> (s.raised \cup {i \in Names : IF i = "A" THEN CycleA(s.timer).times > 0
                                      ELSE CycleB1(s.timer).times + CycleB2(s.timer).times > 0})
                       \cup CycleFlag(s.raster),
            drawn  |-> s.drawn \cup CycleDrawn(s.raster)]
BY DEF Cycle, CycleA, CycleB1, CycleB2, FloorB, CycleRaster, CycleFlag, CycleDrawn, Flag, LineNow, TurnsNow

LEMMA RasterParts ==
  ASSUME NEW r \in Raster
  PROVE  /\ r.cycle \in Nat /\ r.cycle < CyclesPerLine /\ r.line \in Nat /\ r.line < LinesPerFrame
         /\ r.last \in Int /\ LineAfter(r) \in Nat /\ LineAfter(r) # r.line
         /\ CyclesPerLine \in Nat \ {0} /\ LinesPerFrame \in Nat \ {0, 1}
BY ClockAssumption DEF Raster, LineAfter

\* Less than two lines' worth of a count.
LEMMA OneTurn ==
  ASSUME NEW a \in Nat, NEW c \in Nat \ {0}, a < c + c
  PROVE  /\ a \div c = IF a < c THEN 0 ELSE 1
         /\ a % c = IF a < c THEN a ELSE a - c
<1> DEFINE q == a \div c
<1>1. q \in Nat /\ q * c <= a /\ a < q * c + c
  BY DivBounds
<1>2. a % c = a - q * c
  OBVIOUS
<1> HIDE DEF q
<1>3. q < 2
  <2>1. ASSUME q >= 2 PROVE FALSE
    <3>1. (q - 2) * c >= 0 /\ (q - 2) * c = q * c - c - c
      BY <1>1, <2>1
    <3>2. q * c \in Int
      BY <1>1
    <3> QED
      BY <1>1, <3>1, <3>2
  <2> QED
    BY <1>1, <2>1
<1>4. CASE q = 0
  <2>1. q * c = 0
    BY <1>4
  <2> QED
    BY <1>1, <1>2, <1>4, <2>1 DEF q
<1>5. CASE q = 1
  <2>1. q * c = c
    BY <1>5
  <2> QED
    BY <1>1, <1>2, <1>5, <2>1 DEF q
<1> QED
  BY <1>1, <1>3, <1>4, <1>5

LEMMA AdvancedIs ==
  ASSUME NEW r \in Raster, NEW n \in 0..(CyclesPerLine - 1)
  PROVE  Advanced(r, n) = [r EXCEPT !.cycle = CycleAt(r, n), !.line = LineAt(r, n)]
<1> DEFINE a == r.cycle + n
<1>1. /\ CyclesPerLine \in Nat \ {0} /\ LinesPerFrame \in Nat \ {0, 1}
      /\ r.cycle \in Nat /\ r.cycle < CyclesPerLine /\ r.line \in Nat /\ r.line < LinesPerFrame
  BY RasterParts
<1>2. a \in Nat /\ a < CyclesPerLine + CyclesPerLine
  BY <1>1
<1> HIDE DEF a
<1>3. /\ a \div CyclesPerLine = IF a < CyclesPerLine THEN 0 ELSE 1
      /\ a % CyclesPerLine = IF a < CyclesPerLine THEN a ELSE a - CyclesPerLine
  BY <1>1, <1>2, OneTurn
<1>4. a % CyclesPerLine = CycleAt(r, n)
  <2>1. Turned(r, n) <=> ~(a < CyclesPerLine)
    BY <1>1 DEF Turned, a
  <2>2. CycleAt(r, n) = IF Turned(r, n) THEN a - CyclesPerLine ELSE a
    BY <1>1 DEF CycleAt, a
  <2> QED
    BY <1>3, <2>1, <2>2
<1> DEFINE b == r.line + a \div CyclesPerLine
<1>5. b \in Nat /\ b < LinesPerFrame + LinesPerFrame /\ b = IF a < CyclesPerLine THEN r.line ELSE r.line + 1
  BY <1>1, <1>3
<1> HIDE DEF b
<1>6. b % LinesPerFrame = IF b < LinesPerFrame THEN b ELSE b - LinesPerFrame
  BY <1>1, <1>5, OneTurn
<1>7. b % LinesPerFrame = LineAt(r, n)
  BY <1>1, <1>2, <1>5, <1>6 DEF LineAt, LineAfter, Turned, a
<1> QED
  BY <1>4, <1>7 DEF Advanced, a, b

LEMMA TickVicIs ==
  ASSUME NEW r \in Raster, NEW n \in 0..(CyclesPerLine - 1)
  PROVE  LET v == TickVic(r, n)
             w == v.raster
         IN  /\ w = [r EXCEPT !.cycle = CycleAt(r, n), !.line = LineAt(r, n), !.last = LineAt(r, n)]
             /\ w.cycle = CycleAt(r, n) /\ w.line = LineAt(r, n) /\ w.last = LineAt(r, n)
             /\ w.compare = r.compare
             /\ v.drawn = IF LineAt(r, n) # r.last /\ r.last >= 0 THEN {r.last} ELSE {}
             /\ (v.raised <=> LineAt(r, n) # r.last /\ LineAt(r, n) = r.compare)
<1> DEFINE now == [r EXCEPT !.cycle = CycleAt(r, n), !.line = LineAt(r, n)]
           w == [r EXCEPT !.cycle = CycleAt(r, n), !.line = LineAt(r, n), !.last = LineAt(r, n)]
<1>1. /\ now.line = LineAt(r, n) /\ [now EXCEPT !.last = LineAt(r, n)] = w
      /\ w.cycle = CycleAt(r, n) /\ w.line = LineAt(r, n) /\ w.last = LineAt(r, n)
      /\ w.compare = r.compare
  BY DEF Raster
<1>2. Advanced(r, n) = now
  BY AdvancedIs
<1>3. TickVic(r, n).raster = w
  BY <1>1, <1>2 DEF TickVic
<1> HIDE DEF now, w
<1> QED
  BY <1>1, <1>2, <1>3 DEF TickVic, w

LEMMA VicFirst ==
  ASSUME NEW r \in Raster, Seen(r), 1 \in 0..(CyclesPerLine - 1)
  PROVE  LET v == TickVic(r, 1)
         IN  v.raster = CycleRaster(r) /\ v.drawn = CycleDrawn(r) /\ Flag(v.raised) = CycleFlag(r)
<1> DEFINE one == 1
           v == TickVic(r, one)
<1>1. LineAt(r, one) = LineNow(r) /\ CycleAt(r, one) = IF TurnsNow(r) THEN 0 ELSE r.cycle + 1
  BY RasterParts DEF LineAt, LineNow, CycleAt, Turned, TurnsNow, LineAfter
<1>2. one \in 0..(CyclesPerLine - 1)
  OBVIOUS
<1> HIDE DEF one
<1>3. /\ v.raster = [r EXCEPT !.cycle = CycleAt(r, one), !.line = LineAt(r, one), !.last = LineAt(r, one)]
      /\ v.drawn = IF LineAt(r, one) # r.last /\ r.last >= 0 THEN {r.last} ELSE {}
      /\ (v.raised <=> LineAt(r, one) # r.last /\ LineAt(r, one) = r.compare)
  BY <1>2, TickVicIs
<1> HIDE DEF v
<1> QED
  BY <1>1, <1>3 DEF CycleRaster, CycleDrawn, CycleFlag, Flag, v, one

LEMMA VicNext ==
  ASSUME NEW r \in Raster, Seen(r), NEW n \in 1..(CyclesPerLine - 2)
  PROVE  LET v == TickVic(r, n)
             u == TickVic(r, n + 1)
         IN  /\ u.raster = CycleRaster(v.raster)
             /\ u.drawn = v.drawn \cup CycleDrawn(v.raster)
             /\ Flag(u.raised) = Flag(v.raised) \cup CycleFlag(v.raster)
<1> DEFINE v == TickVic(r, n)
           u == TickVic(r, n + 1)
           w == v.raster
           m == n + 1
<1>0. /\ r.cycle \in Nat /\ r.cycle < CyclesPerLine /\ r.line \in Nat /\ r.line < LinesPerFrame
      /\ r.last \in Int /\ LineAfter(r) \in Nat /\ LineAfter(r) # r.line
      /\ CyclesPerLine \in Nat \ {0} /\ LinesPerFrame \in Nat \ {0, 1}
      /\ n \in 0..(CyclesPerLine - 1) /\ m \in 0..(CyclesPerLine - 1)
  <2>1. CyclesPerLine \in Nat
    BY RasterParts
  <2> QED
    BY <2>1, RasterParts
<1>1. /\ w = [r EXCEPT !.cycle = CycleAt(r, n), !.line = LineAt(r, n), !.last = LineAt(r, n)]
      /\ w.cycle = CycleAt(r, n) /\ w.line = LineAt(r, n) /\ w.last = LineAt(r, n)
      /\ w.compare = r.compare
      /\ v.drawn = IF LineAt(r, n) # r.last /\ r.last >= 0 THEN {r.last} ELSE {}
      /\ (v.raised <=> LineAt(r, n) # r.last /\ LineAt(r, n) = r.compare)
  <2>1. n \in 0..(CyclesPerLine - 1)
    BY <1>0
  <2> QED
    BY <2>1, TickVicIs
<1> HIDE DEF m
<1>2. TickVic(r, m).raster =
        [r EXCEPT !.cycle = CycleAt(r, m), !.line = LineAt(r, m), !.last = LineAt(r, m)]
  BY <1>0, TickVicIs
<1>3. /\ TickVic(r, m).drawn = IF LineAt(r, m) # r.last /\ r.last >= 0 THEN {r.last} ELSE {}
      /\ (TickVic(r, m).raised <=> LineAt(r, m) # r.last /\ LineAt(r, m) = r.compare)
  BY <1>0, TickVicIs
\* Where the next cycle ends a line, and what it leaves.
<1>4. /\ LineNow(w) = LineAt(r, m)
      /\ (IF TurnsNow(w) THEN 0 ELSE w.cycle + 1) = CycleAt(r, m)
  BY <1>0, <1>1 DEF LineNow, TurnsNow, LineAt, CycleAt, Turned, LineAfter, m
<1>5. CycleRaster(w) = TickVic(r, m).raster
  <2>1. CycleRaster(w) = [w EXCEPT !.cycle = CycleAt(r, m), !.line = LineAt(r, m), !.last = LineAt(r, m)]
    BY <1>4 DEF CycleRaster
  <2> QED
    BY <1>1, <1>2, <2>1 DEF Raster
<1> HIDE DEF u, v, w
<1>6. TickVic(r, m).drawn = v.drawn \cup CycleDrawn(w)
  BY <1>0, <1>1, <1>3, <1>4 DEF CycleDrawn, LineAt, Turned, Seen, m
<1>7. Flag(TickVic(r, m).raised) = Flag(v.raised) \cup CycleFlag(w)
  BY <1>0, <1>1, <1>3, <1>4 DEF CycleFlag, Flag, LineAt, Turned, Seen, m
<1> QED
  BY <1>5, <1>6, <1>7 DEF u, v, w, m

-----------------------------------------------------------------------------
(* All of step_hardware. *)

Start == [timer |-> timer, raster |-> raster, raised |-> {}, drawn |-> {}]

\* What StepHardware(n) leaves and raises, as StepIsCycles states it.
AtOnce(n) ==
  LET cia == TickCia(timer, n)
      vic == TickVic(raster, n)
  IN  [timer  |-> cia.timer, raster |-> vic.raster, drawn |-> vic.drawn,
       raised |-> cia.raised \cup (IF vic.raised THEN {"raster"} ELSE {})]

LEMMA AtOnceFirst ==
  ASSUME TypeOK, Seen(raster), 1 \in 0..(CyclesPerLine - 1)
  PROVE  AtOnce(1) = Cycle(Start)
<1> DEFINE x == timer
           cia == TickCia(x, 1)
           vic == TickVic(raster, 1)
           onA == CycleA(x).times > 0
           onB == CycleB1(x).times + CycleB2(x).times > 0
<1>1. x \in [Names -> Timer] /\ raster \in Raster
  BY DEF TypeOK
<1>2. /\ cia.timer = [i \in Names |-> IF i = "A" THEN CycleA(x).timer ELSE CycleB2(x).timer]
      /\ cia.raised = {i \in Names : IF i = "A" THEN onA ELSE onB}
  BY <1>1, TickCiaIs, CiaFirst
<1>3. vic.raster = CycleRaster(raster) /\ vic.drawn = CycleDrawn(raster) /\ Flag(vic.raised) = CycleFlag(raster)
  BY <1>1, VicFirst
<1>4. AtOnce(1) = [timer |-> cia.timer, raster |-> vic.raster, drawn |-> vic.drawn,
                   raised |-> cia.raised \cup Flag(vic.raised)]
  BY DEF AtOnce, Flag
<1>5. Cycle(Start) =
        [timer |-> [i \in Names |-> IF i = "A" THEN CycleA(x).timer ELSE CycleB2(x).timer],
         raster |-> CycleRaster(raster),
         raised |-> ({} \cup {i \in Names : IF i = "A" THEN onA ELSE onB}) \cup CycleFlag(raster),
         drawn |-> {} \cup CycleDrawn(raster)]
  <2>1. Start.timer = x /\ Start.raster = raster /\ Start.raised = {} /\ Start.drawn = {}
    BY DEF Start
  <2> HIDE DEF x
  <2> QED
    BY <2>1, CycleIs DEF x
<1> HIDE DEF cia, vic
<1> QED
  BY <1>2, <1>3, <1>4, <1>5

LEMMA AtOnceNext ==
  ASSUME TypeOK, Seen(raster), NEW n \in 1..(CyclesPerLine - 2)
  PROVE  AtOnce(n + 1) = Cycle(AtOnce(n))
<1> DEFINE x == timer
           c == TickCia(x, n)
           d == TickCia(x, n + 1)
           v == TickVic(raster, n)
           u == TickVic(raster, n + 1)
           s == c.timer
           a == CycleA(s).times
           b == CycleB1(s).times + CycleB2(s).times
           A == CountA(x, n).times
           B == CountB(x, n).times
<1>1. x \in [Names -> Timer] /\ raster \in Raster /\ n \in Nat
  BY ClockAssumption DEF TypeOK
<1>2. /\ s = [i \in Names |-> IF i = "A" THEN CountA(x, n).timer ELSE CountB(x, n).timer]
      /\ c.raised = {i \in Names : (IF i = "A" THEN A ELSE B) > 0}
  BY TickCiaIs
<1>3. s["A"] = CountA(x, n).timer /\ s["B"] = CountB(x, n).timer
  BY <1>2 DEF Names
<1>4. /\ CountA(x, n + 1).timer = CycleA(s).timer /\ CountA(x, n + 1).times = A + a /\ a \in {0, 1}
      /\ CountB(x, n + 1).timer = CycleB2(s).timer /\ CountB(x, n + 1).times = B + b /\ b \in {0, 1}
  <2> HIDE DEF s, x
  <2>1. /\ CountA(x, n + 1).timer = CycleA(s).timer /\ CountA(x, n + 1).times = A + a /\ a \in {0, 1}
        /\ CountB(x, n + 1).timer = CycleB2(s).timer
        /\ CountB(x, n + 1).times = B + CycleB1(s).times + CycleB2(s).times
        /\ CycleB1(s).times \in {0, 1} /\ CycleB2(s).times = 0
    BY <1>1, <1>3, CiaNext
  <2>2. B \in Nat
    BY <1>1, CountsNat
  <2> QED
    BY <2>1, <2>2
<1>5. A \in Nat /\ B \in Nat
  BY <1>1, CountsNat
<1>6. /\ d.timer = [i \in Names |-> IF i = "A" THEN CycleA(s).timer ELSE CycleB2(s).timer]
      /\ d.raised = {i \in Names : (IF i = "A" THEN A + a ELSE B + b) > 0}
  <2> HIDE DEF s, a, b, A, B, x
  <2> QED
    BY <1>4, TickCiaIs
<1>7. d.raised = c.raised \cup {i \in Names : IF i = "A" THEN a > 0 ELSE b > 0}
  <2> HIDE DEF s, a, b, A, B, c, d
  <2> QED
    BY <1>2, <1>4, <1>5, <1>6
<1>8. /\ u.raster = CycleRaster(v.raster)
      /\ u.drawn = v.drawn \cup CycleDrawn(v.raster)
      /\ Flag(u.raised) = Flag(v.raised) \cup CycleFlag(v.raster)
  BY <1>1, VicNext
<1>9. /\ AtOnce(n) = [timer |-> s, raster |-> v.raster, drawn |-> v.drawn,
                      raised |-> c.raised \cup Flag(v.raised)]
      /\ AtOnce(n + 1) = [timer |-> d.timer, raster |-> u.raster, drawn |-> u.drawn,
                          raised |-> d.raised \cup Flag(u.raised)]
  BY DEF AtOnce, Flag
<1> HIDE DEF s, c, d, u, v, x
<1>10. Cycle(AtOnce(n)) =
         [timer  |-> [i \in Names |-> IF i = "A" THEN CycleA(s).timer ELSE CycleB2(s).timer],
          raster |-> CycleRaster(v.raster),
          raised |-> ((c.raised \cup Flag(v.raised)) \cup {i \in Names : IF i = "A" THEN a > 0 ELSE b > 0})
                     \cup CycleFlag(v.raster),
          drawn  |-> v.drawn \cup CycleDrawn(v.raster)]
  <2> DEFINE now == AtOnce(n)
  <2>1. now.timer = s /\ now.raster = v.raster /\ now.raised = c.raised \cup Flag(v.raised) /\ now.drawn = v.drawn
    BY <1>9
  <2> HIDE DEF now
  <2> QED
    BY <2>1, CycleIs DEF now
<1> HIDE DEF a, b
<1> QED
  BY <1>6, <1>7, <1>8, <1>9, <1>10

\* The cycles one by one have only one outcome.
LEMMA CyclesIs ==
  ASSUME NEW n \in Nat, NEW f,
         f = [i \in 0..n |-> IF i = 0 THEN Start ELSE Cycle(f[i - 1])]
  PROVE  Cycles(n) = f[n]
<1> DEFINE at == CHOOSE g : g = [i \in 0..n |-> IF i = 0 THEN Start ELSE Cycle(g[i - 1])]
<1>1. at = [i \in 0..n |-> IF i = 0 THEN Start ELSE Cycle(at[i - 1])]
  OBVIOUS
<1>2. Cycles(n) = at[n]
  BY DEF Cycles, Start
<1> HIDE DEF at
<1>3. \A i \in 0..n : f[i] = IF i = 0 THEN Start ELSE Cycle(f[i - 1])
  OBVIOUS
<1>4. \A i \in 0..n : at[i] = IF i = 0 THEN Start ELSE Cycle(at[i - 1])
  BY <1>1
<1> DEFINE S == {i \in 0..n : at[i] = f[i]}
<1>5. Climbs(S, n)
  <2>1. \A i \in 1..n : i \in 0..n /\ i # 0 /\ i - 1 \in 0..n
    OBVIOUS
  <2>2. 0 \in 0..n
    OBVIOUS
  <2> QED
    BY <1>3, <1>4, <2>1, <2>2 DEF Climbs
<1> HIDE DEF S
<1>6. n \in S
  BY <1>5, Climb
<1> QED
  BY <1>2, <1>6 DEF S

LEMMA AtOnceIsCycles ==
  ASSUME TypeOK, Seen(raster), NEW n \in 1..(CyclesPerLine - 1)
  PROVE  AtOnce(n) = Cycles(n)
<1> DEFINE f == [i \in 0..n |-> IF i = 0 THEN Start ELSE AtOnce(i)]
<1>0. CyclesPerLine \in Nat /\ 1 \in 0..(CyclesPerLine - 1) /\ n \in Nat
  BY ClockAssumption
<1>1. ASSUME NEW i \in 1..n PROVE f[i] = Cycle(f[i - 1])
  <2>1. CASE i = 1
    <3>1. f[i] = AtOnce(1) /\ f[i - 1] = Start
      BY <2>1
    <3> HIDE DEF f
    <3> QED
      BY <1>0, <3>1, AtOnceFirst
  <2>2. CASE i # 1
    <3> DEFINE j == i - 1
    <3>1. j \in 1..(CyclesPerLine - 2) /\ j \in 0..n /\ j # 0 /\ i = j + 1
      BY <1>0, <2>2
    <3>2. f[i] = AtOnce(i) /\ f[j] = AtOnce(j)
      BY <3>1
    <3> HIDE DEF f, j
    <3>3. AtOnce(j + 1) = Cycle(AtOnce(j))
      BY <3>1, AtOnceNext
    <3> QED
      BY <3>1, <3>2, <3>3 DEF j
  <2> QED
    BY <2>1, <2>2
<1>2. f = [i \in 0..n |-> IF i = 0 THEN Start ELSE Cycle(f[i - 1])]
  <2>1. \A i \in 0..n : i = 0 \/ i \in 1..n
    OBVIOUS
  <2>2. \A i \in 0..n : f[i] = IF i = 0 THEN Start ELSE Cycle(f[i - 1])
    <3>1. f[0] = Start
      BY <1>0
    <3> HIDE DEF f
    <3> QED
      BY <1>1, <2>1, <3>1
  <2>3. f = [i \in 0..n |-> f[i]]
    OBVIOUS
  <2> HIDE DEF f
  <2> QED
    BY <2>2, <2>3
<1>3. f[n] = AtOnce(n)
  BY <1>0
<1> HIDE DEF f
<1> QED
  BY <1>0, <1>2, <1>3, CyclesIs

\* The counters with the raster's last line.
SInv == IInv /\ Seen(raster)

LEMMA SeenInv == Spec => []SInv
<1>1. Init => SInv
  BY InitInv DEF Init, SInv, Seen, ColdRaster
<1>2. SInv /\ [Next]_vars => SInv'
  <2> SUFFICES ASSUME SInv, [Next]_vars PROVE Seen(raster)'
    BY StepInv DEF SInv
  <2>1. raster \in Raster /\ Seen(raster)
    BY DEF SInv, IInv, TypeOK
  <2>2. CASE raster' = raster
    BY <2>1, <2>2 DEF Seen
  <2>3. ASSUME NEW v \in CompareValue, WriteCompare(v) PROVE Seen(raster)'
    BY <2>1, <2>3 DEF WriteCompare, Seen, Raster
  <2>4. ASSUME NEW n \in InstructionCycles, StepHardware(n) PROVE Seen(raster)'
    <3>1. raster' = [Advanced(raster, n) EXCEPT !.last = Advanced(raster, n).line]
      BY <2>4 DEF StepHardware, TickVic
    <3>2. \A r \in Raster : [r EXCEPT !.last = r.line].last = r.line /\ [r EXCEPT !.last = r.line].line = r.line
      BY DEF Raster
    <3>3. n \in 0..(CyclesPerLine - 1)
      BY ClockAssumption
    <3>4. raster'.last = LineAt(raster, n) /\ raster'.line = LineAt(raster, n)
      BY <2>1, <2>4, <3>3, TickVicIs DEF StepHardware
    <3> QED
      BY <3>4 DEF Seen
  <2>5. CASE Reset
    BY <2>5 DEF Reset, Seen, ColdRaster
  <2>6. ASSUME NEW i \in Names, NEW v \in Byte, WriteLow(i, v) \/ WriteHigh(i, v)
        PROVE  raster' = raster
    BY <2>6 DEF WriteLow, WriteHigh
  <2>7. ASSUME NEW i \in Names, NEW start, NEW oneshot, NEW load, NEW source,
               WriteControl(i, start, oneshot, load, source)
        PROVE  raster' = raster
    BY <2>7 DEF WriteControl
  <2>8. UNCHANGED vars => raster' = raster
    BY DEF vars
  <2> QED
    BY <2>2, <2>3, <2>4, <2>5, <2>6, <2>7, <2>8 DEF Next
<1> QED
  BY <1>1, <1>2, PTL DEF Spec

\* Counting an instruction's cycles in one call (tick_cia, tick_vic) leaves the counts, the
\* flags and the drawn lines that counting them one by one would, for any latches,
\* one-shot, cascaded or continuous.
THEOREM StepCorrect == Spec => []StepIsCycles
<1>1. SInv => StepIsCycles
  <2> SUFFICES ASSUME SInv, NEW n \in InstructionCycles PROVE AtOnce(n) = Cycles(n)
    BY DEF StepIsCycles, AtOnce
  <2>1. n \in 1..(CyclesPerLine - 1) /\ TypeOK /\ Seen(raster)
    BY ClockAssumption DEF SInv, IInv
  <2> QED
    BY <2>1, AtOnceIsCycles
<1> QED
  BY <1>1, SeenInv, PTL

-----------------------------------------------------------------------------
(* The line the VIC draws. *)

\* Drawing sprite k after those above it (render_sprites, vic.cpp 280-383): the collision
\* registers hold all the sprites that share a pixel so far, though the buffer remembers only
\* the last sprite drawn at each, and those with a pixel on the foreground.
LEMMA SpriteDrawn ==
  ASSUME Sprites \in Nat, NEW k \in Sprite, NEW fg \in SUBSET Pixel,
         NEW paints, \A s \in Sprite : DOMAIN paints[s] \subseteq Pixel,
         NEW from, NEW l, NEW behind \in BOOLEAN,
         Drawn(l, from, fg, paints, (k + 1)..(Sprites - 1))
  PROVE  Drawn(DrawSprite(l, fg, k, paints[k], behind), from, fg, paints, k..(Sprites - 1))
<1> DEFINE S == (k + 1)..(Sprites - 1)
           T == k..(Sprites - 1)
           has(s, px) == px \in DOMAIN paints[s]
           met == {l.collision[px] : px \in DOMAIN paints[k]} \ {None}
           d == DrawSprite(l, fg, k, paints[k], behind)
           meets(s, U) == \E t \in U \ {s}, px \in Pixel : has(s, px) /\ has(t, px)
<1>1. T = S \cup {k} /\ k \notin S /\ k \in Nat /\ S \subseteq Sprite /\ \A s \in S : s \in Nat /\ k < s
  BY DEF Sprite
<1>2. /\ \A px \in Pixel : l.collision[px] \in S \cup {None}
      /\ \A px \in Pixel : l.collision[px] # None => has(l.collision[px], px)
      /\ \A px \in Pixel, s \in S : has(s, px) => l.collision[px] \in 0..s
      /\ l.ss = from.ss \cup {s \in S : meets(s, S)}
      /\ l.sb = from.sb \cup {s \in S : \E px \in fg : has(s, px)}
  BY DEF Drawn
<1>3. /\ d.collision = [px \in Pixel |-> IF has(k, px) THEN k ELSE l.collision[px]]
      /\ d.ss = l.ss \cup met \cup (IF met # {} THEN {k} ELSE {})
      /\ d.sb = l.sb \cup (IF DOMAIN paints[k] \cap fg # {} THEN {k} ELSE {})
  BY DEF DrawSprite
<1> HIDE DEF d, S, T
<1>4. \A px \in Pixel : d.collision[px] \in T \cup {None}
  BY <1>1, <1>2, <1>3
<1>5. \A px \in Pixel : d.collision[px] # None => has(d.collision[px], px)
  BY <1>2, <1>3
<1>6. \A px \in Pixel, s \in T : has(s, px) => d.collision[px] \in 0..s
  BY <1>1, <1>2, <1>3
<1>7. met \subseteq {s \in T : meets(s, T)}
  <2> SUFFICES ASSUME NEW px \in DOMAIN paints[k], l.collision[px] # None
               PROVE  l.collision[px] \in T /\ meets(l.collision[px], T)
    OBVIOUS
  <2>1. px \in Pixel /\ has(k, px)
    BY DEF Sprite
  <2>2. l.collision[px] \in S /\ has(l.collision[px], px)
    BY <1>2, <2>1
  <2> QED
    BY <1>1, <2>1, <2>2
<1>8. k \in {s \in T : meets(s, T)} <=> met # {}
  <2>1. ASSUME meets(k, T) PROVE met # {}
    <3>1. PICK t \in S, px \in Pixel : has(k, px) /\ has(t, px)
      BY <1>1, <2>1
    <3>2. l.collision[px] \in 0..t
      BY <1>2, <3>1
    <3>3. l.collision[px] # None
      BY <1>1, <3>2 DEF None
    <3> QED
      BY <3>1, <3>3
  <2>2. ASSUME met # {} PROVE meets(k, T)
    <3>1. PICK px \in DOMAIN paints[k] : l.collision[px] # None
      BY <2>2
    <3>2. px \in Pixel
      OBVIOUS
    <3>3. l.collision[px] \in S /\ has(l.collision[px], px)
      BY <1>2, <3>1, <3>2
    <3> QED
      BY <1>1, <3>1, <3>2, <3>3
  <2> QED
    BY <1>1, <2>1, <2>2
\* A sprite k newly meets is in the buffer there, or another that it met before hides it.
<1>9. \A s \in S : meets(s, T) => s \in met \/ meets(s, S)
  <2> SUFFICES ASSUME NEW s \in S, meets(s, T), ~meets(s, S) PROVE s \in met
    OBVIOUS
  <2>1. PICK px \in Pixel : has(s, px) /\ has(k, px)
    BY <1>1
  <2>2. l.collision[px] \in 0..s
    BY <1>2, <2>1
  <2>3. l.collision[px] # None /\ l.collision[px] \in S /\ has(l.collision[px], px)
    BY <1>1, <1>2, <2>1, <2>2 DEF None
  <2>4. l.collision[px] = s
    BY <2>1, <2>3
  <2> QED
    BY <2>1, <2>3, <2>4
<1>10. d.ss = from.ss \cup {s \in T : meets(s, T)}
  <2>1. \A s \in S : meets(s, S) => meets(s, T)
    BY <1>1
  <2>2. {s \in T : meets(s, T)} = {s \in S : meets(s, S)} \cup met \cup (IF met # {} THEN {k} ELSE {})
    <3> HIDE DEF met, meets
    <3> QED
      BY <1>1, <1>7, <1>8, <1>9, <2>1
  <2> QED
    BY <1>2, <1>3, <2>2
<1>11. d.sb = from.sb \cup {s \in T : \E px \in fg : has(s, px)}
  BY <1>1, <1>2, <1>3
<1> QED
  BY <1>4, <1>5, <1>6, <1>10, <1>11 DEF Drawn, d, T

\* And each pixel shows the lowest sprite in front, of those drawn so far.
LEMMA SpriteLayered ==
  ASSUME Sprites \in Nat, NEW k \in Sprite, NEW fg \in SUBSET Pixel,
         NEW paints, \A s \in Sprite : DOMAIN paints[s] \subseteq Pixel,
         NEW from, NEW l, NEW behind \in SUBSET Sprite,
         Layered(l, from, fg, paints, behind, (k + 1)..(Sprites - 1))
  PROVE  Layered(DrawSprite(l, fg, k, paints[k], k \in behind), from, fg, paints, behind,
                 k..(Sprites - 1))
<1> DEFINE S == (k + 1)..(Sprites - 1)
           T == k..(Sprites - 1)
           d == DrawSprite(l, fg, k, paints[k], k \in behind)
<1>1. T = S \cup {k} /\ k \in Nat /\ \A s \in S : s \in Nat /\ k < s
  BY DEF Sprite
<1> SUFFICES ASSUME NEW px \in Pixel
             PROVE  LET shown == {s \in T : px \in DOMAIN paints[s] /\ ~(s \in behind /\ px \in fg)}
                    IN  /\ shown = {} => d.picture[px] = from.picture[px]
                        /\ \A s \in shown : (\A t \in shown : s <= t) => d.picture[px] = paints[s][px]
  BY DEF Layered
<1> DEFINE front(s) == px \in DOMAIN paints[s] /\ ~(s \in behind /\ px \in fg)
           before == {s \in S : front(s)}
           shown == {s \in T : front(s)}
<1>2. /\ before = {} => l.picture[px] = from.picture[px]
      /\ \A s \in before : (\A t \in before : s <= t) => l.picture[px] = paints[s][px]
  BY DEF Layered
<1>3. d.picture[px] = IF front(k) THEN paints[k][px] ELSE l.picture[px]
  BY DEF DrawSprite
<1> HIDE DEF d, S, T, front
<1>4. CASE front(k)
  <2>1. k \in shown /\ \A s \in shown : k <= s /\ (s <= k => s = k)
    BY <1>1, <1>4
  <2> QED
    BY <1>3, <1>4, <2>1 DEF front
<1>5. CASE ~front(k)
  <2>1. shown = before
    BY <1>1, <1>5
  <2> QED
    BY <1>2, <1>3, <1>5, <2>1 DEF front
<1> QED
  BY <1>4, <1>5

\* The walk down to sprite j.
Walks(f, j, l, fg, paints, behind) ==
  f = [k \in j..Sprites |->
        IF k = Sprites THEN l ELSE DrawSprite(f[k + 1], fg, k, paints[k], k \in behind)]

\* It can be walked to the end ...
LEMMA WalkExists ==
  ASSUME Sprites \in Nat, NEW l, NEW fg, NEW paints, NEW behind
  PROVE  \E f : Walks(f, 0, l, fg, paints, behind)
<1> DEFINE S == {i \in 0..Sprites : \E f : Walks(f, Sprites - i, l, fg, paints, behind)}
<1>1. 0 \in S
  <2> DEFINE f == [k \in Sprites..Sprites |-> l]
  <2>1. \A k \in Sprites..Sprites : k = Sprites
    OBVIOUS
  <2>2. Walks(f, Sprites, l, fg, paints, behind)
    BY <2>1 DEF Walks
  <2>3. Sprites - 0 = Sprites
    OBVIOUS
  <2> QED
    BY <2>2, <2>3
<1>2. ASSUME NEW i \in 1..Sprites, i - 1 \in S PROVE i \in S
  <2> DEFINE j == Sprites - i
             h == j + 1
  <2>1. /\ j \in Nat /\ h \in Nat /\ Sprites - (i - 1) = h /\ j # Sprites /\ h \in h..Sprites
        /\ \A k \in j..Sprites : k = j \/ (k # j /\ k \in h..Sprites)
        /\ \A k \in h..Sprites : k # j /\ k \in j..Sprites /\ (k # Sprites => k + 1 \in h..Sprites /\ k + 1 # j)
    OBVIOUS
  <2>2. PICK f : Walks(f, h, l, fg, paints, behind)
    BY <1>2, <2>1
  <2> DEFINE next == DrawSprite(f[h], fg, j, paints[j], j \in behind)
             g == [k \in j..Sprites |-> IF k = j THEN next ELSE f[k]]
  <2> HIDE DEF j, h, next
  <2>3. \A k \in h..Sprites : f[k] = IF k = Sprites THEN l
                                     ELSE DrawSprite(f[k + 1], fg, k, paints[k], k \in behind)
    BY <2>2 DEF Walks
  <2>4. g[j] = next /\ \A k \in h..Sprites : g[k] = f[k]
    BY <2>1 DEF h
  <2>5. \A k \in j..Sprites : g[k] = IF k = Sprites THEN l
                                     ELSE DrawSprite(g[k + 1], fg, k, paints[k], k \in behind)
    <3> HIDE DEF g
    <3>1. g[j] = DrawSprite(g[j + 1], fg, j, paints[j], j \in behind)
      BY <2>1, <2>4 DEF next, h
    <3>2. ASSUME NEW k \in h..Sprites
          PROVE  g[k] = IF k = Sprites THEN l
                        ELSE DrawSprite(g[k + 1], fg, k, paints[k], k \in behind)
      BY <2>1, <2>3, <2>4
    <3> QED
      BY <2>1, <3>1, <3>2
  <2>6. Walks(g, j, l, fg, paints, behind)
    <3>1. g = [k \in j..Sprites |-> g[k]]
      OBVIOUS
    <3> HIDE DEF g
    <3> QED
      BY <2>5, <3>1 DEF Walks
  <2> QED
    BY <2>6 DEF j
<1>3. Climbs(S, Sprites)
  BY <1>1, <1>2 DEF Climbs
<1> HIDE DEF S
<1>4. Sprites \in S
  BY <1>3, Climb
<1> QED
  BY <1>4 DEF S

\* ... and is what DrawSprites returns.
LEMMA DrawSpritesWalks ==
  ASSUME Sprites \in Nat, NEW l, NEW fg, NEW paints, NEW behind
  PROVE  \E f : /\ DrawSprites(l, fg, paints, behind) = f[0] /\ f[Sprites] = l
                /\ \A k \in Sprite : f[k] = DrawSprite(f[k + 1], fg, k, paints[k], k \in behind)
<1> DEFINE f == CHOOSE f : f = [k \in 0..Sprites |->
                  IF k = Sprites THEN l ELSE DrawSprite(f[k + 1], fg, k, paints[k], k \in behind)]
<1>1. f = [k \in 0..Sprites |->
             IF k = Sprites THEN l ELSE DrawSprite(f[k + 1], fg, k, paints[k], k \in behind)]
  BY WalkExists DEF Walks
<1>2. DrawSprites(l, fg, paints, behind) = f[0]
  BY DEF DrawSprites
<1> HIDE DEF f
<1>3. \A k \in 0..Sprites : f[k] = IF k = Sprites THEN l
                                   ELSE DrawSprite(f[k + 1], fg, k, paints[k], k \in behind)
  BY <1>1
<1>4. Sprites \in 0..Sprites /\ \A k \in Sprite : k \in 0..Sprites /\ k # Sprites
  BY DEF Sprite
<1> QED
  BY <1>2, <1>3, <1>4

\* However many sprites meet on a line and wherever (render_sprites, vic.cpp 280-383),
\* $D01E and $D01F gain exactly those that share a pixel with another and those with a pixel
\* on the foreground, though the buffer remembers only the last sprite drawn at each.
THEOREM LineCollides ==
  ASSUME Sprites \in Nat, NEW fg \in SUBSET Pixel,
         NEW paints, \A s \in Sprite : DOMAIN paints[s] \subseteq Pixel,
         NEW ss, NEW sb, NEW picture, NEW behind
  PROVE  LET from == Blank(ss, sb, picture)
         IN  Drawn(DrawSprites(from, fg, paints, behind), from, fg, paints, Sprite)
<1> DEFINE from == Blank(ss, sb, picture)
<1>1. PICK f : /\ DrawSprites(from, fg, paints, behind) = f[0] /\ f[Sprites] = from
               /\ \A k \in Sprite : f[k] = DrawSprite(f[k + 1], fg, k, paints[k], k \in behind)
  <2> HIDE DEF from
  <2> QED
    BY DrawSpritesWalks
<1> DEFINE S == {i \in 0..Sprites : Drawn(f[Sprites - i], from, fg, paints, (Sprites - i)..(Sprites - 1))}
<1>2. 0 \in S
  <2>1. Sprites - 0 = Sprites /\ Sprites..(Sprites - 1) = {}
    OBVIOUS
  <2>2. Drawn(from, from, fg, paints, {})
    BY DEF Drawn, Blank
  <2> QED
    BY <1>1, <2>1, <2>2
<1> HIDE DEF from
<1>3. ASSUME NEW i \in 1..Sprites, i - 1 \in S PROVE i \in S
  <2> DEFINE k == Sprites - i
  <2>1. k \in Sprite /\ Sprites - (i - 1) = k + 1
    BY DEF Sprite
  <2>2. Drawn(f[k + 1], from, fg, paints, (k + 1)..(Sprites - 1))
    BY <1>3, <2>1
  <2> HIDE DEF k
  <2> DEFINE l == f[k + 1]
             back == k \in behind
  <2>3. Drawn(DrawSprite(l, fg, k, paints[k], back), from, fg, paints, k..(Sprites - 1))
    <3>1. back \in BOOLEAN
      OBVIOUS
    <3> HIDE DEF l, back
    <3> QED
      BY <2>1, <2>2, <3>1, SpriteDrawn DEF l
  <2>4. f[k] = DrawSprite(l, fg, k, paints[k], back)
    BY <1>1, <2>1
  <2>5. Drawn(f[k], from, fg, paints, k..(Sprites - 1))
    BY <2>3, <2>4
  <2> QED
    BY <2>5 DEF k
<1>4. Climbs(S, Sprites)
  BY <1>2, <1>3 DEF Climbs
<1> HIDE DEF S
<1>5. Sprites \in S
  BY <1>4, Climb
<1>6. Sprites - Sprites = 0 /\ 0..(Sprites - 1) = Sprite
  BY DEF Sprite
<1> QED
  BY <1>1, <1>5, <1>6 DEF S, from

\* And each pixel of the line shows the lowest sprite there that is in front.
THEOREM LineLayered ==
  ASSUME Sprites \in Nat, NEW fg \in SUBSET Pixel,
         NEW paints, \A s \in Sprite : DOMAIN paints[s] \subseteq Pixel,
         NEW from, NEW behind \in SUBSET Sprite
  PROVE  Layered(DrawSprites(from, fg, paints, behind), from, fg, paints, behind, Sprite)
<1>1. PICK f : /\ DrawSprites(from, fg, paints, behind) = f[0] /\ f[Sprites] = from
               /\ \A k \in Sprite : f[k] = DrawSprite(f[k + 1], fg, k, paints[k], k \in behind)
  BY DrawSpritesWalks
<1> DEFINE S == {i \in 0..Sprites :
                   Layered(f[Sprites - i], from, fg, paints, behind, (Sprites - i)..(Sprites - 1))}
<1>2. 0 \in S
  <2>1. Sprites - 0 = Sprites /\ Sprites..(Sprites - 1) = {}
    OBVIOUS
  <2>2. Layered(from, from, fg, paints, behind, {})
    BY DEF Layered
  <2> QED
    BY <1>1, <2>1, <2>2
<1>3. ASSUME NEW i \in 1..Sprites, i - 1 \in S PROVE i \in S
  <2> DEFINE k == Sprites - i
  <2>1. k \in Sprite /\ Sprites - (i - 1) = k + 1
    BY DEF Sprite
  <2>2. Layered(f[k + 1], from, fg, paints, behind, (k + 1)..(Sprites - 1))
    BY <1>3, <2>1
  <2> HIDE DEF k
  <2> DEFINE l == f[k + 1]
  <2>3. Layered(DrawSprite(l, fg, k, paints[k], k \in behind), from, fg, paints, behind, k..(Sprites - 1))
    <3> HIDE DEF l
    <3> QED
      BY <2>1, <2>2, SpriteLayered DEF l
  <2>4. Layered(f[k], from, fg, paints, behind, k..(Sprites - 1))
    BY <1>1, <2>1, <2>3
  <2> QED
    BY <2>4 DEF k
<1>4. Climbs(S, Sprites)
  BY <1>2, <1>3 DEF Climbs
<1> HIDE DEF S
<1>5. Sprites \in S
  BY <1>4, Climb
<1>6. Sprites - Sprites = 0 /\ 0..(Sprites - 1) = Sprite
  BY DEF Sprite
<1> QED
  BY <1>1, <1>5, <1>6 DEF S

\* Whatever a program writes to $DD00, $DD02 and $D018, a line reads only the 16K of the
\* bank it selects (get_mem_addrs and what render_* read), colours and the ROM apart ...
THEOREM LineInBank ==
  ASSUME NEW port, NEW ddr, NEW memory \in 0..255, NEW row \in 0..24, NEW y \in 0..7,
         NEW column \in 0..39, NEW code \in 0..255
  PROVE  FetchesInBank(VicBank(port, ddr), memory, row, y, column, code)
<1> DEFINE start == VicBank(port, ddr)
           cell == row * 40 + column
           screen == ScreenAddr(start, memory)
           bitmap == BitmapAddr(start, memory)
           offset == CharOffset(memory)
           half == CharOffset(memory) % 4096
<1>1. start \in {0, 16384, 32768, 49152}
  BY DEF VicBank
<1> HIDE DEF start
<1>2. cell \in 0..999
  OBVIOUS
<1>3. memory \div 16 \in 0..15 /\ (memory \div 2) % 8 \in 0..7
  OBVIOUS
<1>4. offset \in 0..14336 /\ half \in {0, 2048}
  BY <1>3 DEF CharOffset
<1>5. screen \in start..(start + 15360) /\ bitmap \in {start, start + 8192}
  BY <1>1, <1>3 DEF ScreenAddr, BitmapAddr
<1>6. /\ ScreenCell(start, memory, row, column) = screen + cell
      /\ BitmapByte(start, memory, row, column, y) = bitmap + cell * 8 + y
      /\ GlyphByte(start, memory, code, y) = start + offset + code * 8 + y
      /\ ColourCell(row, column) = 55296 + cell
      /\ RomByte(memory, code, y) = half + code * 8 + y
  BY <1>1, <1>5 DEF ScreenCell, BitmapByte, GlyphByte, ColourCell, RomByte
<1> HIDE DEF cell, screen, bitmap, offset, half
<1>7. InBank(start, screen + cell) /\ InBank(start, bitmap + cell * 8 + y)
  BY <1>1, <1>2, <1>5 DEF InBank
<1>8. InBank(start, start + offset + code * 8 + y)
  BY <1>1, <1>4 DEF InBank
<1>9. 55296 + cell \in 55296..56319 /\ half + code * 8 + y \in 0..4095
  BY <1>2, <1>4
<1>10. FetchesInBank(start, memory, row, y, column, code)
  BY <1>6, <1>7, <1>8, <1>9 DEF FetchesInBank
<1> QED
  BY <1>10 DEF start

\* ... and so do the sprites, expanded ones too.
THEOREM SpritesInBank ==
  ASSUME NEW port, NEW ddr, NEW memory \in 0..255, NEW s \in 0..7, NEW pointer \in 0..255,
         NEW sp, NEW line \in Int, NEW third \in 0..2, sp.y \in 0..255, OnLine(sp, line)
  PROVE  SpriteInBank(VicBank(port, ddr), memory, s, pointer, SpriteRow(sp, line), third)
<1> DEFINE start == VicBank(port, ddr)
<1>1. start \in {0, 16384, 32768, 49152}
  BY DEF VicBank
<1>2. memory \div 16 \in 0..15
  OBVIOUS
<1>3. SpriteRow(sp, line) \in 0..20
  <2>1. SpriteLine(sp, line) \in 0..(IF sp.yexpand THEN 41 ELSE 20)
    BY DEF OnLine
  <2>2. CASE sp.yexpand
    <3>1. SpriteLine(sp, line) \in 0..41
      BY <2>1, <2>2
    <3> QED
      BY <2>2, <3>1 DEF SpriteRow
  <2>3. CASE ~sp.yexpand
    BY <2>1, <2>3 DEF SpriteRow
  <2> QED
    BY <2>2, <2>3
<1> HIDE DEF start
<1> QED
  BY <1>1, <1>2, <1>3 DEF SpriteInBank, InBank, SpritePointer, SpriteByte, ScreenAddr, start
=============================================================================
