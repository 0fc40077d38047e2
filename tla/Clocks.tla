------------------------------- MODULE Clocks -------------------------------
(***************************************************************************)
(* What machine_state::step_hardware counts after each instruction: the    *)
(* two timers of a CIA (tick_cia) and the raster (tick_vic), with the      *)
(* registers a program sets them by (src/src/machine.cpp).  Both CIAs run  *)
(* the same code, so one stands for either.                                *)
(*                                                                         *)
(* The code counts an instruction's cycles in one call and repairs the     *)
(* overshoot in loops; the loops are modelled by their results.  What an   *)
(* event does to the interrupt lines is module Interrupts.                 *)
(***************************************************************************)
EXTENDS Integers

CONSTANTS
  Base,                \* the values of a latch byte, 256
  CyclesPerLine,       \* 63
  LinesPerFrame,       \* 312
  CompareValue,        \* the raster compare values a program sets
  InstructionCycles    \* how long an instruction, with its penalties, takes

\* No instruction spans a whole line: 8 and a penalty cycle are far below 63.
ASSUME ClockAssumption ==
  /\ Base \in Nat \ {0, 1}
  /\ CyclesPerLine \in Nat \ {0} /\ LinesPerFrame \in Nat \ {0, 1}
  /\ CompareValue \subseteq Nat /\ 0 \in CompareValue
  /\ InstructionCycles \subseteq 1..(CyclesPerLine - 1)

VARIABLES
  timer,    \* "A" and "B" of the chip
  raster    \* the raster counter of vic_chip

vars == <<timer, raster>>

Wrap == Base * Base      \* 0x10000, the period of a zero latch
Byte == 0..(Base - 1)

Sources == {"phi2", "timerA", "cnt"}   \* what bits 5-6 of CRB have Timer B count
Names   == {"A", "B"}

Timer == [latch : 0..(Wrap - 1), count : 0..Wrap, running : BOOLEAN,
          start : BOOLEAN,      \* bit 0 of CRA or CRB
          oneshot : BOOLEAN,    \* bit 3
          source : Sources]

Raster == [line : 0..(LinesPerFrame - 1), cycle : 0..(CyclesPerLine - 1),
           last : -1..(LinesPerFrame - 1), compare : CompareValue]

ColdTimer == [latch |-> Wrap - 1, count |-> Wrap - 1, running |-> FALSE,
              start |-> FALSE, oneshot |-> FALSE, source |-> "phi2"]

ColdRaster == [line |-> 0, cycle |-> 0, last |-> -1, compare |-> 0]

-----------------------------------------------------------------------------
(* Timers. *)

Period(t) == IF t.latch = 0 THEN Wrap ELSE t.latch

\* Mutation: a one-shot that leaves the start bit.
Stopped_KeepsStart(t) == [t EXCEPT !.count = t.latch, !.running = FALSE]

Stopped(t) == [t EXCEPT !.count = t.latch, !.running = FALSE, !.start = FALSE]

\* Mutation of the reload loop: the overshoot is lost.
Reloaded_Restarts(t, left, missing) == [t EXCEPT !.count = Period(t)]

\* How many reloads repair a count that is `missing` short.
Reloads(missing, period) == (missing + period - 1) \div period

Reloaded(t, left, missing) == [t EXCEPT !.count = left + Reloads(missing, Period(t)) * Period(t)]

\* Counting n events, the timer underflows when its count falls below `floor`.
\* The result: the timer, and how often it underflowed.
Count(t, n, floor) ==
  LET left    == t.count - n
      missing == floor - left
  IN  IF missing <= 0 THEN [timer |-> [t EXCEPT !.count = left], times |-> 0]
      ELSE IF t.oneshot THEN [timer |-> Stopped(t), times |-> 1]
      ELSE [timer |-> Reloaded(t, left, missing), times |-> Reloads(missing, Period(t))]

Idle(t) == [timer |-> t, times |-> 0]

\* Timer B counting underflows of A underflows below zero, one count later than a
\* timer counting cycles.
Cascaded(b, times) == Count(b, times, 0)

TickCia(x, n) ==
  LET a == IF x["A"].running THEN Count(x["A"], n, 1) ELSE Idle(x["A"])
      b == IF ~x["B"].running THEN Idle(x["B"])
           ELSE CASE x["B"].source = "phi2"   -> Count(x["B"], n, 1)
                  [] x["B"].source = "timerA" -> Cascaded(x["B"], a.times)
                  [] x["B"].source = "cnt"    -> Idle(x["B"])
  IN  [timer  |-> [i \in Names |-> IF i = "A" THEN a.timer ELSE b.timer],
       raised |-> {i \in Names : (IF i = "A" THEN a.times ELSE b.times) > 0}]

-----------------------------------------------------------------------------
(* The raster. *)

Advanced(r, n) ==
  LET cycles == r.cycle + n
  IN  [r EXCEPT !.cycle = cycles % CyclesPerLine,
                !.line  = (r.line + cycles \div CyclesPerLine) % LinesPerFrame]

\* On a new line the finished one is rendered and the compare is looked at.
TickVic(r, n) ==
  LET now == Advanced(r, n)
  IN  [raster |-> [now EXCEPT !.last = now.line],
       drawn  |-> IF now.line # r.last /\ r.last >= 0 THEN {r.last} ELSE {},
       raised |-> now.line # r.last /\ now.line = r.compare]

-----------------------------------------------------------------------------
(* The operations. *)

Init ==
  /\ timer = [i \in Names |-> ColdTimer]
  /\ raster = ColdRaster

\* $DC04/$DC06 and their mirrors set the low byte of a latch ...
WriteLow(i, v) ==
  /\ timer' = [timer EXCEPT ![i].latch = (@ \div Base) * Base + v]
  /\ UNCHANGED raster

\* ... $DC05/$DC07 the high byte, which also loads a stopped counter.
WriteHigh(i, v) ==
  LET latch == (v * Base) + (timer[i].latch % Base)
  IN  /\ timer' = [timer EXCEPT ![i].latch = latch,
                                ![i].count = IF timer[i].running THEN @ ELSE latch]
      /\ UNCHANGED raster

\* $DC0E/$DC0F: start, one-shot, the force-load strobe, and what B counts.
WriteControl(i, start, oneshot, load, source) ==
  /\ timer' = [timer EXCEPT ![i].start = start, ![i].running = start,
                            ![i].oneshot = oneshot, ![i].source = source,
                            ![i].count = IF load THEN timer[i].latch ELSE @]
  /\ UNCHANGED raster

\* $D011 and $D012 set the compare; the line in progress is not looked at again.
WriteCompare(v) ==
  /\ raster' = [raster EXCEPT !.compare = v]
  /\ UNCHANGED timer

StepHardware(n) ==
  /\ timer' = TickCia(timer, n).timer
  /\ raster' = TickVic(raster, n).raster

Reset ==
  /\ timer' = [i \in Names |-> ColdTimer]
  /\ raster' = ColdRaster

Next ==
  \/ \E i \in Names, v \in Byte : WriteLow(i, v) \/ WriteHigh(i, v)
  \/ \E i \in Names, start, oneshot, load \in BOOLEAN :
       \E source \in IF i = "B" THEN Sources ELSE {"phi2"} :
         WriteControl(i, start, oneshot, load, source)
  \/ \E v \in CompareValue : WriteCompare(v)
  \/ \E n \in InstructionCycles : StepHardware(n)
  \/ Reset

Spec == Init /\ [][Next]_vars

-----------------------------------------------------------------------------
(* Properties. *)

\* Counters stay within 16 bits (a full period of a zero latch reads as zero), the
\* raster within the frame.
TypeOK == timer \in [Names -> Timer] /\ raster \in Raster

\* A program that reads CRA or CRB sees bit 0 set exactly while the timer runs.
StartBitExact == \A i \in Names : timer[i].start = timer[i].running

\* The reference: one event counted, a single decrement.  Two reloads are needed only
\* where a zero count, force-loaded from a zero latch, meets a latch of one.
TimerCycle(t, counted, floor) ==
  LET left == t.count - 1
      k    == IF left + Period(t) >= floor THEN 1 ELSE 2
  IN  IF ~counted THEN Idle(t)
      ELSE IF left >= floor THEN [timer |-> [t EXCEPT !.count = left], times |-> 0]
      ELSE IF t.oneshot
           THEN [timer |-> [t EXCEPT !.count = t.latch, !.running = FALSE, !.start = FALSE],
                 times |-> 1]
           ELSE [timer |-> [t EXCEPT !.count = left + k * Period(t)], times |-> k]

\* One cycle of phi2: a cascaded Timer B counts each underflow of Timer A.
Cycle(s) ==
  LET cascaded == s.timer["B"].source = "timerA"
      floor == IF cascaded THEN 0 ELSE 1
      a  == TimerCycle(s.timer["A"], s.timer["A"].running, 1)
      b1 == TimerCycle(s.timer["B"],
              /\ s.timer["B"].running
              /\ s.timer["B"].source = "phi2" \/ (cascaded /\ a.times > 0), floor)
      b  == TimerCycle(b1.timer, cascaded /\ b1.timer.running /\ a.times = 2, floor)
      underflowed == {i \in Names : IF i = "A" THEN a.times > 0 ELSE b1.times + b.times > 0}
      turns == s.raster.cycle = CyclesPerLine - 1
      line  == IF ~turns THEN s.raster.line
               ELSE IF s.raster.line = LinesPerFrame - 1 THEN 0 ELSE s.raster.line + 1
      enters == line # s.raster.last
  IN  [timer  |-> [i \in Names |-> IF i = "A" THEN a.timer ELSE b.timer],
       raster |-> [s.raster EXCEPT !.cycle = IF turns THEN 0 ELSE @ + 1,
                                   !.line = line, !.last = line],
       raised |-> s.raised \cup underflowed \cup
                    (IF enters /\ line = s.raster.compare THEN {"raster"} ELSE {}),
       drawn  |-> s.drawn \cup (IF enters /\ s.raster.last >= 0 THEN {s.raster.last} ELSE {})]

Cycles(n) ==
  LET at[i \in 0..n] ==
        IF i = 0 THEN [timer |-> timer, raster |-> raster, raised |-> {}, drawn |-> {}]
        ELSE Cycle(at[i - 1])
  IN  at[n]

\* Counting an instruction's cycles in one call leaves what counting them one by one
\* would: the same counts, the same timers stopped, the same flags raised, no raster
\* line left undrawn and no compare line missed, for any latch (zero and shorter than
\* the instruction included), one-shot or continuous, cascaded or not.
StepIsCycles ==
  \A n \in InstructionCycles :
    LET cia == TickCia(timer, n)
        vic == TickVic(raster, n)
    IN  [timer  |-> cia.timer, raster |-> vic.raster, drawn |-> vic.drawn,
         raised |-> cia.raised \cup (IF vic.raised THEN {"raster"} ELSE {})] = Cycles(n)
=============================================================================
