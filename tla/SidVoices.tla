----------------------------- MODULE SidVoices -----------------------------
(***************************************************************************)
(* The three phase accumulators of sid_chip and the hard sync between them *)
(* (src/src/sid.cpp 196-283, 855-869 and 921-975).  A voice whose sync bit *)
(* is set restarts when the accumulator of the voice before it passes its  *)
(* half.  The chip does not look for that at every cycle: voice_sync works *)
(* out when it can happen next, and clock runs straight to there.          *)
(*                                                                         *)
(* The waveforms made from an accumulator are data.  The model is the      *)
(* 8580's: on a 6581 a combined waveform with the sawtooth may clear the   *)
(* top bit of its own accumulator (sid.cpp 266-270).                       *)
(***************************************************************************)
EXTENDS Integers, Sequences, FiniteSetsExt

CONSTANTS
  Half,       \* the weight of an accumulator's top bit, 2^23
  MaxFreq     \* the highest frequency, 2^16 - 1

ASSUME WidthAssumption == Half \in Nat \ {0} /\ MaxFreq \in 1..(Half - 1)

Voice  == 0..2
next_v(v) == (v + 1) % 3
prev_v(v) == (v + 2) % 3

Never == 65536    \* 0x7FFFFFFF, later than any cycle

Accumulator == 0..(2 * Half - 1)

Voices == [acc : [Voice -> Accumulator], rising : [Voice -> BOOLEAN],
           freq : [Voice -> 0..MaxFreq], test : [Voice -> BOOLEAN],
           sync : [Voice -> BOOLEAN], next : 1..Never]

-----------------------------------------------------------------------------
\* n cycles of a voice's accumulator.
AccAfter(c, v, n) == IF c.test[v] THEN c.acc[v] ELSE (c.acc[v] + n * c.freq[v]) % (2 * Half)

\* The top bit is set by the nth cycle from here.
RisesAt(c, v, n) == AccAfter(c, v, n - 1) < Half /\ AccAfter(c, v, n) >= Half

\* waveform_generator::clock of every voice, n times over: msb_rising is the last
\* cycle's, and a voice under test keeps the one it had.
ClockVoices(c, n) ==
  [c EXCEPT !.acc    = [v \in Voice |-> AccAfter(c, v, n)],
            !.rising = [v \in Voice |-> IF c.test[v] THEN c.rising[v] ELSE RisesAt(c, v, n)]]

\* synchronize of every voice.
Synchronize(c) ==
  [c EXCEPT !.acc = [v \in Voice |-> IF c.rising[prev_v(v)] /\ c.sync[v] THEN 0 ELSE @[v]]]

\* Mutation: the cycle that passes the half is left out.
CyclesToHalf_Short(c, v) == (((Half - 1 - c.acc[v]) % (2 * Half)) \div c.freq[v])

\* The cycles until the top bit of v is next set.
CyclesToHalf(c, v) == (((Half - 1 - c.acc[v]) % (2 * Half)) \div c.freq[v]) + 1

\* The voices whose next half restarts another.
Sources(c) == {v \in Voice : ~c.test[v] /\ c.freq[v] # 0 /\ c.sync[next_v(v)]}

\* voice_sync(false): when the next restart is due.
NextSync(c) == [c EXCEPT !.next = Min({Never} \cup {CyclesToHalf(c, v) : v \in Sources(c)})]

\* The part of clock that runs n cycles, n <= c.next, and voice_sync(true) if they
\* reach the restart.
RunCycles(c, n) ==
  LET d == [ClockVoices(c, n) EXCEPT !.next = @ - n]
  IN  IF d.next <= 0 THEN NextSync(Synchronize(d)) ELSE d

\* apply_register_write, for the frequency and the bits of the control register that
\* govern the accumulator: setting the test bit clears it.
ApplyWrite(c, w) ==
  NextSync(
    CASE w.reg = "freq" -> [c EXCEPT !.freq[w.voice] = w.value]
      [] w.reg = "sync" -> [c EXCEPT !.sync[w.voice] = w.value = 1]
      [] w.reg = "test" -> [c EXCEPT !.test[w.voice] = w.value = 1,
                                     !.acc[w.voice] = IF w.value = 1 /\ ~c.test[w.voice] THEN 0 ELSE @])

\* sid_chip::reset: every accumulator starts at 0x555555.
VoicesReset ==
  [acc |-> [v \in Voice |-> (2 * Half) \div 3], rising |-> [v \in Voice |-> FALSE],
   freq |-> [v \in Voice |-> 0], test |-> [v \in Voice |-> FALSE],
   sync |-> [v \in Voice |-> FALSE], next |-> Never]

-----------------------------------------------------------------------------
\* What a chip that looks at every cycle does in one: each running voice steps, and one
\* that passes its half restarts a synced voice after it.
OneCycle(c) ==
  LET rises(v) == ~c.test[v] /\ RisesAt(c, v, 1)
  IN  [c EXCEPT !.acc = [v \in Voice |->
         IF rises(prev_v(v)) /\ c.sync[v] THEN 0 ELSE AccAfter(c, v, 1)]]

\* A voice under test keeps the msb_rising of its last running cycle.
StaleRise(c) == \E v \in Voice : c.test[v] /\ c.rising[v]

\* The accumulators after n such cycles.
EachCycle(c, n) ==
  LET f[i \in 0..n] == IF i = 0 THEN c ELSE OneCycle(f[i - 1]) IN f[n].acc
=============================================================================
