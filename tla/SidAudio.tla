------------------------------ MODULE SidAudio ------------------------------
(***************************************************************************)
(* How the CPU's SID writes reach the sound chip (src/src/machine.cpp      *)
(* 511-522 and 1101-1129, src/src/sid.cpp 747-978).  While audio is        *)
(* enabled a write is queued with the CPU cycle it was made at, and        *)
(* generate_audio replays the queue over the span since it was last        *)
(* called; otherwise a write reaches the chip at once.                     *)
(***************************************************************************)
EXTENDS SidVoices, Sequences

CONSTANTS
  max_queued,   \* 2^16
  max_cycles,   \* the longest span generate_audio clocks, 1,000,000
  HostDisables, \* may a host switch audio off and go on
  Programs,     \* the register writes a program makes: pairs <<register, value>>
  MaxTicks, MaxWrites, MaxBurst   \* bounds of the model

Reg == Voice \X {"freq", "sync", "test"}

ASSUME QueueAssumption == max_queued \in Nat /\ max_queued >= 2 /\ max_cycles \in Nat \ {0}
ASSUME ProgramsAssumption == Programs \subseteq Reg \X (0..MaxFreq) /\ MaxBurst \in Nat

VARIABLES
  clock_ticks, audio_enabled,
  sid_regs,        \* the last value written to each register
  write_queue,     \* of sid_chip
  audio_cycle,     \* the CPU cycle up to which the chip has made sound
  voices,          \* the chip
  chip_regs,       \* the values its registers hold
  rendering,       \* where sid_chip::clock is: its current_cycle and end_cycle
  lost,            \* history: registers whose last write was dropped
  writes

vars == <<clock_ticks, audio_enabled, sid_regs, write_queue, audio_cycle, voices,
          chip_regs, rendering, lost, writes>>

Idle == [at |-> 0, start |-> 0, end |-> 0]

Write(r, x, t) == [voice |-> r[1], reg |-> r[2], value |-> x, cycle |-> t]
RegOf(w)       == <<w.voice, w.reg>>

Init ==
  /\ clock_ticks = 0 /\ audio_enabled = FALSE
  /\ sid_regs = [r \in Reg |-> 0] /\ chip_regs = [r \in Reg |-> 0]
  /\ write_queue = <<>> /\ audio_cycle = 0
  /\ voices = VoicesReset /\ rendering = Idle
  /\ lost = {} /\ writes = 0

-----------------------------------------------------------------------------
(* Registers. *)

\* Mutation: the newest half is dropped.
Bounded_Newest(q) == IF Len(q) >= max_queued THEN SubSeq(q, 1, Len(q) - (max_queued \div 2)) ELSE q

\* sid_chip::write makes room in a full queue by dropping its oldest half.
Bounded(q) == IF Len(q) >= max_queued THEN SubSeq(q, (max_queued \div 2) + 1, Len(q)) ELSE q

\* The part of the queue that Bounded drops.
Dropped(q) == IF Len(q) >= max_queued THEN SubSeq(q, 1, max_queued \div 2) ELSE <<>>

RegsIn(q) == {RegOf(q[i]) : i \in DOMAIN q}

\* The CPU runs for some cycles without a SID access.
CpuRuns(n) ==
  /\ rendering = Idle
  /\ clock_ticks + n <= MaxTicks
  /\ clock_ticks' = clock_ticks + n
  /\ UNCHANGED <<audio_enabled, sid_regs, write_queue, audio_cycle, voices, chip_regs,
                 rendering, lost, writes>>

\* sid_write.
SidWrite(r, x) ==
  /\ rendering = Idle
  /\ writes < MaxWrites /\ writes' = writes + 1
  /\ sid_regs' = [sid_regs EXCEPT ![r] = x]
  /\ IF audio_enabled
     THEN /\ write_queue' = Append(Bounded(write_queue), Write(r, x, clock_ticks))
          /\ lost' = (lost \cup RegsIn(Dropped(write_queue))) \ RegsIn(write_queue')
          /\ UNCHANGED <<voices, chip_regs>>
     ELSE /\ voices' = ApplyWrite(voices, Write(r, x, clock_ticks))
          /\ chip_regs' = [chip_regs EXCEPT ![r] = x]
          /\ UNCHANGED <<write_queue, lost>>
  /\ UNCHANGED <<clock_ticks, audio_enabled, audio_cycle, rendering>>

\* set_audio_enabled: the queue stays, the chip's clock jumps to now.
SetAudioEnabled(on) ==
  /\ rendering = Idle
  /\ on \/ HostDisables
  /\ audio_enabled' = on
  /\ audio_cycle' = clock_ticks
  /\ UNCHANGED <<clock_ticks, sid_regs, write_queue, voices, chip_regs, rendering, lost, writes>>

\* Mutation: the clock starts again and the queue of the old one stays.
Reset_KeepsQueue ==
  /\ rendering = Idle
  /\ clock_ticks' = 0 /\ audio_cycle' = 0
  /\ sid_regs' = [r \in Reg |-> 0] /\ chip_regs' = [r \in Reg |-> 0]
  /\ voices' = VoicesReset
  /\ UNCHANGED <<audio_enabled, write_queue, rendering, lost, writes>>

\* machine_state::reset.
Reset ==
  /\ rendering = Idle
  /\ clock_ticks' = 0 /\ audio_cycle' = 0
  /\ sid_regs' = [r \in Reg |-> 0] /\ chip_regs' = [r \in Reg |-> 0]
  /\ write_queue' = <<>> /\ lost' = {}
  /\ voices' = VoicesReset
  /\ UNCHANGED <<audio_enabled, rendering, writes>>

-----------------------------------------------------------------------------
(* Sound. *)

\* generate_audio, up to its call of sid_chip::clock.
GenerateAudio ==
  /\ rendering = Idle /\ audio_enabled
  /\ audio_cycle' = clock_ticks
  /\ LET cycles == Min({clock_ticks - audio_cycle, max_cycles})
     IN  rendering' = IF cycles <= 0 THEN Idle
                      ELSE [at |-> audio_cycle, start |-> audio_cycle, end |-> audio_cycle + cycles]
  /\ UNCHANGED <<clock_ticks, audio_enabled, sid_regs, write_queue, voices, chip_regs, lost, writes>>

\* Mutation: a write made in the very cycle waits for the next.
IsDue_Late(w, t) == w.cycle < t

IsDue(w, t) == w.cycle <= t

\* The next queued write is to be made before clock runs on.
Due == write_queue # <<>> /\ IsDue(Head(write_queue), rendering.at)

\* clock makes the queued writes whose time has come, one by one, ...
ClockApplies ==
  /\ rendering # Idle /\ Due
  /\ LET w == Head(write_queue)
     IN  /\ voices' = ApplyWrite(voices, w)
         /\ chip_regs' = [chip_regs EXCEPT ![RegOf(w)] = w.value]
  /\ write_queue' = Tail(write_queue)
  /\ UNCHANGED <<clock_ticks, audio_enabled, sid_regs, audio_cycle, rendering, lost, writes>>

\* How far clock runs: to the next queued write, the next restart or the end.
RunLength ==
  Min({rendering.end - rendering.at, voices.next}
      \cup (IF write_queue = <<>> THEN {} ELSE {Head(write_queue).cycle - rendering.at}))

\* ... and then runs on, by a cycle at least.
ClockRuns ==
  /\ rendering # Idle /\ ~Due
  /\ voices' = IF RunLength <= 0 THEN voices ELSE RunCycles(voices, RunLength)
  /\ LET u == rendering.at + (IF RunLength <= 0 THEN 1 ELSE RunLength)
     IN  rendering' = IF u >= rendering.end THEN Idle ELSE [rendering EXCEPT !.at = u]
  /\ UNCHANGED <<clock_ticks, audio_enabled, sid_regs, write_queue, audio_cycle, chip_regs,
                 lost, writes>>

Next ==
  \/ \E n \in 1..MaxBurst : CpuRuns(n)
  \/ \E p \in Programs : SidWrite(p[1], p[2])
  \/ \E on \in BOOLEAN : SetAudioEnabled(on)
  \/ Reset \/ GenerateAudio \/ ClockApplies \/ ClockRuns

Spec == Init /\ [][Next]_vars

-----------------------------------------------------------------------------
(* Properties. *)

Queued == [voice : Voice, reg : {"freq", "sync", "test"}, value : 0..MaxFreq, cycle : Nat]

TypeOK ==
  /\ clock_ticks \in Nat /\ audio_enabled \in BOOLEAN
  /\ sid_regs \in [Reg -> 0..MaxFreq] /\ chip_regs \in [Reg -> 0..MaxFreq]
  /\ write_queue \in Seq(Queued)
  /\ audio_cycle \in 0..clock_ticks
  /\ voices \in Voices
  /\ rendering \in [at : Nat, start : Nat, end : Nat]
  /\ lost \subseteq Reg

\* The queue is bounded and in the order of its cycles, none of them in the future,
\* whatever drops, resets and jumps of the clock.  clock's loop stops at the first write
\* not yet due and would keep the rest of a queue out of order waiting.
QueueInOrder ==
  /\ Len(write_queue) <= max_queued
  /\ \A i, j \in 1..Len(write_queue) : i < j => write_queue[i].cycle <= write_queue[j].cycle
  /\ \A i \in 1..Len(write_queue) : write_queue[i].cycle <= clock_ticks

\* The last write to a register is the ith of the queue.
LastWrite(r, i) ==
  /\ RegOf(write_queue[i]) = r
  /\ \A j \in DOMAIN write_queue : j > i => RegOf(write_queue[j]) # r

\* The chip ends where the CPU put it: once the queue is replayed each register of the
\* chip holds the value the CPU last wrote, but for those the bound dropped.
ChipFollows ==
  \A r \in Reg \ lost :
    IF r \in RegsIn(write_queue)
    THEN \E i \in DOMAIN write_queue : LastWrite(r, i) /\ write_queue[i].value = sid_regs[r]
    ELSE chip_regs[r] = sid_regs[r]

\* "generate_audio() replays them at cycle accuracy": a write made in the span takes
\* effect at its own cycle, one from before at the start, and none is left behind.
CycleAccurate ==
  [][/\ ClockApplies => Head(write_queue).cycle = rendering.at \/ rendering.at = rendering.start
     /\ ClockRuns => \A i \in DOMAIN write_queue :
          write_queue[i].cycle >= IF rendering' = Idle THEN rendering.end ELSE rendering'.at]_vars

\* Running straight to the next write or restart gives the accumulators that looking for
\* restarts at every cycle would give - unless a voice was put under test in the very
\* cycle it passed its half: its msb_rising stays set, and the next restart of any voice
\* restarts the one after it too.
SpansAreCycles ==
  [][ClockRuns /\ ~StaleRise(voices) =>
       voices'.acc = EachCycle(voices, (IF rendering' = Idle THEN rendering.end ELSE rendering'.at)
                                       - rendering.at)]_vars
=============================================================================
