---------------------------- MODULE SidEnvelope ----------------------------
(***************************************************************************)
(* One envelope generator of sid_chip (src/src/sid.cpp 357-532), cycle by  *)
(* cycle: the rate counter, the exponential divider, the envelope counter  *)
(* and the pipelines that delay each of them and every change of state,    *)
(* under gate and ADSR writes at any cycle.                                *)
(*                                                                         *)
(* The rate counter is a shift register that runs through all its values   *)
(* and is compared with the value of the rate; here it is its position on  *)
(* that cycle.                                                             *)
(***************************************************************************)
EXTENDS Integers

CONSTANTS
  Top,          \* the highest level, 0xFF
  Positions,    \* of the shift register, 2^15 - 1
  Rates,        \* the positions ADSR_TABLE compares with
  Levels,       \* the sustain levels
  NewPeriod     \* set_exponential_counter: level -> divider, 0 to keep the old

ASSUME EnvelopeAssumption ==
  /\ Top \in Nat \ {0} /\ Positions \in Nat \ {0}
  /\ Rates \subseteq 0..(Positions - 1) /\ Levels \subseteq 0..Top
  /\ NewPeriod \in [0..Top -> Nat] /\ NewPeriod[0] = 1

VARIABLES
  state, next_state, gate,
  envelope_counter, counter_enabled,
  lfsr, rate, reset_lfsr,
  exponential_counter, exponential_counter_period, new_exponential_counter_period,
  state_pipeline, envelope_pipeline, exponential_pipeline,
  adsr,         \* the registers: attack, decay, sustain, release
  overtaken,    \* history: the peak of the attack took the place of a pending release
  resustained   \* history: the sustain level was written since the gate last changed

level     == <<envelope_counter, counter_enabled>>
divider   == <<exponential_counter, exponential_counter_period, new_exponential_counter_period>>
pipelines == <<state_pipeline, envelope_pipeline, exponential_pipeline>>
vars == <<state, next_state, gate, level, lfsr, rate, reset_lfsr, divider, pipelines,
          adsr, overtaken, resustained>>

\* Above every period the counter may be compared with.
Past == CHOOSE n \in {p + 1 : p \in {NewPeriod[e] : e \in 0..Top}} :
          \A e \in 0..Top : NewPeriod[e] < n

State == {"ATTACK", "DECAY_SUSTAIN", "RELEASE"}

Init ==
  /\ state = "RELEASE" /\ next_state = "RELEASE" /\ gate = FALSE
  /\ envelope_counter = 0 /\ counter_enabled = FALSE
  /\ lfsr = 0 /\ reset_lfsr = TRUE
  /\ exponential_counter = 0 /\ exponential_counter_period = 1
  /\ new_exponential_counter_period = 0
  /\ state_pipeline = 0 /\ envelope_pipeline = 0 /\ exponential_pipeline = 0
  /\ \E r \in Rates : /\ adsr = [attack |-> r, decay |-> r, sustain |-> 0, release |-> r]
                      /\ rate = r
  /\ overtaken = FALSE /\ resustained = FALSE

-----------------------------------------------------------------------------
(* clock *)

\* state_change: where the state pipeline is after this cycle's step, and what that does.
StatePipeline == IF state_pipeline = 0 THEN 0 ELSE state_pipeline - 1

ReleaseTaken ==
  \/ state = "ATTACK" /\ StatePipeline = 0
  \/ state = "DECAY_SUSTAIN" /\ StatePipeline = 1

NewState ==
  CASE state_pipeline > 0 /\ next_state = "ATTACK" /\ StatePipeline = 0 -> "ATTACK"
    [] state_pipeline > 0 /\ next_state = "DECAY_SUSTAIN" /\ StatePipeline = 0 -> "DECAY_SUSTAIN"
    [] state_pipeline > 0 /\ next_state = "RELEASE" /\ ReleaseTaken -> "RELEASE"
    [] OTHER -> state

NewRate ==
  CASE state_pipeline = 0 -> rate
    [] next_state = "ATTACK" /\ StatePipeline = 1 -> adsr.decay
    [] next_state = "ATTACK" /\ StatePipeline = 0 -> adsr.attack
    [] next_state = "DECAY_SUSTAIN" /\ StatePipeline = 0 -> adsr.decay
    [] next_state = "RELEASE" /\ ReleaseTaken -> adsr.release
    [] OTHER -> rate

Enabled ==
  counter_enabled \/ (state_pipeline > 0 /\ next_state = "ATTACK" /\ StatePipeline = 0)

\* The divider's period, one cycle after the level that changes it.
Period ==
  IF new_exponential_counter_period > 0 THEN new_exponential_counter_period
  ELSE exponential_counter_period

\* The 8-bit level, one step up in the attack and down otherwise.
Stepped(s) ==
  IF s = "ATTACK" THEN (envelope_counter + 1) % (Top + 1)
  ELSE (envelope_counter + Top) % (Top + 1)

\* What else a cycle may do, in the order it is tried.
LevelDue   == envelope_pipeline = 1
DividerDue == ~LevelDue /\ exponential_pipeline = 1
RateDue    == ~LevelDue /\ ~DividerDue /\ reset_lfsr

Less(p) == IF p = 0 THEN 0 ELSE p - 1

\* The envelope pipeline has run out: the level steps, if it is counting.  The top of the
\* attack asks for the decay, the bottom stops the counting.
LevelSteps ==
  LET e      == Stepped(NewState)
      attack == NewState = "ATTACK"
      peak   == Enabled /\ attack /\ e = Top
  IN  /\ LevelDue
      /\ envelope_counter' = IF Enabled THEN e ELSE envelope_counter
      /\ counter_enabled' = (Enabled /\ (attack \/ e # 0))
      /\ next_state' = IF peak THEN "DECAY_SUSTAIN" ELSE next_state
      /\ state_pipeline' = IF peak THEN 3 ELSE Less(state_pipeline)
      /\ new_exponential_counter_period' = IF Enabled THEN NewPeriod[e] ELSE 0
      /\ overtaken' = (overtaken \/ (peak /\ next_state = "RELEASE"))
      /\ envelope_pipeline' = 0
      /\ UNCHANGED <<exponential_counter, exponential_pipeline>>

LevelStays ==
  /\ ~LevelDue
  /\ counter_enabled' = Enabled /\ new_exponential_counter_period' = 0
  /\ state_pipeline' = Less(state_pipeline)
  /\ UNCHANGED <<envelope_counter, next_state, overtaken>>

\* Mutation: the level falls for as long as it is above the sustain and no longer.
Falls_Always == NewState # "ATTACK"

\* The level is to fall one step.
Falls ==
  NewState = "RELEASE" \/ (NewState = "DECAY_SUSTAIN" /\ envelope_counter # adsr.sustain)

\* The exponential pipeline has run out: the divider starts again.
DividerEnds ==
  /\ DividerDue /\ LevelStays
  /\ exponential_counter' = 0 /\ exponential_pipeline' = 0
  /\ envelope_pipeline' = IF Falls THEN 1 ELSE Less(envelope_pipeline)

\* The rate counter was reached: the attack steps, the divider counts otherwise.
RateReached ==
  LET attack == NewState = "ATTACK"
      n      == IF exponential_counter = Past THEN Past ELSE exponential_counter + 1
  IN  /\ RateDue /\ LevelStays
      /\ exponential_counter' = IF attack THEN 0 ELSE IF Enabled THEN n ELSE exponential_counter
      /\ envelope_pipeline' = IF attack THEN 2 ELSE Less(envelope_pipeline)
      /\ exponential_pipeline' = IF ~attack /\ Enabled /\ n = Period
                                 THEN (IF Period # 1 THEN 2 ELSE 1)
                                 ELSE Less(exponential_pipeline)

PipelinesMove ==
  /\ ~RateDue /\ ~DividerDue /\ LevelStays
  /\ envelope_pipeline' = Less(envelope_pipeline)
  /\ exponential_pipeline' = Less(exponential_pipeline)
  /\ UNCHANGED exponential_counter

\* The rate counter starts again once it has been seen to be reached, and waits at its
\* rate until then; a rate it has passed is reached only after a whole turn.
RateCounts ==
  LET p == IF RateDue THEN 0 ELSE lfsr
  IN  IF p = rate' THEN lfsr' = p /\ reset_lfsr' = TRUE
      ELSE lfsr' = (p + 1) % Positions /\ reset_lfsr' = (reset_lfsr /\ ~RateDue)

\* envelope_generator::clock.
Clock ==
  /\ state' = NewState /\ rate' = NewRate
  /\ exponential_counter_period' = Period
  /\ LevelSteps \/ DividerEnds \/ RateReached \/ PipelinesMove
  /\ RateCounts
  /\ UNCHANGED <<gate, adsr, resustained>>

-----------------------------------------------------------------------------
(* Register writes, between two cycles. *)

GateOn ==
  /\ ~gate /\ gate' = TRUE
  /\ next_state' = "ATTACK" /\ overtaken' = FALSE /\ resustained' = FALSE
  /\ LET soon == reset_lfsr \/ exponential_pipeline = 2
     IN  /\ envelope_pipeline' =
              IF ~soon THEN envelope_pipeline
              ELSE IF exponential_counter_period = 1 \/ exponential_pipeline = 2 THEN 2 ELSE 4
         /\ state_pipeline' = IF ~soon /\ exponential_pipeline = 1 THEN 3 ELSE 2
  /\ UNCHANGED <<state, level, lfsr, rate, reset_lfsr, divider, exponential_pipeline, adsr>>

\* Mutation: a gate-off during the attack is left to the peak.
GateOff_NotInAttack ==
  /\ gate /\ gate' = FALSE /\ resustained' = FALSE
  /\ IF state = "ATTACK" THEN UNCHANGED <<next_state, state_pipeline>>
     ELSE next_state' = "RELEASE" /\ state_pipeline' = IF envelope_pipeline > 0 THEN 3 ELSE 2
  /\ UNCHANGED <<state, level, lfsr, rate, reset_lfsr, divider, envelope_pipeline,
                 exponential_pipeline, adsr, overtaken>>

GateOff ==
  /\ gate /\ gate' = FALSE /\ resustained' = FALSE
  /\ next_state' = "RELEASE"
  /\ state_pipeline' = IF envelope_pipeline > 0 THEN 3 ELSE 2
  /\ UNCHANGED <<state, level, lfsr, rate, reset_lfsr, divider, envelope_pipeline,
                 exponential_pipeline, adsr, overtaken>>

WriteAttackDecay(a, d) ==
  /\ adsr' = [adsr EXCEPT !.attack = a, !.decay = d]
  /\ rate' = IF state = "ATTACK" THEN a ELSE IF state = "DECAY_SUSTAIN" THEN d ELSE rate
  /\ UNCHANGED <<state, next_state, gate, level, lfsr, reset_lfsr, divider, pipelines, overtaken, resustained>>

WriteSustainRelease(s, r) ==
  /\ adsr' = [adsr EXCEPT !.sustain = s, !.release = r] /\ resustained' = TRUE
  /\ rate' = IF state = "RELEASE" THEN r ELSE rate
  /\ UNCHANGED <<state, next_state, gate, level, lfsr, reset_lfsr, divider, pipelines, overtaken>>

WritesAdsr ==
  \/ \E a, d \in Rates : WriteAttackDecay(a, d)
  \/ \E s \in Levels, r \in Rates : WriteSustainRelease(s, r)

Next == Clock \/ GateOn \/ GateOff \/ WritesAdsr

\* The chip is clocked for as long as the host asks for sound.
Spec == Init /\ [][Next]_vars /\ WF_vars(Clock)

-----------------------------------------------------------------------------
(* Properties. *)

TypeOK ==
  /\ state \in State /\ next_state \in State /\ gate \in BOOLEAN
  /\ envelope_counter \in 0..Top /\ counter_enabled \in BOOLEAN
  /\ lfsr \in 0..(Positions - 1) /\ rate \in Rates /\ reset_lfsr \in BOOLEAN
  /\ state_pipeline \in 0..3 /\ envelope_pipeline \in 0..4 /\ exponential_pipeline \in 0..2
  /\ exponential_counter \in 0..Past
  /\ adsr \in [attack : Rates, decay : Rates, sustain : Levels, release : Rates]

\* The registers are not written any more.
Settled == <>[][~WritesAdsr]_vars

\* The divider has gone past its period and never meets it again: only an attack that
\* reaches its rate sets it back.
Passed == exponential_counter > exponential_counter_period

\* A released note dies away: with the gate off and the registers left alone the level
\* comes to zero and stays, whatever the pipelines held when the gate went off.  The one
\* release that is lost is one the peak of the attack overtook while it was pending, and
\* the one note that hangs has a divider past its period.
ReleaseEnds ==
  Settled /\ <>[](~gate /\ ~overtaken)
    => <>[](envelope_counter = 0 /\ ~counter_enabled) \/ <>[]Passed

\* A held note rises to the top, and then comes to rest at its sustain level, unless the
\* level was written under it: a level above the one already reached lets the note fall to
\* zero, and a fall already in the pipelines is not taken back.
HeldRests ==
  Settled /\ <>[](gate /\ ~resustained)
    => /\ (gate /\ next_state = "ATTACK") ~> (~gate \/ envelope_counter = Top)
       /\ <>[](envelope_counter = adsr.sustain) \/ <>[]Passed
=============================================================================
