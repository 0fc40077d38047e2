----------------------------- MODULE Interrupts -----------------------------
(***************************************************************************)
(* The interrupt logic of lib8bit's machine_state: the two CIA interrupt   *)
(* control registers, the VIC-II $D019/$D01A pair, the host-raised IRQ,    *)
(* the aggregated IRQ level, the CIA2/RESTORE NMI edge, and the CPU loop   *)
(* that services them at instruction boundaries (src/src/machine.cpp,      *)
(* src/src/cpu.cpp).                                                       *)
(*                                                                         *)
(* A register byte is the set of its flags.  Which timer underflows in an  *)
(* instruction's cycles is chosen freely here; module Clocks computes it.*)
(* The methods of machine_state are operators from a machine to a machine, *)
(* so one action may compose several calls, as one instruction does.       *)
(***************************************************************************)
EXTENDS Naturals

CONSTANTS
  VicSource,    \* the sources of $D019 bits 0-3
  CiaSource     \* the sources of an ICR's bits 0-4

Timers == {"timerA", "timerB"}      \* ICR bits 0 and 1, the ones a CIA raises here
Cias   == {"cia1", "cia2"}

ASSUME TimersAreSources == Timers \subseteq CiaSource

VARIABLES
  m,      \* the interrupt state of the machine
  phase   \* where cpu_exec is: "boundary" (loop head) or "executed" (cycles owed)

vars == <<m, phase>>

Chip == [data    : SUBSET CiaSource,   \* icr_data, bits 0-4
         fired   : BOOLEAN,            \* icr_data, bit 7
         mask    : SUBSET CiaSource,   \* icr_mask
         enabled : SUBSET Timers]      \* timer_a_int_enabled, timer_b_int_enabled

Vic == [status : SUBSET VicSource,     \* irq_status, bits 0-3
        active : BOOLEAN,              \* irq_status, bit 7
        enable : SUBSET VicSource]     \* irq_enable

Machine == [vic : Vic, cia : [Cias -> Chip], nmi_line : BOOLEAN,
            ext_irq : BOOLEAN, irq_pending : BOOLEAN, nmi_pending : BOOLEAN,
            masked : BOOLEAN]          \* masked: the CPU's FLAG_INTERRUPT

ColdChip == [data |-> {}, fired |-> FALSE, mask |-> {}, enabled |-> {}]

PowerOn ==
  [vic |-> [status |-> {}, active |-> FALSE, enable |-> {}],
   cia |-> [c \in Cias |-> ColdChip], nmi_line |-> TRUE,
   ext_irq |-> FALSE, irq_pending |-> FALSE, nmi_pending |-> FALSE,
   masked |-> TRUE]

-----------------------------------------------------------------------------
(* The aggregation of the lines. *)

CiaActive(x, c) == x.cia[c].data \cap x.cia[c].mask # {}
VicAsserts(x)   == x.vic.status \cap x.vic.enable # {}

UpdateIrqLine(x) ==
  [x EXCEPT !.irq_pending = x.vic.active \/ x.cia["cia1"].fired \/ x.ext_irq]

UpdateVicIrq(x) == UpdateIrqLine([x EXCEPT !.vic.active = VicAsserts(x)])

\* Mutations of update_nmi: a line that is never released, and a level trigger.
UpdateNmi_NeverReleases(x) ==
  [x EXCEPT !.nmi_line    = x.nmi_line /\ ~CiaActive(x, "cia2"),
            !.nmi_pending = x.nmi_pending \/ (CiaActive(x, "cia2") /\ x.nmi_line)]
UpdateNmi_Level(x) ==
  [x EXCEPT !.nmi_line    = ~CiaActive(x, "cia2"),
            !.nmi_pending = x.nmi_pending \/ CiaActive(x, "cia2")]

UpdateNmi(x) ==
  [x EXCEPT !.nmi_line    = ~CiaActive(x, "cia2"),
            !.nmi_pending = x.nmi_pending \/ (CiaActive(x, "cia2") /\ x.nmi_line)]

WithChip(x, c, chip) == [x EXCEPT !.cia[c] = chip]

UpdateLine(x, c) == IF c = "cia2" THEN UpdateNmi(x) ELSE UpdateIrqLine(x)

-----------------------------------------------------------------------------
(* Register accesses and hardware events. *)

\* Mutation: the read clears the flags and forgets the line.
ReadIcr_NoUpdate(x, c) == [x EXCEPT !.cia[c].data = {}, !.cia[c].fired = FALSE]

\* A read of $DC0D or $DD0D returns the flags and clears them.
ReadIcr(x, c) ==
  UpdateLine(WithChip(x, c, [x.cia[c] EXCEPT !.data = {}, !.fired = FALSE]), c)

\* Mutation: CIA1 does not recompute its own bit 7.
WriteIcr_NoRecompute(x, c, set, bits) ==
  LET mask == IF set THEN x.cia[c].mask \cup bits ELSE x.cia[c].mask \ bits
  IN  UpdateLine([x EXCEPT !.cia[c].mask = mask, !.cia[c].enabled = mask \cap Timers], c)

\* A write of $DC0D or $DD0D: bit 7 says whether the other bits set or clear
\* the mask.  Only CIA1 recomputes its own bit 7.
WriteIcr(x, c, set, bits) ==
  LET mask == IF set THEN x.cia[c].mask \cup bits ELSE x.cia[c].mask \ bits
      chip == [data    |-> x.cia[c].data,
               mask    |-> mask,
               enabled |-> mask \cap Timers,
               fired   |-> IF c = "cia1" THEN x.cia[c].data \cap mask # {}
                                         ELSE x.cia[c].fired]
  IN  UpdateLine(WithChip(x, c, chip), c)

\* A read-modify-write of an ICR: the read, the dummy write of the value read,
\* then the write of the modified value.
RmwIcr(x, c, set, bits) ==
  WriteIcr(WriteIcr(ReadIcr(x, c), c, x.cia[c].fired, x.cia[c].data), c, set, bits)

\* A write of $D019 acknowledges the sources whose bits are 1.
WriteVicStatus(x, bits) ==
  UpdateVicIrq([x EXCEPT !.vic.status = x.vic.status \ bits])

\* Mutation: a read-modify-write without the dummy write.
RmwVicStatus_NoDummyWrite(x, bits) == WriteVicStatus(x, bits)

RmwVicStatus(x, bits) == WriteVicStatus(WriteVicStatus(x, x.vic.status), bits)

WriteVicEnable(x, bits) == UpdateVicIrq([x EXCEPT !.vic.enable = bits])

\* The lambda "raise" of tick_cia.
Raise(x, c, flag) ==
  LET on      == flag \in x.cia[c].enabled
      latched == WithChip(x, c, [x.cia[c] EXCEPT !.data  = x.cia[c].data \cup {flag},
                                                 !.fired = x.cia[c].fired \/ on])
  IN  IF on THEN UpdateLine(latched, c) ELSE latched

RaiseIf(x, c, flag, underflowed) == IF flag \in underflowed THEN Raise(x, c, flag) ELSE x

\* tick_cia, given the timers that underflow: A is raised before B.
TickCia(x, c, underflowed) ==
  RaiseIf(RaiseIf(x, c, "timerA", underflowed), c, "timerB", underflowed)

\* tick_vic, given the sources that latch on this line.
TickVic(x, latching) ==
  IF latching = {} THEN x
  ELSE UpdateVicIrq([x EXCEPT !.vic.status = x.vic.status \cup latching])

-----------------------------------------------------------------------------
(* The CPU loop: at the loop head an interrupt is serviced or an instruction *)
(* runs; then the hardware is stepped by the cycles it took.                 *)

Init == m = PowerOn /\ phase = "boundary"

TakesIrq(x) == ~x.nmi_pending /\ x.irq_pending /\ ~x.masked

ServiceNmi ==
  /\ phase = "boundary"
  /\ m.nmi_pending
  /\ m' = [m EXCEPT !.nmi_pending = FALSE, !.masked = TRUE]
  /\ phase' = "executed"

ServiceIrq ==
  /\ phase = "boundary"
  /\ TakesIrq(m)
  /\ m' = [UpdateIrqLine([m EXCEPT !.ext_irq = FALSE]) EXCEPT !.masked = TRUE]
  /\ phase' = "executed"

Executes ==
  /\ phase = "boundary"
  /\ ~m.nmi_pending
  /\ ~TakesIrq(m)
  /\ phase' = "executed"

CpuReadIcr(c) == Executes /\ m' = ReadIcr(m, c)

CpuWriteIcr(c) ==
  Executes /\ \E set \in BOOLEAN, bits \in SUBSET CiaSource : m' = WriteIcr(m, c, set, bits)

CpuRmwIcr(c) ==
  Executes /\ \E set \in BOOLEAN, bits \in SUBSET CiaSource : m' = RmwIcr(m, c, set, bits)

CpuWriteVicStatus == Executes /\ \E bits \in SUBSET VicSource : m' = WriteVicStatus(m, bits)
CpuRmwVicStatus   == Executes /\ \E bits \in SUBSET VicSource : m' = RmwVicStatus(m, bits)
CpuWriteVicEnable == Executes /\ \E bits \in SUBSET VicSource : m' = WriteVicEnable(m, bits)

\* SEI, CLI, PLP, RTI and BRK; every other instruction leaves masked as it was.
CpuSetMasked == Executes /\ \E b \in BOOLEAN : m' = [m EXCEPT !.masked = b]

StepHardware ==
  /\ phase = "executed"
  /\ \E u1, u2 \in SUBSET Timers, v \in SUBSET VicSource :
       m' = TickVic(TickCia(TickCia(m, "cia1", u1), "cia2", u2), v)
  /\ phase' = "boundary"

(* What the host does between two calls of cpu_exec. *)

HostIrq ==
  /\ phase = "boundary"
  /\ m' = UpdateIrqLine([m EXCEPT !.ext_irq = TRUE])
  /\ UNCHANGED phase

\* RESTORE shares the NMI line: no edge while CIA2 holds it low.
HostRestore ==
  /\ phase = "boundary"
  /\ m' = [m EXCEPT !.nmi_pending = m.nmi_pending \/ m.nmi_line]
  /\ UNCHANGED phase

HostReset ==
  /\ phase = "boundary"
  /\ m' = PowerOn
  /\ UNCHANGED phase

Cpu ==
  \/ ServiceNmi \/ ServiceIrq
  \/ \E c \in Cias : CpuReadIcr(c) \/ CpuWriteIcr(c) \/ CpuRmwIcr(c)
  \/ CpuWriteVicStatus \/ CpuRmwVicStatus \/ CpuWriteVicEnable \/ CpuSetMasked
  \/ StepHardware

Next == Cpu \/ HostIrq \/ HostRestore \/ HostReset

Spec == Init /\ [][Next]_vars

-----------------------------------------------------------------------------
(* Properties. *)

\* The shape of the machine, and of the loop's position.
TypeOK == m \in Machine /\ phase \in {"boundary", "executed"}

\* irq_pending, the cached level the CPU polls, is exactly the OR of the three
\* lines: no path that changes a line forgets update_irq_line (machine.cpp:537).
IrqLineExact ==
  m.irq_pending = (m.vic.active \/ m.cia["cia1"].fired \/ m.ext_irq)

\* $D019 bit 7 is set exactly while a latched source is enabled (machine.cpp:530).
VicActiveExact == m.vic.active = VicAsserts(m)

\* The cached timer enables used by raise() follow the ICR mask, and CIA1's bit 7
\* is set exactly while a latched flag is enabled, whatever the order of
\* underflows, mask writes and reads.
Cia1FiredExact ==
  /\ \A c \in Cias : m.cia[c].enabled = m.cia[c].mask \cap Timers
  /\ m.cia["cia1"].fired = CiaActive(m, "cia1")

\* CIA2 holds the NMI line low exactly while a latched flag is enabled: a line
\* left low would swallow every later NMI, RESTORE included.
NmiLineExact == m.nmi_line = ~CiaActive(m, "cia2")

\* NMI is edge triggered: it becomes pending only when the line was high and CIA2
\* pulls it low or RESTORE is pressed, and every fall of the line makes it pending.
NmiOnEdge ==
  [][/\ (~m.nmi_pending /\ m'.nmi_pending) => m.nmi_line /\ (HostRestore \/ ~m'.nmi_line)
     /\ (m.nmi_line /\ ~m'.nmi_line) => m'.nmi_pending]_vars

\* INC $D019 and DEC $DC0D acknowledge: the dummy write of the value read clears
\* every latched source (cpu.cpp:759-761).
RmwAcknowledges ==
  [][/\ CpuRmwVicStatus => ~m'.vic.active
     /\ \A c \in Cias : CpuRmwIcr(c) => m'.cia[c].data = {} /\ ~m'.cia[c].fired]_vars
=============================================================================
