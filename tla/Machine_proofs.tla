---------------------------- MODULE Machine_proofs ---------------------------
(***************************************************************************)
(* Proofs about two parts of machine_state: its interrupt lines (module    *)
(* Interrupts) and its page tables (module Banking).                       *)
(*                                                                         *)
(* Interrupts, for any sets of VIC and CIA sources: type correctness and   *)
(* the exactness of the lines.  Each method of machine_state gets a lemma: *)
(* from a machine whose lines are exact, it returns one.                   *)
(*                                                                         *)
(* Banking, for every set of images, addresses and values: the inductive   *)
(* invariant says where the page tables come from.  They are the rebuild   *)
(* of some bank and some cartridge, and they were built with the cartridge *)
(* enabled only if one is in the slot.                                     *)
(***************************************************************************)
EXTENDS Interrupts, Banking, WellFoundedInduction, TLAPS

-----------------------------------------------------------------------------
(* Interrupts. *)

IrqExact(x) == x.irq_pending = (x.vic.active \/ x.cia["cia1"].fired \/ x.ext_irq)
VicExact(x) == x.vic.active = VicAsserts(x)
CiaExact(x) == /\ \A c \in Cias : x.cia[c].enabled = x.cia[c].mask \cap Timers
               /\ x.cia["cia1"].fired = CiaActive(x, "cia1")
NmiExact(x) == x.nmi_line = ~CiaActive(x, "cia2")

\* The inductive invariant: the shape of the machine and its four exact lines.
Good(x) == x \in Machine /\ IrqExact(x) /\ VicExact(x) /\ CiaExact(x) /\ NmiExact(x)

LEMMA PowerOnGood == Good(PowerOn)
BY DEF Good, IrqExact, VicExact, CiaExact, NmiExact,
       PowerOn, Machine, Vic, Chip, Cias, ColdChip, VicAsserts, CiaActive

\* update_irq_line restores the one line it computes.
LEMMA UpdateIrqLineGood ==
  ASSUME NEW x \in Machine, VicExact(x), CiaExact(x), NmiExact(x)
  PROVE  Good(UpdateIrqLine(x))
<1>1. UpdateIrqLine(x) \in Machine
  BY DEF UpdateIrqLine, Machine, Vic, Chip, Cias
<1>2. UpdateIrqLine(x).irq_pending = (x.vic.active \/ x.cia["cia1"].fired \/ x.ext_irq)
  BY DEF UpdateIrqLine, Machine
<1>3. /\ UpdateIrqLine(x).vic = x.vic
      /\ UpdateIrqLine(x).cia = x.cia
      /\ UpdateIrqLine(x).ext_irq = x.ext_irq
      /\ UpdateIrqLine(x).nmi_line = x.nmi_line
  BY DEF UpdateIrqLine, Machine
<1>4. QED
  BY <1>1, <1>2, <1>3
  DEF Good, IrqExact, VicExact, CiaExact, NmiExact, VicAsserts, CiaActive

\* update_vic_irq needs nothing of the old bit 7 nor of the old level.
LEMMA UpdateVicIrqGood ==
  ASSUME NEW x \in Machine, CiaExact(x), NmiExact(x)
  PROVE  Good(UpdateVicIrq(x))
<1> DEFINE y == [x EXCEPT !.vic.active = VicAsserts(x)]
<1>1. y \in Machine
  BY DEF Machine, Vic, VicAsserts
<1>2. /\ y.vic.status = x.vic.status
      /\ y.vic.enable = x.vic.enable
      /\ y.vic.active = VicAsserts(x)
      /\ y.cia = x.cia
      /\ y.nmi_line = x.nmi_line
  BY DEF Machine, Vic
<1>3. VicExact(y) /\ CiaExact(y) /\ NmiExact(y)
  BY <1>2 DEF VicExact, CiaExact, NmiExact, VicAsserts, CiaActive
<1>4. QED
  BY <1>1, <1>3, UpdateIrqLineGood DEF UpdateVicIrq

LEMMA UpdateNmiGood ==
  ASSUME NEW x \in Machine, IrqExact(x), VicExact(x), CiaExact(x)
  PROVE  Good(UpdateNmi(x))
<1>1. UpdateNmi(x) \in Machine
  BY DEF UpdateNmi, Machine, Vic, Chip, Cias, CiaActive
<1>2. /\ UpdateNmi(x).vic = x.vic
      /\ UpdateNmi(x).cia = x.cia
      /\ UpdateNmi(x).ext_irq = x.ext_irq
      /\ UpdateNmi(x).irq_pending = x.irq_pending
      /\ UpdateNmi(x).nmi_line = ~CiaActive(x, "cia2")
  BY DEF UpdateNmi, Machine
<1>3. QED
  BY <1>1, <1>2
  DEF Good, IrqExact, VicExact, CiaExact, NmiExact, VicAsserts, CiaActive

-----------------------------------------------------------------------------
(* A chip whose own flags are consistent, put in the machine and followed by *)
(* the update of the line it drives, leaves every line exact.                *)

ConsistentChip(chip, c) ==
  /\ chip \in Chip
  /\ chip.enabled = chip.mask \cap Timers
  /\ c = "cia1" => chip.fired = (chip.data \cap chip.mask # {})

LEMMA PutChipType ==
  ASSUME NEW x \in Machine, NEW c \in Cias, NEW chip \in Chip
  PROVE  /\ WithChip(x, c, chip) \in Machine
         /\ WithChip(x, c, chip).cia[c] = chip
         /\ \A d \in Cias : d # c => WithChip(x, c, chip).cia[d] = x.cia[d]
         /\ WithChip(x, c, chip).vic = x.vic
         /\ WithChip(x, c, chip).ext_irq = x.ext_irq
         /\ WithChip(x, c, chip).irq_pending = x.irq_pending
         /\ WithChip(x, c, chip).nmi_line = x.nmi_line
BY DEF WithChip, Machine, Cias

LEMMA PutChipGood ==
  ASSUME NEW x, Good(x), NEW c \in Cias, NEW chip, ConsistentChip(chip, c)
  PROVE  Good(UpdateLine(WithChip(x, c, chip), c))
<1> DEFINE y == WithChip(x, c, chip)
<1>0. x \in Machine /\ chip \in Chip
  BY DEF Good, ConsistentChip
<1>1. /\ y \in Machine
      /\ y.cia[c] = chip
      /\ \A d \in Cias : d # c => y.cia[d] = x.cia[d]
      /\ y.vic = x.vic
      /\ y.ext_irq = x.ext_irq
      /\ y.irq_pending = x.irq_pending
      /\ y.nmi_line = x.nmi_line
  BY <1>0, PutChipType
<1> HIDE DEF y
<1>2. VicExact(y)
  BY <1>1 DEF Good, VicExact, VicAsserts
<1>3. CiaExact(y)
  <2>1. \A d \in Cias : y.cia[d].enabled = y.cia[d].mask \cap Timers
    BY <1>1 DEF Good, CiaExact, ConsistentChip
  <2>2. y.cia["cia1"].fired = CiaActive(y, "cia1")
    BY <1>1 DEF Good, CiaExact, ConsistentChip, CiaActive, Cias
  <2>3. QED
    BY <2>1, <2>2 DEF CiaExact
<1>4. CASE c = "cia1"
  <2>1. NmiExact(y)
    BY <1>1, <1>4 DEF Good, NmiExact, CiaActive, Cias
  <2>2. QED
    BY <1>1, <1>2, <1>3, <1>4, <2>1, UpdateIrqLineGood DEF UpdateLine, y
<1>5. CASE c = "cia2"
  <2>1. IrqExact(y)
    BY <1>1, <1>5 DEF Good, IrqExact, Cias
  <2>2. QED
    BY <1>1, <1>2, <1>3, <1>5, <2>1, UpdateNmiGood DEF UpdateLine, y
<1>6. QED
  BY <1>4, <1>5 DEF Cias

-----------------------------------------------------------------------------
(* The register accesses. *)

LEMMA ReadIcrGood ==
  ASSUME NEW x, Good(x), NEW c \in Cias
  PROVE  Good(ReadIcr(x, c))
<1> DEFINE chip == [x.cia[c] EXCEPT !.data = {}, !.fired = FALSE]
<1>1. x \in Machine /\ x.cia[c] \in Chip /\ x.cia[c].enabled = x.cia[c].mask \cap Timers
  BY DEF Good, Machine, CiaExact
<1>2. ConsistentChip(chip, c)
  BY <1>1 DEF ConsistentChip, Chip
<1>3. QED
  BY <1>2, PutChipGood DEF ReadIcr

LEMMA WriteIcrGood ==
  ASSUME NEW x, Good(x), NEW c \in Cias, NEW set \in BOOLEAN, NEW bits \in SUBSET CiaSource
  PROVE  Good(WriteIcr(x, c, set, bits))
<1> DEFINE mask == IF set THEN x.cia[c].mask \cup bits ELSE x.cia[c].mask \ bits
           chip == [data    |-> x.cia[c].data,
                    mask    |-> mask,
                    enabled |-> mask \cap Timers,
                    fired   |-> IF c = "cia1" THEN x.cia[c].data \cap mask # {}
                                              ELSE x.cia[c].fired]
<1>1. x.cia[c] \in Chip
  BY DEF Good, Machine
<1>2. mask \in SUBSET CiaSource
  BY <1>1 DEF Chip
<1>3. ConsistentChip(chip, c)
  <2> HIDE DEF mask
  <2>1. chip \in Chip
    BY <1>1, <1>2 DEF Chip
  <2>2. QED
    BY <2>1 DEF ConsistentChip
<1>4. QED
  BY <1>3, PutChipGood DEF WriteIcr

LEMMA RmwIcrGood ==
  ASSUME NEW x, Good(x), NEW c \in Cias, NEW set \in BOOLEAN, NEW bits \in SUBSET CiaSource
  PROVE  Good(RmwIcr(x, c, set, bits))
<1>1. x.cia[c].fired \in BOOLEAN /\ x.cia[c].data \in SUBSET CiaSource
  BY DEF Good, Machine, Chip
<1>2. Good(WriteIcr(ReadIcr(x, c), c, x.cia[c].fired, x.cia[c].data))
  BY <1>1, ReadIcrGood, WriteIcrGood
<1>3. QED
  BY <1>2, WriteIcrGood DEF RmwIcr

LEMMA WriteVicStatusGood ==
  ASSUME NEW x, Good(x), NEW bits \in SUBSET VicSource
  PROVE  Good(WriteVicStatus(x, bits))
<1> DEFINE y == [x EXCEPT !.vic.status = x.vic.status \ bits]
<1>1. y \in Machine /\ y.cia = x.cia /\ y.nmi_line = x.nmi_line
  BY DEF Good, Machine, Vic
<1>2. CiaExact(y) /\ NmiExact(y)
  BY <1>1 DEF Good, CiaExact, NmiExact, CiaActive
<1>3. QED
  BY <1>1, <1>2, UpdateVicIrqGood DEF WriteVicStatus

LEMMA RmwVicStatusGood ==
  ASSUME NEW x, Good(x), NEW bits \in SUBSET VicSource
  PROVE  Good(RmwVicStatus(x, bits))
<1>1. x.vic.status \in SUBSET VicSource
  BY DEF Good, Machine, Vic
<1>2. QED
  BY <1>1, WriteVicStatusGood DEF RmwVicStatus

LEMMA WriteVicEnableGood ==
  ASSUME NEW x, Good(x), NEW bits \in SUBSET VicSource
  PROVE  Good(WriteVicEnable(x, bits))
<1> DEFINE y == [x EXCEPT !.vic.enable = bits]
<1>1. y \in Machine /\ y.cia = x.cia /\ y.nmi_line = x.nmi_line
  BY DEF Good, Machine, Vic
<1>2. CiaExact(y) /\ NmiExact(y)
  BY <1>1 DEF Good, CiaExact, NmiExact, CiaActive
<1>3. QED
  BY <1>1, <1>2, UpdateVicIrqGood DEF WriteVicEnable

-----------------------------------------------------------------------------
(* The hardware step. *)

LEMMA RaiseGood ==
  ASSUME NEW x, Good(x), NEW c \in Cias, NEW flag \in Timers
  PROVE  Good(Raise(x, c, flag))
<1> DEFINE on      == flag \in x.cia[c].enabled
           chip    == [x.cia[c] EXCEPT !.data  = x.cia[c].data \cup {flag},
                                       !.fired = x.cia[c].fired \/ on]
           latched == WithChip(x, c, chip)
<1>1. x \in Machine /\ x.cia[c] \in Chip /\ x.cia[c].enabled = x.cia[c].mask \cap Timers
  BY DEF Good, Machine, CiaExact
<1>3. chip \in Chip /\ chip.enabled = chip.mask \cap Timers
  BY <1>1, TimersAreSources DEF Chip
<1>4. CASE on
  <2>1. chip.data \cap chip.mask # {}
    BY <1>1, <1>4
  <2>2. ConsistentChip(chip, c)
    BY <1>3, <1>4, <2>1 DEF ConsistentChip
  <2>3. QED
    BY <1>4, <2>2, PutChipGood DEF Raise
<1>5. CASE ~on
  <2>1. flag \notin x.cia[c].mask
    BY <1>1, <1>5
  <2>2. chip.data \cap chip.mask = x.cia[c].data \cap x.cia[c].mask /\ chip.fired = x.cia[c].fired
    BY <1>1, <1>5, <2>1 DEF Chip
  <2>3. /\ latched \in Machine
        /\ latched.cia[c] = chip
        /\ \A d \in Cias : d # c => latched.cia[d] = x.cia[d]
        /\ latched.vic = x.vic
        /\ latched.ext_irq = x.ext_irq
        /\ latched.irq_pending = x.irq_pending
        /\ latched.nmi_line = x.nmi_line
    BY <1>1, <1>3, PutChipType
  <2> HIDE DEF latched, chip
  <2>4. \A d \in Cias : /\ CiaActive(latched, d) = CiaActive(x, d)
                         /\ latched.cia[d].fired = x.cia[d].fired
                         /\ latched.cia[d].enabled = latched.cia[d].mask \cap Timers
    BY <1>3, <2>2, <2>3 DEF CiaActive, Good, CiaExact
  <2>5. Good(latched)
    BY <2>3, <2>4 DEF Good, IrqExact, VicExact, CiaExact, NmiExact, VicAsserts, Cias
  <2>6. QED
    BY <1>5, <2>5 DEF Raise, latched, chip
<1>6. QED
  BY <1>4, <1>5

LEMMA TickCiaGood ==
  ASSUME NEW x, Good(x), NEW c \in Cias, NEW u \in SUBSET Timers
  PROVE  Good(TickCia(x, c, u))
<1>1. Good(RaiseIf(x, c, "timerA", u))
  BY RaiseGood DEF RaiseIf, Timers
<1>2. QED
  BY <1>1, RaiseGood DEF TickCia, RaiseIf, Timers

LEMMA TickVicGood ==
  ASSUME NEW x, Good(x), NEW v \in SUBSET VicSource
  PROVE  Good(TickVic(x, v))
<1> DEFINE y == [x EXCEPT !.vic.status = x.vic.status \cup v]
<1>1. y \in Machine /\ y.cia = x.cia /\ y.nmi_line = x.nmi_line
  BY DEF Good, Machine, Vic
<1>2. CiaExact(y) /\ NmiExact(y)
  BY <1>1 DEF Good, CiaExact, NmiExact, CiaActive
<1>3. QED
  BY <1>1, <1>2, UpdateVicIrqGood DEF TickVic

-----------------------------------------------------------------------------
(* The theorems of the specification. *)

GoodInv == Good(m) /\ phase \in {"boundary", "executed"}

LEMMA NextGood == GoodInv /\ [Next]_vars => GoodInv'
<1> SUFFICES ASSUME GoodInv, [Next]_vars PROVE GoodInv'
  OBVIOUS
<1> USE DEF GoodInv
<1>1. CASE ServiceNmi
  BY <1>1 DEF ServiceNmi, Good, IrqExact, VicExact, CiaExact, NmiExact,
              VicAsserts, CiaActive, Machine
<1>2. CASE ServiceIrq
  <2> DEFINE x == [m EXCEPT !.ext_irq = FALSE]
             y == UpdateIrqLine(x)
  <2>1. x \in Machine /\ VicExact(x) /\ CiaExact(x) /\ NmiExact(x)
    BY DEF Good, Machine, VicExact, CiaExact, NmiExact, VicAsserts, CiaActive
  <2>2. Good(y)
    BY <2>1, UpdateIrqLineGood
  <2> HIDE DEF y
  <2>3. Good([y EXCEPT !.masked = TRUE])
    BY <2>2 DEF Good, IrqExact, VicExact, CiaExact, NmiExact, VicAsserts, CiaActive, Machine
  <2>4. QED
    BY <1>2, <2>3 DEF ServiceIrq, y
<1>3. ASSUME NEW c \in Cias, CpuReadIcr(c) \/ CpuWriteIcr(c) \/ CpuRmwIcr(c)
      PROVE  GoodInv'
  BY <1>3, ReadIcrGood, WriteIcrGood, RmwIcrGood
  DEF CpuReadIcr, CpuWriteIcr, CpuRmwIcr, Executes
<1>4. CASE CpuWriteVicStatus
  BY <1>4, WriteVicStatusGood DEF CpuWriteVicStatus, Executes
<1>5. CASE CpuRmwVicStatus
  BY <1>5, RmwVicStatusGood DEF CpuRmwVicStatus, Executes
<1>6. CASE CpuWriteVicEnable
  BY <1>6, WriteVicEnableGood DEF CpuWriteVicEnable, Executes
<1>7. CASE CpuSetMasked
  BY <1>7 DEF CpuSetMasked, Executes, Good, IrqExact, VicExact, CiaExact, NmiExact,
              VicAsserts, CiaActive, Machine
<1>8. CASE StepHardware
  <2>1. PICK u1 \in SUBSET Timers, u2 \in SUBSET Timers, v \in SUBSET VicSource :
          m' = TickVic(TickCia(TickCia(m, "cia1", u1), "cia2", u2), v)
    BY <1>8 DEF StepHardware
  <2>2. Good(TickCia(m, "cia1", u1))
    BY TickCiaGood DEF Cias
  <2>3. Good(TickCia(TickCia(m, "cia1", u1), "cia2", u2))
    BY <2>2, TickCiaGood DEF Cias
  <2>4. Good(m')
    BY <2>1, <2>3, TickVicGood
  <2>5. QED
    BY <1>8, <2>4 DEF StepHardware
<1>9. CASE HostIrq
  <2> DEFINE x == [m EXCEPT !.ext_irq = TRUE]
  <2>1. x \in Machine /\ VicExact(x) /\ CiaExact(x) /\ NmiExact(x)
    BY DEF Good, Machine, VicExact, CiaExact, NmiExact, VicAsserts, CiaActive
  <2>2. QED
    BY <1>9, <2>1, UpdateIrqLineGood DEF HostIrq
<1>10. CASE HostRestore
  BY <1>10 DEF HostRestore, Good, IrqExact, VicExact, CiaExact, NmiExact,
               VicAsserts, CiaActive, Machine
<1>11. CASE HostReset
  BY <1>11, PowerOnGood DEF HostReset
<1>12. CASE UNCHANGED vars
  BY <1>12 DEF vars
<1>13. QED
  BY <1>1, <1>2, <1>3, <1>4, <1>5, <1>6, <1>7, <1>8, <1>9, <1>10, <1>11, <1>12 DEF Next, Cpu

\* The inductive invariant holds of every reachable state.
THEOREM SpecGood == Spec => []GoodInv
<1>1. Init => GoodInv
  BY PowerOnGood DEF Init, GoodInv
<1>2. QED
  BY <1>1, NextGood, PTL DEF Spec

\* The machine always has its type.
THEOREM TypeCorrect == Spec => []TypeOK
<1>1. GoodInv => TypeOK
  BY DEF GoodInv, Good, TypeOK
<1>2. QED
  BY <1>1, SpecGood, PTL

\* The cached IRQ level is always the OR of its three lines.
THEOREM IrqLineCorrect == Spec => []IrqLineExact
<1>1. GoodInv => IrqLineExact
  BY DEF GoodInv, Good, IrqExact, IrqLineExact
<1>2. QED
  BY <1>1, SpecGood, PTL

\* $D019 bit 7 always says whether a latched source is enabled.
THEOREM VicActiveCorrect == Spec => []VicActiveExact
<1>1. GoodInv => VicActiveExact
  BY DEF GoodInv, Good, VicExact, VicActiveExact
<1>2. QED
  BY <1>1, SpecGood, PTL

\* CIA1's bit 7 and the cached timer enables always follow flags and mask.
THEOREM Cia1FiredCorrect == Spec => []Cia1FiredExact
<1>1. GoodInv => Cia1FiredExact
  BY DEF GoodInv, Good, CiaExact, Cia1FiredExact
<1>2. QED
  BY <1>1, SpecGood, PTL

\* The NMI line is always low exactly while CIA2 has an enabled flag latched.
THEOREM NmiLineCorrect == Spec => []NmiLineExact
<1>1. GoodInv => NmiLineExact
  BY DEF GoodInv, Good, NmiExact, NmiLineExact
<1>2. QED
  BY <1>1, SpecGood, PTL

-----------------------------------------------------------------------------
(* The NMI edge.  Between an exact machine x and an exact machine y that some *)
(* accesses turned it into, the NMI became pending exactly with a fall of the *)
(* line: EdgeStep is what one update_nmi guarantees.                          *)

EdgeStep(x, y) ==
  /\ (~x.nmi_pending /\ y.nmi_pending) => x.nmi_line /\ ~y.nmi_line
  /\ (x.nmi_line /\ ~y.nmi_line) => y.nmi_pending
  /\ x.nmi_pending => y.nmi_pending

LEMMA UpdateIrqLineEdge ==
  ASSUME NEW x \in Machine
  PROVE  EdgeStep(x, UpdateIrqLine(x))
BY DEF EdgeStep, UpdateIrqLine, Machine

LEMMA UpdateVicIrqEdge ==
  ASSUME NEW x \in Machine
  PROVE  EdgeStep(x, UpdateVicIrq(x))
BY DEF EdgeStep, UpdateVicIrq, UpdateIrqLine, Machine

LEMMA UpdateNmiEdge ==
  ASSUME NEW x \in Machine
  PROVE  EdgeStep(x, UpdateNmi(x))
BY DEF EdgeStep, UpdateNmi, Machine

\* A chip is replaced and its line updated: the edge is that of update_nmi.
LEMMA PutChipEdge ==
  ASSUME NEW x \in Machine, NEW c \in Cias, NEW chip \in Chip
  PROVE  EdgeStep(x, UpdateLine(WithChip(x, c, chip), c))
<1> DEFINE y == WithChip(x, c, chip)
<1>1. y \in Machine /\ y.nmi_line = x.nmi_line
  BY PutChipType
<1>2. y.nmi_pending = x.nmi_pending
  BY DEF WithChip, Machine
<1> HIDE DEF y
<1>3. EdgeStep(y, UpdateLine(y, c))
  BY <1>1, UpdateNmiEdge, UpdateIrqLineEdge DEF UpdateLine
<1>4. QED
  BY <1>1, <1>2, <1>3 DEF EdgeStep, y
LEMMA ReadIcrEdge ==
  ASSUME NEW x, Good(x), NEW c \in Cias
  PROVE  EdgeStep(x, ReadIcr(x, c))
<1>1. x \in Machine /\ [x.cia[c] EXCEPT !.data = {}, !.fired = FALSE] \in Chip
  BY DEF Good, Machine, Chip
<1>2. QED
  BY <1>1, PutChipEdge DEF ReadIcr

LEMMA WriteIcrEdge ==
  ASSUME NEW x, Good(x), NEW c \in Cias, NEW set \in BOOLEAN, NEW bits \in SUBSET CiaSource
  PROVE  EdgeStep(x, WriteIcr(x, c, set, bits))
<1> DEFINE mask == IF set THEN x.cia[c].mask \cup bits ELSE x.cia[c].mask \ bits
           chip == [data    |-> x.cia[c].data,
                    mask    |-> mask,
                    enabled |-> mask \cap Timers,
                    fired   |-> IF c = "cia1" THEN x.cia[c].data \cap mask # {}
                                              ELSE x.cia[c].fired]
<1>1. x \in Machine /\ x.cia[c] \in Chip
  BY DEF Good, Machine
<1>2. mask \in SUBSET CiaSource
  BY <1>1 DEF Chip
<1>3. chip \in Chip
  BY <1>1, <1>2 DEF Chip
<1>4. QED
  BY <1>1, <1>3, PutChipEdge DEF WriteIcr

\* A machine without CIA2 flags keeps the line high through any mask write.
NoCia2Flag(x) == x.cia["cia2"].data = {}

LEMMA ReadIcr2Clears ==
  ASSUME NEW x, Good(x)
  PROVE  /\ NoCia2Flag(ReadIcr(x, "cia2"))
         /\ ReadIcr(x, "cia2").nmi_line
         /\ ReadIcr(x, "cia2").nmi_pending = x.nmi_pending
<1> DEFINE y == WithChip(x, "cia2", [x.cia["cia2"] EXCEPT !.data = {}, !.fired = FALSE])
<1>1. x \in Machine /\ [x.cia["cia2"] EXCEPT !.data = {}, !.fired = FALSE] \in Chip
  BY DEF Good, Machine, Chip, Cias
<1>2. y \in Machine /\ y.cia["cia2"].data = {} /\ y.nmi_pending = x.nmi_pending
  BY <1>1 DEF WithChip, Machine, Cias, Chip
<1>3. ReadIcr(x, "cia2") = UpdateNmi(y)
  BY DEF ReadIcr, UpdateLine
<1> HIDE DEF y
<1>4. QED
  BY <1>2, <1>3 DEF UpdateNmi, CiaActive, Machine, NoCia2Flag

LEMMA WriteIcr2Quiet ==
  ASSUME NEW x, Good(x), NoCia2Flag(x), NEW set \in BOOLEAN, NEW bits \in SUBSET CiaSource
  PROVE  /\ NoCia2Flag(WriteIcr(x, "cia2", set, bits))
         /\ WriteIcr(x, "cia2", set, bits).nmi_line
         /\ WriteIcr(x, "cia2", set, bits).nmi_pending = x.nmi_pending
<1> DEFINE mask == IF set THEN x.cia["cia2"].mask \cup bits ELSE x.cia["cia2"].mask \ bits
           chip == [data    |-> x.cia["cia2"].data,
                    mask    |-> mask,
                    enabled |-> mask \cap Timers,
                    fired   |-> IF "cia2" = "cia1" THEN x.cia["cia2"].data \cap mask # {}
                                                   ELSE x.cia["cia2"].fired]
           y == WithChip(x, "cia2", chip)
<1>1. y.cia["cia2"].data = {} /\ y.nmi_pending = x.nmi_pending
  BY DEF WithChip, Good, Machine, Cias, Chip, NoCia2Flag
<1>2. UpdateNmi(y).cia = y.cia
  BY DEF UpdateNmi, WithChip, Good, Machine
<1>3. WriteIcr(x, "cia2", set, bits) = UpdateNmi(y)
  BY DEF WriteIcr, UpdateLine
<1>5. UpdateNmi(y).nmi_line /\ UpdateNmi(y).nmi_pending = y.nmi_pending
  BY <1>1 DEF UpdateNmi, CiaActive, WithChip, Good, Machine
<1> HIDE DEF y
<1>6. QED
  BY <1>1, <1>2, <1>3, <1>5 DEF NoCia2Flag
LEMMA RmwIcrEdge ==
  ASSUME NEW x, Good(x), NEW c \in Cias, NEW set \in BOOLEAN, NEW bits \in SUBSET CiaSource
  PROVE  EdgeStep(x, RmwIcr(x, c, set, bits))
<1> DEFINE r == ReadIcr(x, c)
           w == WriteIcr(r, c, x.cia[c].fired, x.cia[c].data)
           z == WriteIcr(w, c, set, bits)
<1>1. x.cia[c].fired \in BOOLEAN /\ x.cia[c].data \in SUBSET CiaSource
  BY DEF Good, Machine, Chip
<1>2. Good(r) /\ Good(w)
  BY <1>1, ReadIcrGood, WriteIcrGood
<1>3. CASE c = "cia2"
  <2>1. NoCia2Flag(r) /\ r.nmi_line /\ r.nmi_pending = x.nmi_pending
    BY <1>3, ReadIcr2Clears
  <2> HIDE DEF r
  <2>2. NoCia2Flag(w) /\ w.nmi_line /\ w.nmi_pending = r.nmi_pending
    BY <1>1, <1>2, <1>3, <2>1, WriteIcr2Quiet
  <2> HIDE DEF w
  <2>3. z.nmi_line /\ z.nmi_pending = w.nmi_pending
    BY <1>2, <1>3, <2>2, WriteIcr2Quiet
  <2>4. QED
    BY <2>1, <2>2, <2>3 DEF EdgeStep, RmwIcr, r, w
<1>4. CASE c = "cia1"
  <2>2. r.nmi_line = x.nmi_line /\ r.nmi_pending = x.nmi_pending
    BY <1>4 DEF ReadIcr, UpdateLine, UpdateIrqLine, WithChip, Good, Machine
  <2>3. \A q, s, b : Good(q) => /\ WriteIcr(q, "cia1", s, b).nmi_line = q.nmi_line
                                /\ WriteIcr(q, "cia1", s, b).nmi_pending = q.nmi_pending
    BY DEF WriteIcr, UpdateLine, UpdateIrqLine, WithChip, Good, Machine
  <2>4. /\ w.nmi_line = r.nmi_line /\ w.nmi_pending = r.nmi_pending
        /\ z.nmi_line = w.nmi_line /\ z.nmi_pending = w.nmi_pending
    BY <1>2, <1>4, <2>3
  <2>5. EdgeStep(x, z)
    BY <2>2, <2>4 DEF EdgeStep, Good, Machine
  <2>6. QED
    BY <2>5 DEF RmwIcr
<1>5. QED
  BY <1>3, <1>4 DEF Cias

\* The hardware step only adds flags: the line may fall but not rise.
Falls(x, y) == EdgeStep(x, y) /\ (~x.nmi_line => ~y.nmi_line)

LEMMA FallsTransitive ==
  ASSUME NEW x \in Machine, NEW y \in Machine, NEW z \in Machine, Falls(x, y), Falls(y, z)
  PROVE  Falls(x, z)
BY DEF Falls, EdgeStep, Machine

LEMMA RaiseFalls ==
  ASSUME NEW x, Good(x), NEW c \in Cias, NEW flag \in Timers
  PROVE  Falls(x, Raise(x, c, flag))
<1> DEFINE on   == flag \in x.cia[c].enabled
           chip == [x.cia[c] EXCEPT !.data  = x.cia[c].data \cup {flag},
                                    !.fired = x.cia[c].fired \/ on]
           y    == WithChip(x, c, chip)
           z    == Raise(x, c, flag)
<1>1. x \in Machine /\ x.cia[c] \in Chip
  BY DEF Good, Machine
<1>2. chip \in Chip
  BY <1>1, TimersAreSources DEF Chip
<1>3. y \in Machine /\ y.nmi_line = x.nmi_line /\ y.nmi_pending = x.nmi_pending
  BY <1>1, <1>2 DEF WithChip, Machine
<1>4. EdgeStep(x, z)
  <2>1. CASE on
    BY <1>1, <1>2, <2>1, PutChipEdge DEF Raise
  <2>2. CASE ~on
    <3>1. z = y
      BY <2>2 DEF Raise
    <3>2. QED
      BY <1>3, <3>1 DEF EdgeStep
  <2>3. QED
    BY <2>1, <2>2
<1>5. z.cia["cia2"].mask = x.cia["cia2"].mask /\ x.cia["cia2"].data \subseteq z.cia["cia2"].data
  <2>1. y.cia["cia2"].mask = x.cia["cia2"].mask /\ x.cia["cia2"].data \subseteq y.cia["cia2"].data
    BY <1>1, <1>2 DEF WithChip, Machine, Cias, Chip
  <2>2. UpdateLine(y, c).cia = y.cia
    BY <1>3 DEF UpdateLine, UpdateNmi, UpdateIrqLine, Machine
  <2>3. z = UpdateLine(y, c) \/ z = y
    BY DEF Raise
  <2> HIDE DEF y, z
  <2>4. QED
    BY <2>1, <2>2, <2>3
<1>6. Good(z)
  BY RaiseGood
<1> HIDE DEF z
<1>7. ~x.nmi_line => ~z.nmi_line
  BY <1>5, <1>6 DEF Good, NmiExact, CiaActive
<1>8. QED
  BY <1>4, <1>7 DEF Falls, z

LEMMA TickCiaFalls ==
  ASSUME NEW x, Good(x), NEW c \in Cias, NEW u \in SUBSET Timers
  PROVE  Falls(x, TickCia(x, c, u))
<1> DEFINE y == RaiseIf(x, c, "timerA", u)
<1>1. Good(y) /\ Falls(x, y)
  <2>1. Falls(x, x)
    BY DEF Falls, EdgeStep
  <2>2. QED
    BY <2>1, RaiseGood, RaiseFalls DEF RaiseIf, Timers
<1> HIDE DEF y
<1>2. Good(RaiseIf(y, c, "timerB", u)) /\ Falls(y, RaiseIf(y, c, "timerB", u))
  <2>1. Falls(y, y)
    BY DEF Falls, EdgeStep
  <2>2. QED
    BY <1>1, <2>1, RaiseGood, RaiseFalls DEF RaiseIf, Timers
<1>3. Falls(x, RaiseIf(y, c, "timerB", u))
  BY <1>1, <1>2, FallsTransitive DEF Good
<1>4. QED
  BY <1>3 DEF TickCia, y

\* NMI becomes pending only on a fall of a line that was high or on RESTORE, and
\* every fall makes it pending, whatever the accesses of an instruction.
THEOREM NmiEdgeCorrect == Spec => NmiOnEdge
<1> DEFINE Edge == /\ (~m.nmi_pending /\ m'.nmi_pending)
                        => m.nmi_line /\ (HostRestore \/ ~m'.nmi_line)
                   /\ (m.nmi_line /\ ~m'.nmi_line) => m'.nmi_pending
<1>1. ASSUME GoodInv, Next PROVE Edge
  <2>0. Good(m) /\ m \in Machine
    BY <1>1 DEF GoodInv, Good
  <2>1. EdgeStep(m, m') => Edge
    BY DEF EdgeStep
  <2>2. CASE ServiceNmi
    BY <2>0, <2>2 DEF ServiceNmi, Machine
  <2>3. CASE ServiceIrq
    BY <2>0, <2>3 DEF ServiceIrq, UpdateIrqLine, Machine
  <2>4. ASSUME NEW c \in Cias, CpuReadIcr(c) \/ CpuWriteIcr(c) \/ CpuRmwIcr(c)
        PROVE  Edge
    <3>1. EdgeStep(m, m')
      BY <2>0, <2>4, ReadIcrEdge, WriteIcrEdge, RmwIcrEdge DEF CpuReadIcr, CpuWriteIcr, CpuRmwIcr
    <3>2. QED
      BY <2>1, <3>1
  <2>5. CASE CpuWriteVicStatus \/ CpuRmwVicStatus \/ CpuWriteVicEnable
    BY <2>0, <2>5 DEF CpuWriteVicStatus, CpuRmwVicStatus, CpuWriteVicEnable, WriteVicStatus,
                      RmwVicStatus, WriteVicEnable, UpdateVicIrq, UpdateIrqLine, Machine
  <2>6. CASE CpuSetMasked
    BY <2>0, <2>6 DEF CpuSetMasked, Machine
  <2>7. CASE StepHardware
    <3>1. PICK u1 \in SUBSET Timers, u2 \in SUBSET Timers, v \in SUBSET VicSource :
            m' = TickVic(TickCia(TickCia(m, "cia1", u1), "cia2", u2), v)
      BY <2>7 DEF StepHardware
    <3> DEFINE x == TickCia(m, "cia1", u1)
               y == TickCia(x, "cia2", u2)
    <3>2. Good(x) /\ Falls(m, x)
      BY <2>0, TickCiaGood, TickCiaFalls DEF Cias
    <3> HIDE DEF x
    <3>3. Good(y) /\ Falls(x, y)
      BY <3>2, TickCiaGood, TickCiaFalls DEF Cias
    <3>4. m' = TickVic(y, v)
      BY <3>1 DEF x
    <3> HIDE DEF y
    <3>5. Falls(m, y)
      BY <2>0, <3>2, <3>3, FallsTransitive DEF Good
    <3>6. m'.nmi_line = y.nmi_line /\ m'.nmi_pending = y.nmi_pending
      BY <3>3, <3>4 DEF TickVic, UpdateVicIrq, UpdateIrqLine, Good, Machine
    <3>7. QED
      BY <3>5, <3>6 DEF Falls, EdgeStep
  <2>8. CASE HostIrq
    BY <2>0, <2>8 DEF HostIrq, UpdateIrqLine, Machine
  <2>9. CASE HostRestore
    BY <2>0, <2>9 DEF HostRestore, Machine
  <2>10. CASE HostReset
    BY <2>0, <2>10 DEF HostReset, PowerOn
  <2>11. QED
    BY <1>1, <2>2, <2>3, <2>4, <2>5, <2>6, <2>7, <2>8, <2>9, <2>10 DEF Next, Cpu
<1>2. GoodInv /\ [Next]_vars => [Edge]_vars
  BY <1>1
<1>3. QED
  BY <1>2, SpecGood, PTL DEF Spec, NmiOnEdge

-----------------------------------------------------------------------------
(* Acknowledgement by a read-modify-write. *)

Acknowledged(chip) == chip.data = {} /\ ~chip.fired

\* The update of a line changes no chip.
LEMMA UpdateLineKeepsChips ==
  ASSUME NEW x \in Machine, NEW c \in Cias
  PROVE  UpdateLine(x, c).cia = x.cia
BY DEF UpdateLine, UpdateNmi, UpdateIrqLine, Machine

LEMMA ReadIcrAcknowledges ==
  ASSUME NEW x, Good(x), NEW c \in Cias
  PROVE  Acknowledged(ReadIcr(x, c).cia[c])
<1> DEFINE chip == [x.cia[c] EXCEPT !.data = {}, !.fired = FALSE]
<1>1. x \in Machine /\ chip \in Chip /\ Acknowledged(chip)
  BY DEF Good, Machine, Chip, Acknowledged
<1> HIDE DEF chip
<1>2. WithChip(x, c, chip) \in Machine /\ WithChip(x, c, chip).cia[c] = chip
  BY <1>1, PutChipType
<1> QED BY <1>1, <1>2, UpdateLineKeepsChips DEF ReadIcr, chip

\* No mask raises what has no flag: the dummy write and the last one change nothing of it.
LEMMA WriteIcrStaysAcknowledged ==
  ASSUME NEW x, Good(x), NEW c \in Cias, NEW set \in BOOLEAN, NEW bits \in SUBSET CiaSource,
         Acknowledged(x.cia[c])
  PROVE  Acknowledged(WriteIcr(x, c, set, bits).cia[c])
<1> DEFINE mask == IF set THEN x.cia[c].mask \cup bits ELSE x.cia[c].mask \ bits
           chip == [data    |-> x.cia[c].data,
                    mask    |-> mask,
                    enabled |-> mask \cap Timers,
                    fired   |-> IF c = "cia1" THEN x.cia[c].data \cap mask # {}
                                              ELSE x.cia[c].fired]
<1>1. x \in Machine /\ x.cia[c] \in Chip
  BY DEF Good, Machine
<1>2. mask \in SUBSET CiaSource
  BY <1>1 DEF Chip
<1>3. chip \in Chip /\ Acknowledged(chip)
  BY <1>1, <1>2 DEF Chip, Acknowledged
<1>4. WriteIcr(x, c, set, bits) = UpdateLine(WithChip(x, c, chip), c)
  BY DEF WriteIcr
<1> HIDE DEF chip
<1>5. WithChip(x, c, chip) \in Machine /\ WithChip(x, c, chip).cia[c] = chip
  BY <1>1, <1>3, PutChipType
<1> QED BY <1>3, <1>4, <1>5, UpdateLineKeepsChips

LEMMA RmwIcrAcknowledges ==
  ASSUME NEW x, Good(x), NEW c \in Cias, NEW set \in BOOLEAN, NEW bits \in SUBSET CiaSource
  PROVE  Acknowledged(RmwIcr(x, c, set, bits).cia[c])
<1> DEFINE r == ReadIcr(x, c)
           w == WriteIcr(r, c, x.cia[c].fired, x.cia[c].data)
<1>1. x.cia[c].fired \in BOOLEAN /\ x.cia[c].data \in SUBSET CiaSource
  BY DEF Good, Machine, Chip
<1>2. Good(r) /\ Acknowledged(r.cia[c])
  BY ReadIcrGood, ReadIcrAcknowledges
<1> HIDE DEF r
<1>3. Good(w) /\ Acknowledged(w.cia[c])
  BY <1>1, <1>2, WriteIcrGood, WriteIcrStaysAcknowledged
<1> HIDE DEF w
<1>4. Acknowledged(WriteIcr(w, c, set, bits).cia[c])
  BY <1>3, WriteIcrStaysAcknowledged
<1> QED BY <1>4 DEF RmwIcr, r, w

\* A write of $D019 leaves the sources it did not name, and bit 7 follows.
LEMMA WriteVicStatusLeaves ==
  ASSUME NEW x, Good(x), NEW bits \in SUBSET VicSource
  PROVE  /\ WriteVicStatus(x, bits).vic.status = x.vic.status \ bits
         /\ WriteVicStatus(x, bits).vic.active = VicAsserts(WriteVicStatus(x, bits))
<1>1. Good(WriteVicStatus(x, bits))
  BY WriteVicStatusGood
<1>2. WriteVicStatus(x, bits).vic.status = x.vic.status \ bits
  BY DEF WriteVicStatus, UpdateVicIrq, UpdateIrqLine, Good, Machine, Vic
<1> QED BY <1>1, <1>2 DEF Good, VicExact

LEMMA RmwVicStatusAcknowledges ==
  ASSUME NEW x, Good(x), NEW bits \in SUBSET VicSource
  PROVE  ~RmwVicStatus(x, bits).vic.active
<1> DEFINE w == WriteVicStatus(x, x.vic.status)
<1>1. x.vic.status \in SUBSET VicSource
  BY DEF Good, Machine, Vic
<1>2. Good(w) /\ w.vic.status = {}
  BY <1>1, WriteVicStatusGood, WriteVicStatusLeaves
<1> HIDE DEF w
<1>3. /\ WriteVicStatus(w, bits).vic.status = {}
      /\ WriteVicStatus(w, bits).vic.active = VicAsserts(WriteVicStatus(w, bits))
  BY <1>2, WriteVicStatusLeaves
<1> QED BY <1>3 DEF RmwVicStatus, VicAsserts, w

\* INC $D019 acknowledges every VIC source, DEC $DC0D and its like every flag of a CIA,
\* whatever was latched and whatever the modified value.
THEOREM RmwAcknowledged == Spec => RmwAcknowledges
<1> DEFINE Clears == /\ CpuRmwVicStatus => ~m'.vic.active
                     /\ \A c \in Cias : CpuRmwIcr(c) => m'.cia[c].data = {} /\ ~m'.cia[c].fired
<1>1. GoodInv => Clears
  BY RmwVicStatusAcknowledges, RmwIcrAcknowledges DEF GoodInv, CpuRmwVicStatus, CpuRmwIcr, Acknowledged
<1>2. GoodInv /\ [Next]_vars => [Clears]_vars
  BY <1>1
<1> QED BY <1>2, SpecGood, PTL DEF Spec, RmwAcknowledges

-----------------------------------------------------------------------------
(* Banking: the cartridge. *)

\* A set of chip indices has a greatest one, so "the last chip that fits" exists.
LEMMA Greatest ==
  ASSUME NEW n \in Nat, NEW T \in SUBSET (1..n), T # {}
  PROVE  \E i \in T : \A j \in T : j <= i
<1> DEFINE D == {n - i : i \in T}
           R == OpToRel(<, Nat)
<1>1. D \in SUBSET Nat /\ D # {}
  <2> HIDE DEF R
  <2>1. \A i \in T : n - i \in Nat
    OBVIOUS
  <2> QED
    BY <2>1
<1>2. PICK d \in D : \A e \in D : ~(<<e, d>> \in R)
  <2> HIDE DEF D, R
  <2>1. IsWellFoundedOn(R, Nat)
    BY NatLessThanWellFounded DEF R
  <2> QED
    BY <1>1, <2>1, WFMin, Zenon
<1>3. \A e \in D : ~(e < d)
  BY <1>1, <1>2 DEF OpToRel
<1>4. PICK i \in T : d = n - i
  BY <1>2
<1>5. \A j \in T : j <= i
  BY <1>3, <1>4
<1> QED
  BY <1>5

\* Whatever the test, the last fitting chip is an index of the cartridge, or 0.
LEMMA IndexBound ==
  ASSUME NEW chips \in Seq(ChipPacket), NEW bank
  PROVE  RomlOf(chips, bank) \in Nat /\ RomhOf(chips, bank) \in Nat
<1>1. ASSUME NEW T \in SUBSET DOMAIN chips
      PROVE  (IF T = {} THEN 0 ELSE CHOOSE i \in T : \A j \in T : j <= i) \in Nat
  <2>1. CASE T = {}
    BY <2>1
  <2>2. CASE T # {}
    <3>1. DOMAIN chips = 1..Len(chips) /\ Len(chips) \in Nat
      OBVIOUS
    <3>2. \E i \in T : \A j \in T : j <= i
      BY <2>2, <3>1, Greatest
    <3>3. (CHOOSE i \in T : \A j \in T : j <= i) \in T
      BY <3>2, Zenon
    <3> QED
      BY <2>2, <3>1, <3>3
  <2> QED
    BY <2>1, <2>2
<1>2. RomlOf(chips, bank) \in Nat
  <2> DEFINE F == {i \in DOMAIN chips : chips[i].bank = bank /\ IsRoml(chips[i])}
  <2>1. F \in SUBSET DOMAIN chips
    OBVIOUS
  <2> HIDE DEF F
  <2>2. (IF F = {} THEN 0 ELSE CHOOSE i \in F : \A j \in F : j <= i) \in Nat
    BY <1>1, <2>1
  <2> QED
    BY <2>2, Zenon DEF RomlOf, F
<1>3. RomhOf(chips, bank) \in Nat
  <2> DEFINE F == {i \in DOMAIN chips : chips[i].bank = bank /\ IsRomh(chips[i])}
  <2>1. F \in SUBSET DOMAIN chips
    OBVIOUS
  <2> HIDE DEF F
  <2>2. (IF F = {} THEN 0 ELSE CHOOSE i \in F : \A j \in F : j <= i) \in Nat
    BY <1>1, <2>1
  <2> QED
    BY <2>2, Zenon DEF RomhOf, F
<1> QED
  BY <1>2, <1>3

\* A cartridge in a consistent state: typed, its cached indices exact, and never enabled
\* without a chip.
CartOK(c) ==
  /\ c \in Cart
  /\ c.roml = RomlOf(c.chips, c.bank)
  /\ c.romh = RomhOf(c.chips, c.bank)
  /\ c.chips = <<>> => ~c.enabled

\* update_bank_mapping refreshes the indices and nothing else.
LEMMA UpdateBankMappingOK ==
  ASSUME NEW c \in Cart
  PROVE  /\ UpdateBankMapping(c) \in Cart
         /\ UpdateBankMapping(c).roml = RomlOf(c.chips, c.bank)
         /\ UpdateBankMapping(c).romh = RomhOf(c.chips, c.bank)
         /\ UpdateBankMapping(c).chips = c.chips
         /\ UpdateBankMapping(c).bank = c.bank
         /\ UpdateBankMapping(c).enabled = c.enabled
<1>1. c.chips \in Seq(ChipPacket)
  BY DEF Cart
<1>2. RomlOf(c.chips, c.bank) \in Nat /\ RomhOf(c.chips, c.bank) \in Nat
  BY <1>1, IndexBound
<1> QED
  BY <1>2 DEF UpdateBankMapping, Cart

LEMMA RemappedOK ==
  ASSUME NEW c \in Cart, c.chips = <<>> => ~c.enabled
  PROVE  CartOK(UpdateBankMapping(c)) /\ UpdateBankMapping(c).chips = c.chips
BY UpdateBankMappingOK, Zenon DEF CartOK

LEMMA SelectOK ==
  ASSUME NEW c, CartOK(c), NEW n \in Nat
  PROVE  CartOK(Select(c, n)) /\ Select(c, n).chips = c.chips
<1> DEFINE banked == [c EXCEPT !.bank = n]
<1>1. banked \in Cart /\ (banked.chips = <<>> => ~banked.enabled) /\ banked.chips = c.chips
  BY DEF CartOK, Cart
<1> QED
  BY <1>1, RemappedOK DEF Select

LEMMA OffOK ==
  ASSUME NEW c, CartOK(c)
  PROVE  CartOK(Off(c)) /\ Off(c).chips = c.chips
BY DEF CartOK, Cart, Off

LEMMA ReadIoOK ==
  ASSUME NEW c, CartOK(c), NEW a \in Nat
  PROVE  CartOK(ReadIo(c, a)) /\ ReadIo(c, a).chips = c.chips
<1>1. a % 64 \in Nat
  OBVIOUS
<1>2. /\ CartOK(Select(c, a % 64)) /\ Select(c, a % 64).chips = c.chips
      /\ CartOK(Select(c, 1)) /\ Select(c, 1).chips = c.chips
  BY <1>1, SelectOK
<1>3. CartOK(Off(c)) /\ Off(c).chips = c.chips
  BY OffOK
<1> QED
  BY <1>2, <1>3 DEF ReadIo

LEMMA EasyFlashLinesOK ==
  ASSUME NEW c, CartOK(c), NEW v
  PROVE  CartOK(EasyFlashLines(c, v)) /\ EasyFlashLines(c, v).chips = c.chips
<1> DEFINE driven == (v \div 4) % 2 = 1
           g == IF driven /\ v % 2 = 0 THEN 1 ELSE 0
           x == IF driven /\ (v \div 2) % 2 = 0 THEN 1 ELSE 0
           lined == [c EXCEPT !.game = g, !.exrom = x]
<1>1. g \in Nat /\ x \in Nat
  OBVIOUS
<1>2. lined \in Cart /\ (lined.chips = <<>> => ~lined.enabled) /\ lined.chips = c.chips
  <2> HIDE DEF g, x
  <2> QED
    BY <1>1 DEF CartOK, Cart
<1>3. EasyFlashLines(c, v) = UpdateBankMapping(lined)
  BY Zenon DEF EasyFlashLines
<1> QED
  BY <1>2, <1>3, RemappedOK

LEMMA SimonsLineOK ==
  ASSUME NEW c, CartOK(c), NEW v
  PROVE  CartOK(SimonsLine(c, v)) /\ SimonsLine(c, v).chips = c.chips
<1> DEFINE g == IF v = 1 THEN 0 ELSE 1
           lined == [c EXCEPT !.game = g]
<1>1. lined \in Cart /\ (lined.chips = <<>> => ~lined.enabled) /\ lined.chips = c.chips
  BY DEF CartOK, Cart
<1>2. SimonsLine(c, v) = UpdateBankMapping(lined)
  BY Zenon DEF SimonsLine
<1> QED
  BY <1>1, <1>2, RemappedOK

\* The bank registers of every type keep the cartridge consistent.
LEMMA WriteIoOK ==
  ASSUME NEW c, CartOK(c), NEW a \in Nat, NEW v \in 0..255
  PROVE  CartOK(WriteIo(c, a, v)) /\ WriteIo(c, a, v).chips = c.chips
<1> DEFINE Kept(x) == CartOK(x) /\ x.chips = c.chips
<1>1. \A n \in Nat : Kept(Select(c, n))
  BY SelectOK
<1>2. /\ v % 64 \in Nat /\ v % 4 \in Nat /\ a % 64 \in Nat /\ a % 16 \in Nat
      /\ ((v \div 8) % 8) + 8 * (v % 2) \in Nat
  OBVIOUS
<1>3. Kept(Select(c, v % 64)) /\ Kept(Select(c, v % 4)) /\ Kept(Select(c, 1))
  BY <1>1, <1>2
<1>4. Kept(Select(c, a % 64)) /\ Kept(Select(c, a % 16))
  BY <1>1, <1>2
<1>5. Kept(Off(c)) /\ Kept(Off(Select(c, v % 4)))
  BY <1>3, OffOK
<1>6. Kept(EasyFlashLines(c, v)) /\ Kept(SimonsLine(c, v))
  BY EasyFlashLinesOK, SimonsLineOK
<1>7. c.enabled => Kept(On(c))
  BY DEF CartOK, Cart, On
<1>8. Kept(c)
  OBVIOUS
<1>9. /\ Kept(FunPlayRegister(c, v)) /\ Kept(SuperGamesRegister(c, v))
      /\ Kept(MagicDeskRegister(c, v))
  <2>1. Kept(Select(c, ((v \div 8) % 8) + 8 * (v % 2)))
    BY <1>1, <1>2
  <2> HIDE DEF Kept
  <2> QED
    BY <1>3, <1>5, <2>1, Zenon DEF FunPlayRegister, SuperGamesRegister, MagicDeskRegister
<1> HIDE DEF Kept
<1>10. Kept(WriteIo(c, a, v))
  BY <1>3, <1>4, <1>5, <1>6, <1>7, <1>8, <1>9, ZenonT(60) DEF WriteIo
<1> QED
  BY <1>10 DEF Kept

LEMMA CartResetOK ==
  ASSUME NEW c \in Cart
  PROVE  CartOK(CartReset(c)) /\ CartReset(c).chips = c.chips
<1> DEFINE on == (c.chips # <<>>)
           back == [c EXCEPT !.bank = 0, !.enabled = on,
                             !.exrom = c.header_exrom, !.game = c.header_game]
<1>1. back \in Cart /\ (back.chips = <<>> => ~back.enabled) /\ back.chips = c.chips
  <2>1. on \in BOOLEAN /\ (c.chips = <<>> => ~on)
    OBVIOUS
  <2> HIDE DEF on
  <2> QED
    BY <2>1 DEF Cart
<1> QED
  BY <1>1, RemappedOK DEF CartReset

\* An inserted image is consistent, and a reset finds nothing to change in it.
LEMMA InsertedOK ==
  ASSUME NEW i \in Image
  PROVE  /\ CartOK(Inserted(i))
         /\ Inserted(i).enabled /\ Inserted(i).chips # <<>>
         /\ CartReset(Inserted(i)) = Inserted(i)
<1> DEFINE new == [NoCart EXCEPT
             !.type = i.type, !.exrom = i.exrom, !.game = i.game,
             !.header_exrom = i.exrom, !.header_game = i.game,
             !.chips = i.chips, !.enabled = TRUE]
<1>1. /\ new \in Cart /\ new.enabled /\ new.chips # <<>> /\ new.bank = 0
      /\ new.exrom = new.header_exrom /\ new.game = new.header_game
  BY ImagesParsed DEF NoCart, Cart
<1>2. Inserted(i) = UpdateBankMapping(new)
  BY DEF Inserted
<1> HIDE DEF new
<1>3. CartOK(Inserted(i)) /\ Inserted(i).enabled /\ Inserted(i).chips # <<>>
  BY <1>1, <1>2, RemappedOK, UpdateBankMappingOK
<1>4. CartReset(Inserted(i)) = Inserted(i)
  <2> DEFINE j == Inserted(i)
             on == (j.chips # <<>>)
  <2>1. /\ j \in Cart /\ j.enabled = TRUE /\ on = TRUE /\ j.bank = 0
        /\ j.exrom = j.header_exrom /\ j.game = j.header_game
        /\ j.roml = RomlOf(j.chips, j.bank) /\ j.romh = RomhOf(j.chips, j.bank)
    BY <1>1, <1>2, <1>3 DEF CartOK, UpdateBankMapping, Cart
  <2>2. CartReset(j) = UpdateBankMapping([j EXCEPT !.bank = 0, !.enabled = on,
                                    !.exrom = j.header_exrom, !.game = j.header_game])
    BY DEF CartReset
  <2> HIDE DEF j, on
  <2>3. [j EXCEPT !.bank = 0, !.enabled = on, !.exrom = j.header_exrom,
                  !.game = j.header_game] = j
    BY <2>1 DEF Cart
  <2>4. UpdateBankMapping(j) = j
    BY <2>1 DEF UpdateBankMapping, Cart
  <2> QED
    BY <2>2, <2>3, <2>4 DEF j
<1> QED
  BY <1>3, <1>4

LEMMA EjectedOK ==
  ASSUME NEW c \in Cart
  PROVE  CartOK(Ejected(c)) /\ Ejected(c).chips = <<>>
<1>1. \A bank : RomlOf(<<>>, bank) = 0 /\ RomhOf(<<>>, bank) = 0
  BY DEF RomlOf, RomhOf
<1>2. <<>> \in Seq(ChipPacket)
  OBVIOUS
<1>3. Ejected(c) \in Cart /\ Ejected(c).chips = <<>>
  <2>1. NoCart \in Cart /\ NoCart.chips = <<>>
    BY <1>2 DEF NoCart, Cart, CartTypes
  <2>2. c.header_exrom \in Nat /\ c.header_game \in Nat
    BY DEF Cart
  <2> QED
    BY <2>1, <2>2 DEF Ejected, Cart
<1>4. Ejected(c).roml = 0 /\ Ejected(c).romh = 0 /\ ~Ejected(c).enabled
  BY DEF Ejected, NoCart
<1> QED
  BY <1>1, <1>3, <1>4 DEF CartOK

-----------------------------------------------------------------------------
(* The page tables. *)

\* The key determines everything a rebuild produces, so the early return is sound.
LEMMA SameKey ==
  ASSUME NEW b, NEW c, NEW b2, NEW c2, Key(b, c) = Key(b2, c2)
  PROVE  Rebuilt(b, c) = Rebuilt(b2, c2)
<1>1. /\ b = b2 /\ c.enabled = c2.enabled
      /\ (c.exrom # 0) = (c2.exrom # 0) /\ (c.game # 0) = (c2.game # 0)
      /\ (c.roml # 0) = (c2.roml # 0) /\ (c.romh # 0) = (c2.romh # 0)
  BY Zenon DEF Key
<1>2. Ultimax(c) = Ultimax(c2)
  BY <1>1, Zenon DEF Ultimax
<1>3. \A r : UltimaxPage(c, r) = UltimaxPage(c2, r)
  BY <1>1, Zenon DEF UltimaxPage
<1>4. \A r : CartPage(b, c, r) = CartPage(b2, c2, r)
  BY <1>1, Zenon DEF CartPage
<1>5. (c.exrom = 0) = (c2.exrom = 0)
  BY <1>1, Zenon
<1>6. Pages(b, c) = Pages(b2, c2)
  BY <1>1, <1>2, <1>3, <1>4, <1>5, Zenon DEF Pages
<1>7. IoOn(b, c) = IoOn(b2, c2)
  BY <1>1, <1>2, Zenon DEF IoOn
<1> QED
  BY <1>1, <1>2, <1>6, <1>7, Zenon DEF Rebuilt

\* A region shows one of the seven page types, cartridge ROM only if enabled.
LEMMA PagesOK ==
  ASSUME NEW b, NEW c
  PROVE  /\ Pages(b, c) \in [Regions -> Shown]
         /\ \A r \in Regions : Pages(b, c)[r] \in {"roml", "romh"} => c.enabled
         /\ IoOn(b, c) <=> Pages(b, c)["$D000"] = "io"
<1>1. \A r : BasePage(b, r) \in {"ram", "basic", "kernal", "char", "io"}
  BY DEF BasePage
<1>2. \A r : UltimaxPage(c, r) \in Shown /\ CartPage(b, c, r) \in Shown
  BY <1>1 DEF UltimaxPage, CartPage, Shown
<1>3. \A r \in Regions : Pages(b, c)[r] \in Shown
  BY <1>1, <1>2 DEF Pages, Shown
<1>4. \A r \in Regions : Pages(b, c)[r] \in {"roml", "romh"} => c.enabled
  BY <1>1 DEF Pages, Ultimax
<1>5. IoOn(b, c) <=> Pages(b, c)["$D000"] = "io"
  <2>1. "$D000" \in Regions
    BY DEF Regions
  <2>2. UltimaxPage(c, "$D000") = "io"
    BY DEF UltimaxPage
  <2>3. CartPage(b, c, "$D000") = BasePage(b, "$D000")
    BY DEF CartPage
  <2>4. BasePage(b, "$D000") = "io" <=> AnyRom(b) /\ "charen" \in b
    BY DEF BasePage
  <2> QED
    BY <2>1, <2>2, <2>3, <2>4 DEF Pages, IoOn
<1> QED
  BY <1>3, <1>4, <1>5 DEF Pages

LEMMA BankType ==
  ASSUME NEW d \in SUBSET Lines, NEW l \in SUBSET Lines
  PROVE  Bank(d, l) \in SUBSET Lines
BY DEF Bank

\* A table built by update_memory_map, while the slot holds cartridge c.
BuiltFor(x, c) ==
  \E b \in SUBSET Lines, e \in Cart :
    x = Rebuilt(b, e) /\ (e.enabled => c.chips # <<>>)

LEMMA BuiltOK ==
  ASSUME NEW x, NEW c, BuiltFor(x, c)
  PROVE  /\ x \in Map
         /\ x.write_io <=> x.read["$D000"] = "io"
         /\ x.is_io_on <=> x.write_io
         /\ c.chips = <<>> => \A r \in Regions : x.read[r] \notin {"roml", "romh"}
<1>1. PICK b \in SUBSET Lines, e \in Cart :
        x = Rebuilt(b, e) /\ (e.enabled => c.chips # <<>>)
  BY DEF BuiltFor
<1>2. Key(b, e) \in MapKey
  <2>1. e.enabled \in BOOLEAN
    BY DEF Cart
  <2> QED
    BY <2>1 DEF Key, MapKey
<1>3. IoOn(b, e) \in BOOLEAN /\ ("hiram" \in b /\ ~Ultimax(e)) \in BOOLEAN
  BY DEF IoOn
<1> DEFINE pages == Pages(b, e)
           io == IoOn(b, e)
           kernal == "hiram" \in b /\ ~Ultimax(e)
<1>4. x = [key |-> Key(b, e), read |-> pages, write_io |-> io, is_io_on |-> io,
           is_kernal_on |-> kernal]
  BY <1>1 DEF Rebuilt
<1>5. /\ pages \in [Regions -> Shown] /\ io \in BOOLEAN /\ kernal \in BOOLEAN
      /\ \A r \in Regions : pages[r] \in {"roml", "romh"} => e.enabled
      /\ io <=> pages["$D000"] = "io"
  BY <1>3, PagesOK
<1> HIDE DEF pages, io, kernal
<1>6. x \in Map
  BY <1>2, <1>4, <1>5 DEF Map
<1> QED
  BY <1>1, <1>4, <1>5, <1>6

\* update_memory_map always ends with the tables a rebuild would make.
LEMMA UpdateIsRebuild ==
  ASSUME NEW d, NEW l, NEW c, NEW c2, NEW x, BuiltFor(x, c2)
  PROVE  UpdateMemoryMap(d, l, c, x) = Rebuilt(Bank(d, l), c)
<1>1. PICK b \in SUBSET Lines, e \in Cart : x = Rebuilt(b, e)
  BY DEF BuiltFor
<1>2. x.key = Key(b, e)
  BY <1>1 DEF Rebuilt
<1>3. Key(Bank(d, l), c) = Key(b, e) => Rebuilt(Bank(d, l), c) = Rebuilt(b, e)
  BY SameKey
<1> QED
  BY <1>1, <1>2, <1>3, Zenon DEF UpdateMemoryMap

LEMMA UpdateBuilt ==
  ASSUME NEW d \in SUBSET Lines, NEW l \in SUBSET Lines, NEW c, CartOK(c),
         NEW c2, NEW x, BuiltFor(x, c2)
  PROVE  BuiltFor(UpdateMemoryMap(d, l, c, x), c)
<1>1. UpdateMemoryMap(d, l, c, x) = Rebuilt(Bank(d, l), c)
  BY UpdateIsRebuild
<1>2. Bank(d, l) \in SUBSET Lines /\ c \in Cart /\ (c.enabled => c.chips # <<>>)
  BY BankType DEF CartOK
<1> QED
  BY <1>1, <1>2, Zenon DEF BuiltFor

LEMMA VectorType ==
  ASSUME NEW x \in Map, NEW c
  PROVE  VectorFrom(x, c) \in Shown
<1>1. x.read["$E000"] \in Shown
  BY DEF Map, Regions
<1> QED
  BY <1>1 DEF VectorFrom, Shown

-----------------------------------------------------------------------------
(* The inductive invariant.  BuiltFor is the strengthening: BankTypeOK alone   *)
(* says nothing of a table whose key matches and whose pages do not.       *)

IInv ==
  /\ ddr \in SUBSET Lines /\ latch \in SUBSET Lines
  /\ CartOK(cart)
  /\ BuiltFor(map, cart)
  /\ vector \in Shown

LEMMA NoCartOK == CartOK(NoCart)
<1>1. \A bank : RomlOf(<<>>, bank) = 0 /\ RomhOf(<<>>, bank) = 0
  BY DEF RomlOf, RomhOf
<1>2. <<>> \in Seq(ChipPacket)
  OBVIOUS
<1>3. NoCart \in Cart
  BY <1>2 DEF NoCart, Cart, CartTypes
<1> QED
  BY <1>1, <1>3 DEF CartOK, NoCart

LEMMA RebuiltBuilt ==
  ASSUME NEW b \in SUBSET Lines, NEW c \in Cart, NEW k, c.enabled => k.chips # <<>>
  PROVE  BuiltFor(Rebuilt(b, c), k)
BY Zenon DEF BuiltFor

LEMMA InitIInv == BankInit => IInv
<1> SUFFICES ASSUME BankInit PROVE IInv
  OBVIOUS
<1>1. PortOnes \in SUBSET Lines
  BY DEF PortOnes
<1>2. NoCart \in Cart /\ ~NoCart.enabled
  BY NoCartOK DEF CartOK, NoCart
<1>3. BuiltFor(map, cart)
  BY <1>1, <1>2, RebuiltBuilt DEF BankInit
<1>4. vector \in Shown
  BY <1>3, BuiltOK, VectorType DEF BankInit
<1> QED
  BY <1>1, <1>3, <1>4, NoCartOK DEF BankInit, IInv

\* A cold start with a consistent cartridge leaves the invariant.
LEMMA ColdStartIInv ==
  ASSUME NEW c, CartOK(c), ColdStart(c)
  PROVE  IInv' /\ map' = Rebuilt(PortOnes, c) /\ cart' = CartReset(c)
<1>1. ddr' = PortOnes /\ latch' = PortOnes /\ PortOnes \in SUBSET Lines
  BY DEF ColdStart, PortOnes
<1>2. c \in Cart /\ (c.enabled => c.chips # <<>>)
  BY DEF CartOK
<1>3. /\ cart' = CartReset(c) /\ map' = Rebuilt(PortOnes, c)
      /\ vector' = VectorFrom(map', cart')
  BY DEF ColdStart
<1>4. CartOK(cart') /\ cart'.chips = c.chips
  BY <1>2, <1>3, CartResetOK
<1>5. BuiltFor(map', cart')
  BY <1>1, <1>2, <1>3, <1>4, RebuiltBuilt
<1>6. vector' \in Shown
  BY <1>3, <1>5, BuiltOK, VectorType
<1> QED
  BY <1>1, <1>3, <1>4, <1>5, <1>6 DEF IInv

\* Steps that end in update_memory_map: the invariant, and a current map.
LEMMA UpdateIInv ==
  ASSUME IInv, ddr' \in SUBSET Lines, latch' \in SUBSET Lines, vector' = vector,
         CartOK(cart'), map' = UpdateMemoryMap(ddr', latch', cart', map)
  PROVE  IInv' /\ MapCurrent'
<1>1. BuiltFor(map, cart)
  BY DEF IInv
<1>2. BuiltFor(map', cart') /\ map' = Rebuilt(Bank(ddr', latch'), cart')
  BY <1>1, UpdateBuilt, UpdateIsRebuild
<1> QED
  BY <1>2 DEF IInv, MapCurrent

LEMMA LoadSidIInv ==
  ASSUME IInv, NEW d \in SUBSET Lines, LoadSid(d)
  PROVE  IInv' /\ MapCurrent'
<1> DEFINE cold == Rebuilt(PortOnes, cart)
<1>1. CartOK(cart) /\ cart \in Cart /\ (cart.enabled => cart.chips # <<>>)
  BY DEF IInv, CartOK
<1>2. PortOnes \in SUBSET Lines /\ {"loram", "charen"} \in SUBSET Lines
  BY DEF PortOnes, Lines
<1>3. CartOK(cart')
  BY <1>1, CartResetOK DEF LoadSid
<1>4. BuiltFor(cold, cart)
  BY <1>1, <1>2, RebuiltBuilt
<1>5. /\ ddr' \in SUBSET Lines /\ latch' \in SUBSET Lines
      /\ map' = UpdateMemoryMap(ddr', latch', cart', cold)
      /\ vector' = VectorFrom(cold, cart')
  BY <1>2 DEF LoadSid
<1> HIDE DEF cold
<1>6. BuiltFor(map', cart') /\ map' = Rebuilt(Bank(ddr', latch'), cart')
  BY <1>3, <1>4, <1>5, UpdateBuilt, UpdateIsRebuild
<1>7. vector' \in Shown
  BY <1>4, <1>5, BuiltOK, VectorType
<1> QED
  BY <1>3, <1>5, <1>6, <1>7 DEF IInv, MapCurrent

\* Every step but a reset and an insert or eject, which ColdStartIInv covers.
LEMMA StepIInv ==
  ASSUME IInv, BankNext
  PROVE  IInv' /\ (~Reset => MapCurrent')
<1>1. CartOK(cart) /\ cart \in Cart /\ ddr \in SUBSET Lines /\ latch \in SUBSET Lines
  BY DEF IInv, CartOK
<1>2. CASE Reset
  BY <1>1, <1>2, ColdStartIInv DEF Reset
<1>3. ASSUME NEW i \in Image, InsertCrt(i)
      PROVE  IInv' /\ MapCurrent'
  <2>1. CartOK(Inserted(i)) /\ CartReset(Inserted(i)) = Inserted(i)
    BY InsertedOK
  <2>2. IInv' /\ map' = Rebuilt(PortOnes, Inserted(i)) /\ cart' = Inserted(i)
    BY <1>3, <2>1, ColdStartIInv DEF InsertCrt
  <2>3. Bank(ddr', latch') = PortOnes
    BY <1>3 DEF InsertCrt, ColdStart, Bank, PortOnes
  <2> QED
    BY <2>2, <2>3 DEF MapCurrent
<1>4. CASE EjectCrt
  <2> DEFINE e == Ejected(cart)
  <2>1. CartOK(e) /\ e.chips = <<>>
    BY <1>1, EjectedOK
  <2>2. IInv' /\ map' = Rebuilt(PortOnes, e) /\ cart' = CartReset(e)
    BY <1>4, <2>1, ColdStartIInv DEF EjectCrt
  <2>3. ~e.enabled /\ ~cart'.enabled
    <3>1. e \in Cart /\ ~e.enabled
      BY <2>1 DEF CartOK
    <3>2. CartOK(CartReset(e)) /\ CartReset(e).chips = <<>>
      BY <2>1, <3>1, CartResetOK
    <3> QED
      BY <2>2, <3>1, <3>2 DEF CartOK
  <2>4. Bank(ddr', latch') = PortOnes
    BY <1>4 DEF EjectCrt, ColdStart, Bank, PortOnes
  <2> HIDE DEF e
  <2>5. ~Ultimax(e) /\ ~Ultimax(cart')
    BY <2>3 DEF Ultimax
  <2>6. Pages(PortOnes, e) = Pages(PortOnes, cart')
    BY <2>3, <2>5, Zenon DEF Pages
  <2> QED
    BY <2>2, <2>4, <2>5, <2>6 DEF MapCurrent, Rebuilt, IoOn
<1>5. ASSUME NEW d \in SUBSET Lines, LoadSid(d)
      PROVE  IInv' /\ MapCurrent'
  BY <1>5, LoadSidIInv
<1>6. ASSUME NEW d \in SUBSET Lines, WriteDdr(d)
      PROVE  IInv' /\ MapCurrent'
  BY <1>1, <1>6, UpdateIInv DEF WriteDdr
<1>7. ASSUME NEW l \in SUBSET Lines, WriteLatch(l)
      PROVE  IInv' /\ MapCurrent'
  BY <1>1, <1>7, UpdateIInv DEF WriteLatch
<1>8. ASSUME NEW d \in SUBSET Lines, NEW l \in SUBSET Lines, LoadOverPort(d, l)
      PROVE  IInv' /\ MapCurrent'
  BY <1>1, <1>8, UpdateIInv DEF LoadOverPort
<1>9. ASSUME NEW a \in IoAddress, ReadExpansion(a)
      PROVE  IInv' /\ MapCurrent'
  <2>1. CartOK(cart')
    BY <1>1, <1>9, ReadIoOK, IoIsBytes DEF ReadExpansion
  <2> QED
    BY <1>1, <1>9, <2>1, UpdateIInv DEF ReadExpansion
<1>10. ASSUME NEW a \in IoAddress, NEW v \in IoValue, WriteExpansion(a, v)
       PROVE  IInv' /\ MapCurrent'
  <2>1. CartOK(cart')
    BY <1>1, <1>10, WriteIoOK, IoIsBytes DEF WriteExpansion
  <2> QED
    BY <1>1, <1>10, <2>1, UpdateIInv DEF WriteExpansion
<1> QED
  BY <1>2, <1>3, <1>4, <1>5, <1>6, <1>7, <1>8, <1>9, <1>10 DEF BankNext

LEMMA StutterIInv == IInv /\ UNCHANGED bankVars => IInv'
BY DEF IInv, BuiltFor, CartOK, bankVars

LEMMA SpecIInv == BankSpec => []IInv
<1>1. IInv /\ [BankNext]_bankVars => IInv'
  BY StepIInv, StutterIInv
<1> QED
  BY InitIInv, <1>1, PTL DEF BankSpec

-----------------------------------------------------------------------------
(* The theorems. *)

\* Type correctness: no bank register leaves the naturals and every page has a type.
THEOREM BankTypeCorrect == BankSpec => []BankTypeOK
<1>1. IInv => BankTypeOK
  BY BuiltOK DEF IInv, BankTypeOK, CartOK
<1> QED
  BY SpecIInv, <1>1, PTL

\* roml_index and romh_index always name the chips of the selected bank.
THEOREM IndicesCorrect == BankSpec => []IndexExact
<1>1. IInv => IndexExact
  BY DEF IInv, IndexExact, CartOK
<1> QED
  BY SpecIInv, <1>1, PTL

\* Reads and writes of $D000-$DFFF agree in every map, stale or not.
THEOREM WindowCorrect == BankSpec => []WindowAgrees
<1>1. IInv => WindowAgrees
  BY BuiltOK DEF IInv, WindowAgrees
<1> QED
  BY SpecIInv, <1>1, PTL

\* An ejected cartridge is never enabled and never shown again.
THEOREM EjectedCorrect == BankSpec => []EjectedIsGone
<1>1. IInv => EjectedIsGone
  BY BuiltOK DEF IInv, EjectedIsGone, CartOK
<1> QED
  BY SpecIInv, <1>1, PTL

\* The early return on memory_map_key never hides a change of port or cartridge.
THEOREM RemapCorrect == BankSpec => EveryChangeRemaps
<1> DEFINE A == <<ddr, latch, cart>>' # <<ddr, latch, cart>> /\ ~Reset => MapCurrent'
<1>1. IInv /\ [BankNext]_bankVars => [A]_bankVars
  BY StepIInv DEF bankVars
<1> QED
  BY SpecIInv, <1>1, PTL DEF BankSpec, EveryChangeRemaps

\* A reset that leaves its cartridge as it was starts an Ultimax one from its ROM.
LEMMA ColdStartBoots ==
  ASSUME NEW c, ColdStart(c), CartReset(c) = c, Ultimax(c), CartServesVector(c)
  PROVE  vector' = "romh"
<1>1. /\ cart' = c /\ map' = Rebuilt(PortOnes, c)
      /\ vector' = VectorFrom(map', cart')
  BY DEF ColdStart
<1>2. c.romh # 0
  BY DEF CartServesVector
<1>3. Pages(PortOnes, c)["$E000"] = UltimaxPage(c, "$E000")
  BY DEF Pages, Regions
<1>4. UltimaxPage(c, "$E000") = "romh"
  BY <1>2 DEF UltimaxPage
<1>5. map'.read["$E000"] = "romh"
  BY <1>1, <1>3, <1>4 DEF Rebuilt
<1> QED
  BY <1>1, <1>5 DEF VectorFrom

\* A new Ultimax cartridge always starts from its own vectors, and a reset does so of one
\* that is as its header has it.
THEOREM UltimaxBoots == BankSpec => NewCartBoots
<1> DEFINE Boots == (\E i \in Image : InsertCrt(i)) \/ (Reset /\ cart = CartReset(cart)) =>
                      (Ultimax(cart') /\ CartServesVector(cart') => vector' = "romh")
<1>1. ASSUME NEW i \in Image, InsertCrt(i), Ultimax(cart'), CartServesVector(cart')
      PROVE  vector' = "romh"
  <2>1. CartReset(Inserted(i)) = Inserted(i) /\ ColdStart(Inserted(i))
    BY <1>1, InsertedOK DEF InsertCrt
  <2>2. cart' = Inserted(i)
    BY <2>1 DEF ColdStart
  <2> QED
    BY <1>1, <2>1, <2>2, ColdStartBoots
<1>2. ASSUME Reset, cart = CartReset(cart), Ultimax(cart'), CartServesVector(cart')
      PROVE  vector' = "romh"
  <2>1. cart' = cart
    BY <1>2 DEF Reset, ColdStart
  <2> QED
    BY <1>2, <2>1, ColdStartBoots DEF Reset
<1>3. [BankNext]_bankVars => [Boots]_bankVars
  BY <1>1, <1>2
<1> QED
  BY <1>3, PTL DEF BankSpec, NewCartBoots
=============================================================================
