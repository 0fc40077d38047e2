-------------------------------- MODULE CpuAlu --------------------------------
(***************************************************************************)
(* What one instruction of the 6510 computes (src/src/cpu.cpp): arithmetic *)
(* in binary and decimal, comparisons, shifts, the flags each sets, and    *)
(* the addresses the addressing modes reach.  Pure operators: which one an *)
(* opcode selects and how long it is are module Opcodes, the stack is      *)
(* module CpuStack.  A status is the set of the flags that are set.        *)
(***************************************************************************)
EXTENDS Integers
LOCAL INSTANCE FiniteSetsExt

Byte      == 0..255
Address16 == 0..65535
StatusFlags == {"carry", "zero", "interrupt", "decimal", "break", "constant", "overflow", "sign"}

\* The accumulator and the flags, which most instructions work on.
Registers == [a : Byte, status : SUBSET StatusFlags]

-----------------------------------------------------------------------------
(* Flags. *)

With(status, flag, on) == IF on THEN status \cup {flag} ELSE status \ {flag}

Negative(n)  == n % 256 >= 128
CarryIn(status) == IF "carry" \in status THEN 1 ELSE 0

CalcCarry(status, n)          == With(status, "carry", n > 255)
CalcZero(status, n)           == With(status, "zero", n % 256 = 0)
CalcSign(status, n)           == With(status, "sign", Negative(n))
CalcOverflow(status, n, m, o) == With(status, "overflow", Negative(n) # Negative(m) /\ Negative(n) # Negative(o))

ZeroAndSign(status, n) == CalcSign(CalcZero(status, n), n)

\* The flags of the binary sum, which decimal mode starts from.
SumFlags(status, n, m, o) == CalcSign(CalcOverflow(CalcZero(CalcCarry(status, n), n), n, m, o), n)

\* CLC, CLD, CLI, CLV, SEC, SED and SEI.
ClearedBy == [CLC |-> "carry", CLD |-> "decimal", CLI |-> "interrupt", CLV |-> "overflow"]
SetBy     == [SEC |-> "carry", SED |-> "decimal", SEI |-> "interrupt"]

\* Which flag a branch tests, and which way it wants it.
Tests == [BCC |-> <<"carry", FALSE>>, BCS |-> <<"carry", TRUE>>, BEQ |-> <<"zero", TRUE>>,
          BNE |-> <<"zero", FALSE>>, BMI |-> <<"sign", TRUE>>, BPL |-> <<"sign", FALSE>>,
          BVS |-> <<"overflow", TRUE>>, BVC |-> <<"overflow", FALSE>>]

Taken(branch, status) ==
  IF Tests[branch][2] THEN Tests[branch][1] \in status ELSE Tests[branch][1] \notin status

-----------------------------------------------------------------------------
(* Arithmetic.  A value is handed back to the accumulator by its low byte. *)

BinarySum(c, v) == c.a + v + CarryIn(c.status)

AdcBinary(c, v) ==
  [a |-> BinarySum(c, v) % 256, status |-> SumFlags(c.status, BinarySum(c, v), c.a, v)]

\* The low digits, with a carry of 16 out of them.
LowSum(c, v) ==
  LET al == (c.a % 16) + (v % 16) + CarryIn(c.status)
  IN  IF al > 9 THEN ((al + 6) % 16) + 16 ELSE al

\* The high digits on top, and what remains of a carry out of them.
HighSum(c, v) == 16 * (c.a \div 16) + 16 * (v \div 16) + LowSum(c, v)
Bcd(c, v)     == IF HighSum(c, v) >= 160 THEN HighSum(c, v) + 96 ELSE HighSum(c, v)

AdcDecimal(c, v) ==
  LET binary == SumFlags(c.status, BinarySum(c, v), c.a, v)
      half   == CalcOverflow(CalcSign(binary, HighSum(c, v)), HighSum(c, v), c.a, v)
  IN  [a |-> Bcd(c, v) % 256, status |-> With(half, "carry", Bcd(c, v) > 255)]

Adc(c, v) == IF "decimal" \in c.status THEN AdcDecimal(c, v) ELSE AdcBinary(c, v)

\* A subtraction is the sum with the operand inverted.
Inverted(v) == 255 - v

SbcBinary(c, v) == AdcBinary(c, Inverted(v))

LowDifference(c, v) == (c.a % 16) - (v % 16) - (1 - CarryIn(c.status))

HighDifference(c, v) ==
  c.a \div 16 - v \div 16 - (IF LowDifference(c, v) < 0 THEN 1 ELSE 0)

\* A digit that fell below 0 skips the six values that are no digit.
Digit(d) == (IF d < 0 THEN d - 6 ELSE d) % 16

SbcDecimal(c, v) ==
  [a |-> 16 * Digit(HighDifference(c, v)) + Digit(LowDifference(c, v)),
   status |-> SbcBinary(c, v).status]

Sbc(c, v) == IF "decimal" \in c.status THEN SbcDecimal(c, v) ELSE SbcBinary(c, v)

\* CMP, CPX and CPY, of any of the registers.
Compare(status, register, v) ==
  CalcSign(With(With(status, "carry", register >= v), "zero", register = v), register - v)

\* INC and DEC, INX and DEY.
Inc(status, v) == [value |-> (v + 1) % 256, status |-> ZeroAndSign(status, v + 1)]
Dec(status, v) == [value |-> (v - 1) % 256, status |-> ZeroAndSign(status, v - 1)]

\* Loads, and the transfers between registers that set flags.
Load(v, status) == [value |-> v, status |-> ZeroAndSign(status, v)]

-----------------------------------------------------------------------------
(* Shifts. *)

Asl(status, v) ==
  [value |-> (2 * v) % 256, status |-> ZeroAndSign(CalcCarry(status, 2 * v), 2 * v)]
Lsr(status, v) ==
  [value |-> v \div 2, status |-> ZeroAndSign(With(status, "carry", v % 2 = 1), v \div 2)]

Rol(status, v) ==
  LET n == 2 * v + CarryIn(status)
  IN  [value |-> n % 256, status |-> ZeroAndSign(CalcCarry(status, n), n)]
Ror(status, v) ==
  LET n == v \div 2 + 128 * CarryIn(status)
  IN  [value |-> n, status |-> ZeroAndSign(With(status, "carry", v % 2 = 1), n)]

-----------------------------------------------------------------------------
(* Logic, on the set of the bits that are one. *)

Bits(v)     == {i \in 0..7 : (v \div 2 ^ i) % 2 = 1}
FromBits(B) == MapThenSumSet(LAMBDA i : 2 ^ i, B)

And(c, v) == LET n == FromBits(Bits(c.a) \cap Bits(v))
             IN  [a |-> n, status |-> ZeroAndSign(c.status, n)]
Ora(c, v) == LET n == FromBits(Bits(c.a) \cup Bits(v))
             IN  [a |-> n, status |-> ZeroAndSign(c.status, n)]
Eor(c, v) == LET n == FromBits((Bits(c.a) \cup Bits(v)) \ (Bits(c.a) \cap Bits(v)))
             IN  [a |-> n, status |-> ZeroAndSign(c.status, n)]

Bit(c, v) ==
  With(With(CalcZero(c.status, FromBits(Bits(c.a) \cap Bits(v))), "sign", 7 \in Bits(v)),
       "overflow", 6 \in Bits(v))

-----------------------------------------------------------------------------
(* Addresses.  mem is the memory as the CPU reads it, p where its operand is. *)

Next16(p) == (p + 1) % 65536

Word(mem, low, high) == mem[low] + 256 * mem[high]

\* The next byte of the same page: a pointer never leaves its page.
InPage(p) == 256 * (p \div 256) + ((p + 1) % 256)

Abso(mem, p)       == Word(mem, p, Next16(p))
Indexed(base, i)   == (base + i) % 65536
ZpIndexed(mem, p, i) == (mem[p] + i) % 256
Ind(mem, p)        == Word(mem, Abso(mem, p), InPage(Abso(mem, p)))
Indx(mem, p, x)    == Word(mem, ZpIndexed(mem, p, x), (ZpIndexed(mem, p, x) + 1) % 256)
IndyBase(mem, p)   == Word(mem, mem[p], InPage(mem[p]))
Crosses(from, to)  == from \div 256 # to \div 256

\* rel sign-extends its byte, and a branch adds it to the address after itself.
Rel(v)          == IF v >= 128 THEN v + 65280 ELSE v
Branched(pc, v) == (pc + Rel(v)) % 65536

\* The cycles a branch takes over its two.
BranchTicks(branch, status, pc, v) ==
  IF ~Taken(branch, status) THEN 0 ELSE IF Crosses(pc, Branched(pc, v)) THEN 2 ELSE 1

-----------------------------------------------------------------------------
(* What it should come to. *)

Tens(b)    == b \div 16
Units(b)   == b % 16
DigitPairs == {b \in Byte : Tens(b) < 10 /\ Units(b) < 10}

\* The number a byte stands for, and how many there are: two decimal digits in decimal mode.
Amount(status, b) == IF "decimal" \in status THEN 10 * Tens(b) + Units(b) ELSE b
Radix(status)     == IF "decimal" \in status THEN 100 ELSE 256
Operands(status)  == IF "decimal" \in status THEN DigitPairs ELSE Byte

Signed(b) == IF b >= 128 THEN b - 256 ELSE b

\* ADC adds, and its carry is what does not fit.
Adds(c, v) ==
  /\ Adc(c, v).a \in Operands(c.status)
  /\ Amount(c.status, c.a) + Amount(c.status, v) + CarryIn(c.status)
       = Amount(c.status, Adc(c, v).a) + Radix(c.status) * CarryIn(Adc(c, v).status)

\* SBC subtracts, and borrows by a carry that is clear.
Subtracts(c, v) ==
  /\ Sbc(c, v).a \in Operands(c.status)
  /\ Amount(c.status, c.a) - Amount(c.status, v) - (1 - CarryIn(c.status))
       = Amount(c.status, Sbc(c, v).a) - Radix(c.status) * (1 - CarryIn(Sbc(c, v).status))

\* In binary the overflow flag says that the signed result does not fit.
OverflowTells(c, v) ==
  /\ "overflow" \in AdcBinary(c, v).status
       <=> Signed(c.a) + Signed(v) + CarryIn(c.status) # Signed(AdcBinary(c, v).a)
  /\ "overflow" \in SbcBinary(c, v).status
       <=> Signed(c.a) - Signed(v) - (1 - CarryIn(c.status)) # Signed(SbcBinary(c, v).a)

\* A comparison leaves what the subtraction would, but for the overflow flag.
ComparesAsSbc(c, v) ==
  CarryIn(c.status) = 1 =>
    \A f \in StatusFlags \ {"overflow"} : f \in Compare(c.status, c.a, v) <=> f \in SbcBinary(c, v).status

\* ROR turns back what ROL turned, the carry too.
RotatesBack(status, v) ==
  LET turned == Rol(status, v)
      back   == Ror(turned.status, turned.value)
  IN  back.value = v /\ CarryIn(back.status) = CarryIn(status)

\* An indexed address lies on another page exactly if the low byte carries, at the top of
\* memory too, where it wraps.
PageCarries(base, i) == Crosses(base, Indexed(base, i)) <=> (base % 256) + i > 255

\* After a comparison BCS and BCC, BEQ and BNE ask for the order of the two bytes.
BranchesAsOrdered(status, register, v) ==
  LET compared == Compare(status, register, v)
  IN  /\ Taken("BCS", compared) <=> register >= v
      /\ Taken("BCC", compared) <=> register < v
      /\ Taken("BEQ", compared) <=> register = v
      /\ Taken("BNE", compared) <=> register # v

\* After a subtraction with the carry set BMI and BVS together ask for the signed order.
SignedOrder(c, v) ==
  LET status == SbcBinary(c, v).status
  IN  CarryIn(c.status) = 1 =>
        ((IF Taken("BVS", status) THEN Taken("BPL", status) ELSE Taken("BMI", status))
           <=> Signed(c.a) < Signed(v))

\* A branch reaches 128 back and 127 forth, around the ends of memory.
BranchReaches(pc, v) == Branched(pc, v) = (pc + Signed(v)) % 65536
=============================================================================
