----------------------------- MODULE Cpu_proofs -----------------------------
(***************************************************************************)
(* The 6510.  Module CpuAlu computes what it should for every accumulator, *)
(* operand and status: a byte is split once into its digits, and what      *)
(* remains is linear arithmetic on them.                                   *)
(*                                                                         *)
(* Module CpuStack keeps what was pushed, for every page, width of a byte  *)
(* and set of flags: the frames lie one below the other under the pointer  *)
(* (Laid) and are together no longer than the page, so no push reaches a   *)
(* frame below it.  From that follows that it implements CallStack.        *)
(***************************************************************************)
EXTENDS CpuStack, CpuAlu, SequenceTheorems, TLAPS

-----------------------------------------------------------------------------
(* What an instruction computes. *)

\* The flags a sum leaves.
LEMMA SumFlagsOK ==
  ASSUME NEW st \in SUBSET StatusFlags, NEW n \in Int, NEW m \in Int, NEW o \in Int
  PROVE  /\ "carry" \in SumFlags(st, n, m, o) <=> n > 255
         /\ "zero" \in SumFlags(st, n, m, o) <=> n % 256 = 0
         /\ "sign" \in SumFlags(st, n, m, o) <=> Negative(n)
         /\ "overflow" \in SumFlags(st, n, m, o)
              <=> Negative(n) # Negative(m) /\ Negative(n) # Negative(o)
         /\ \A f \in StatusFlags \ {"carry", "zero", "sign", "overflow"} :
              f \in SumFlags(st, n, m, o) <=> f \in st
BY DEF SumFlags, CalcCarry, CalcZero, CalcSign, CalcOverflow, With, StatusFlags

\* A carry is one or none.
LEMMA CarryOK == \A st : CarryIn(st) \in {0, 1} /\ (CarryIn(st) = 1 <=> "carry" \in st)
BY DEF CarryIn

\* A byte and its two digits.
LEMMA DigitsOK ==
  ASSUME NEW b \in Byte
  PROVE  Tens(b) \in 0..15 /\ Units(b) \in 0..15 /\ b = 16 * Tens(b) + Units(b)
BY DEF Byte, Tens, Units

\* Two digits make a byte.
LEMMA MadeOK ==
  ASSUME NEW t \in 0..15, NEW u \in 0..15
  PROVE  16 * t + u \in Byte /\ Tens(16 * t + u) = t /\ Units(16 * t + u) = u
BY DEF Byte, Tens, Units

LEMMA AdcBinaryAdds ==
  ASSUME NEW c \in Registers, NEW v \in Byte
  PROVE  /\ AdcBinary(c, v).a \in Byte
         /\ c.a + v + CarryIn(c.status) = AdcBinary(c, v).a + 256 * CarryIn(AdcBinary(c, v).status)
<1> DEFINE n == BinarySum(c, v)
<1>1. c.a \in 0..255 /\ v \in 0..255 /\ c.status \in SUBSET StatusFlags /\ CarryIn(c.status) \in {0, 1}
  BY CarryOK DEF Registers, Byte
<1>2. n = c.a + v + CarryIn(c.status) /\ n \in 0..511
  <2>1. n = c.a + v + CarryIn(c.status)
    BY DEF BinarySum
  <2> DEFINE k == CarryIn(c.status)
  <2> DEFINE x == c.a
  <2> HIDE DEF n
  <2>2. k \in {0, 1} /\ n = x + v + k /\ x \in 0..255
    BY <1>1, <2>1
  <2> HIDE DEF k, x
  <2>3. n \in 0..511
    BY <1>1, <2>2
  <2> QED
    BY <2>1, <2>3
<1>3. AdcBinary(c, v).a = n % 256 /\ AdcBinary(c, v).status = SumFlags(c.status, n, c.a, v)
  BY DEF AdcBinary
<1> HIDE DEF n
<1>4. CarryIn(AdcBinary(c, v).status) = IF n > 255 THEN 1 ELSE 0
  <2>1. n \in Int /\ c.a \in Int /\ v \in Int
    BY <1>1, <1>2
  <2>2. "carry" \in SumFlags(c.status, n, c.a, v) <=> n > 255
    BY <1>1, <2>1, SumFlagsOK
  <2> QED
    BY <1>3, <2>2 DEF CarryIn
<1>5. n % 256 = IF n > 255 THEN n - 256 ELSE n
  BY <1>2
<1> QED
  BY <1>2, <1>3, <1>4, <1>5 DEF Byte

LEMMA SbcBinarySubtracts ==
  ASSUME NEW c \in Registers, NEW v \in Byte
  PROVE  /\ SbcBinary(c, v).a \in Byte
         /\ c.a - v - (1 - CarryIn(c.status))
              = SbcBinary(c, v).a - 256 * (1 - CarryIn(SbcBinary(c, v).status))
<1>1. Inverted(v) \in Byte /\ Inverted(v) = 255 - v /\ v \in 0..255 /\ c.a \in 0..255
  BY DEF Inverted, Byte, Registers
<1>2. /\ SbcBinary(c, v).a \in Byte
      /\ c.a + Inverted(v) + CarryIn(c.status)
           = SbcBinary(c, v).a + 256 * CarryIn(SbcBinary(c, v).status)
  BY <1>1, AdcBinaryAdds DEF SbcBinary
<1> DEFINE k == CarryIn(c.status)
           m == CarryIn(SbcBinary(c, v).status)
           r == SbcBinary(c, v).a
           x == c.a
<1>3. k \in {0, 1} /\ m \in {0, 1} /\ r \in 0..255 /\ x \in 0..255 /\ x + (255 - v) + k = r + 256 * m
  BY <1>1, <1>2, CarryOK DEF Byte
<1> HIDE DEF k, m, r, x
<1>4. x - v - (1 - k) = r - 256 * (1 - m)
  BY <1>1, <1>3
<1> QED
  BY <1>2, <1>4 DEF k, m, r, x

\* The low digits' sum is their units and a carry of 16; the high digits' is the tens.
LEMMA AdcDecimalAdds ==
  ASSUME NEW c \in Registers, NEW v \in DigitPairs, c.a \in DigitPairs
  PROVE  /\ AdcDecimal(c, v).a \in DigitPairs
         /\ 10 * Tens(c.a) + Units(c.a) + 10 * Tens(v) + Units(v) + CarryIn(c.status)
              = 10 * Tens(AdcDecimal(c, v).a) + Units(AdcDecimal(c, v).a)
                  + 100 * CarryIn(AdcDecimal(c, v).status)
<1> DEFINE t == Tens(c.a) + Tens(v)
           u == Units(c.a) + Units(v) + CarryIn(c.status)
           x == IF u > 9 THEN 1 ELSE 0
           y == IF t + x > 9 THEN 1 ELSE 0
<1>1. /\ Tens(c.a) \in 0..9 /\ Units(c.a) \in 0..9 /\ Tens(v) \in 0..9 /\ Units(v) \in 0..9
      /\ CarryIn(c.status) \in {0, 1}
  BY DigitsOK, CarryOK DEF DigitPairs
<1>2. t \in 0..18 /\ u \in 0..19 /\ x \in 0..1 /\ y \in 0..1
  BY <1>1
<1>3. LowSum(c, v) = (u - 10 * x) + 16 * x
  <2>1. LowSum(c, v) = IF u > 9 THEN ((u + 6) % 16) + 16 ELSE u
    BY DEF LowSum, Units
  <2> HIDE DEF u
  <2>2. u > 9 => (u + 6) % 16 = u - 10
    BY <1>2
  <2> QED
    BY <1>2, <2>1, <2>2
<1>4. HighSum(c, v) = 16 * t + (u - 10 * x) + 16 * x
  <2>1. HighSum(c, v) = 16 * Tens(c.a) + 16 * Tens(v) + LowSum(c, v)
    BY DEF HighSum, Tens
  <2> HIDE DEF u, x
  <2> QED
    BY <1>1, <1>2, <1>3, <2>1
<1> DEFINE d == u - 10 * x
           e == t + x - 10 * y
<1>5. d \in 0..9 /\ e \in 0..9
  BY <1>1, <1>2
<1>6. Bcd(c, v) = 256 * y + 16 * e + d
  <2>1. HighSum(c, v) = 16 * (t + x) + d
    BY <1>2, <1>4
  <2>2. y = IF t + x > 9 THEN 1 ELSE 0
    OBVIOUS
  <2>3. e = t + x - 10 * y
    OBVIOUS
  <2> HIDE DEF t, x, y, u, d, e
  <2>4. HighSum(c, v) >= 160 <=> t + x > 9
    BY <1>2, <1>5, <2>1
  <2> QED
    BY <1>2, <1>5, <2>1, <2>2, <2>3, <2>4 DEF Bcd
<1>7. 10 * Tens(c.a) + Units(c.a) + 10 * Tens(v) + Units(v) + CarryIn(c.status) = 10 * t + u
  BY <1>1
<1>8. 10 * t + u = 10 * e + d + 100 * y
  <2> HIDE DEF t, u, x, y
  <2> QED
    BY <1>2
<1> HIDE DEF t, u, x, y, d, e
<1>9. AdcDecimal(c, v).a = 16 * e + d
  <2>1. AdcDecimal(c, v).a = Bcd(c, v) % 256
    BY DEF AdcDecimal
  <2> DEFINE z == 16 * e + d
  <2>2. z \in 0..255 /\ Bcd(c, v) = 256 * y + z
    BY <1>2, <1>5, <1>6
  <2> HIDE DEF z
  <2>3. (256 * y + z) % 256 = z
    <3>1. y = 0 \/ y = 1
      BY <1>2
    <3>2. CASE y = 0
      BY <2>2, <3>2
    <3>3. CASE y = 1
      BY <2>2, <3>3
    <3> QED
      BY <3>1, <3>2, <3>3
  <2> QED
    BY <2>1, <2>2, <2>3 DEF z
<1>10. CarryIn(AdcDecimal(c, v).status) = y
  <2>1. "carry" \in AdcDecimal(c, v).status <=> Bcd(c, v) > 255
    BY DEF AdcDecimal, With
  <2>2. Bcd(c, v) > 255 <=> y = 1
    BY <1>2, <1>5, <1>6
  <2> QED
    BY <1>2, <2>1, <2>2 DEF CarryIn
<1>11. 16 * e + d \in Byte /\ Tens(16 * e + d) = e /\ Units(16 * e + d) = d
  BY <1>5, MadeOK
<1> QED
  BY <1>5, <1>7, <1>8, <1>9, <1>10, <1>11 DEF DigitPairs

\* What Digit makes of a difference of digits.
LEMMA DigitOK ==
  ASSUME NEW d \in -10..9
  PROVE  Digit(d) = IF d < 0 THEN d + 10 ELSE d
BY DEF Digit

LEMMA SbcDecimalSubtracts ==
  ASSUME NEW c \in Registers, NEW v \in DigitPairs, c.a \in DigitPairs
  PROVE  /\ SbcDecimal(c, v).a \in DigitPairs
         /\ (10 * Tens(c.a) + Units(c.a)) - (10 * Tens(v) + Units(v)) - (1 - CarryIn(c.status))
              = (10 * Tens(SbcDecimal(c, v).a) + Units(SbcDecimal(c, v).a))
                  - 100 * (1 - CarryIn(SbcDecimal(c, v).status))
<1> DEFINE l == LowDifference(c, v)
           h == HighDifference(c, v)
           k == CarryIn(c.status)
           t == Tens(c.a)
           u == Units(c.a)
           p == Tens(v)
           q == Units(v)
<1>1. /\ t \in 0..9 /\ u \in 0..9 /\ p \in 0..9 /\ q \in 0..9 /\ k \in {0, 1}
      /\ c.a = 16 * t + u /\ v = 16 * p + q /\ v \in Byte
  BY DigitsOK, CarryOK DEF DigitPairs
<1>2. l = u - q - (1 - k)
  BY DEF LowDifference, Units
<1>3. h = t - p - (IF l < 0 THEN 1 ELSE 0)
  BY DEF HighDifference, Tens
<1>4. SbcDecimal(c, v).a = 16 * Digit(h) + Digit(l)
      /\ SbcDecimal(c, v).status = SbcBinary(c, v).status
  BY DEF SbcDecimal
<1> HIDE DEF l, h, k, t, u, p, q
<1>5. l \in -10..9 /\ h \in -10..9
  <2>1. l \in -10..9
    BY <1>1, <1>2
  <2>2. CASE l < 0
    BY <1>1, <1>3, <2>1, <2>2
  <2>3. CASE ~(l < 0)
    BY <1>1, <1>3, <2>1, <2>3
  <2> QED
    BY <2>1, <2>2, <2>3
<1>6. Digit(l) = (IF l < 0 THEN l + 10 ELSE l) /\ Digit(h) = (IF h < 0 THEN h + 10 ELSE h)
  BY <1>5, DigitOK
<1>7. Digit(l) \in 0..9 /\ Digit(h) \in 0..9
  BY <1>5, <1>6
<1>8. CarryIn(SbcBinary(c, v).status) = IF h < 0 THEN 0 ELSE 1
  <2> DEFINE r == SbcBinary(c, v).a
             m == CarryIn(SbcBinary(c, v).status)
  <2>1. c.a - v - (1 - k) = r - 256 * (1 - m) /\ r \in 0..255 /\ m \in {0, 1}
    BY <1>1, SbcBinarySubtracts, CarryOK DEF k, Byte
  <2> HIDE DEF r, m
  <2>2. c.a - v - (1 - k) = 16 * (t - p) + l
    BY <1>1, <1>2
  <2>3. 16 * (t - p) + l < 0 <=> h < 0
    BY <1>1, <1>3, <1>5
  <2>4. m = IF h < 0 THEN 0 ELSE 1
    <3> DEFINE z == 16 * (t - p) + l
    <3>1. z \in Int
      BY <1>1, <1>5
    <3> HIDE DEF z
    <3>2. z = r - 256 * (1 - m)
      BY <2>1, <2>2 DEF z
    <3>3. z < 0 <=> m = 0
      BY <2>1, <3>1, <3>2
    <3> QED
      BY <2>1, <2>3, <3>3 DEF z
  <2> QED
    BY <2>4 DEF m
<1>9. /\ 16 * Digit(h) + Digit(l) \in DigitPairs
      /\ Tens(16 * Digit(h) + Digit(l)) = Digit(h) /\ Units(16 * Digit(h) + Digit(l)) = Digit(l)
  BY <1>7, MadeOK DEF DigitPairs
<1>10. (10 * t + u) - (10 * p + q) - (1 - k)
         = (10 * Digit(h) + Digit(l)) - 100 * (1 - (IF h < 0 THEN 0 ELSE 1))
  <2> DEFINE x == Digit(l)
             y == Digit(h)
  <2>1. x = (IF l < 0 THEN l + 10 ELSE l) /\ y = (IF h < 0 THEN h + 10 ELSE h)
    BY <1>6
  <2> HIDE DEF x, y
  <2>2. (10 * t + u) - (10 * p + q) - (1 - k) = 10 * (t - p) + l
    BY <1>1, <1>2
  <2>3. 10 * (t - p) + l = 10 * h + (IF l < 0 THEN l + 10 ELSE l)
    <3>1. CASE l < 0
      BY <1>1, <1>3, <1>5, <3>1
    <3>2. CASE ~(l < 0)
      BY <1>1, <1>3, <1>5, <3>2
    <3> QED
      BY <3>1, <3>2
  <2>4. 10 * h = 10 * y - 100 * (1 - (IF h < 0 THEN 0 ELSE 1))
    BY <1>5, <2>1
  <2>5. x \in Int /\ y \in Int
    BY <1>5, <2>1
  <2>6. 10 * (t - p) + l = 10 * h + x
    BY <2>1, <2>3
  <2>7. 10 * (t - p) + l = (10 * y + x) - 100 * (1 - (IF h < 0 THEN 0 ELSE 1))
    BY <1>5, <2>4, <2>5, <2>6
  <2> QED
    BY <2>2, <2>7 DEF x, y
<1> QED
  BY <1>4, <1>8, <1>9, <1>10 DEF k, t, u, p, q

-----------------------------------------------------------------------------
(* What the instructions compute. *)

\* ADC adds its operand and the carry, and its carry is what does not fit: modulo 256, or
\* of two digits in decimal mode (the operands being digits), so that a longer number is
\* added byte by byte.
THEOREM AdcAdds ==
  ASSUME NEW c \in Registers, c.a \in Operands(c.status), NEW v \in Operands(c.status)
  PROVE  Adds(c, v)
<1>1. CASE "decimal" \in c.status
  <2>1. c.a \in DigitPairs /\ v \in DigitPairs
    BY <1>1 DEF Operands
  <2>2. /\ AdcDecimal(c, v).a \in DigitPairs
        /\ 10 * Tens(c.a) + Units(c.a) + 10 * Tens(v) + Units(v) + CarryIn(c.status)
             = 10 * Tens(AdcDecimal(c, v).a) + Units(AdcDecimal(c, v).a)
                 + 100 * CarryIn(AdcDecimal(c, v).status)
    BY <2>1, AdcDecimalAdds
  <2>3. /\ Tens(c.a) \in Int /\ Units(c.a) \in Int /\ Tens(v) \in Int /\ Units(v) \in Int
        /\ CarryIn(c.status) \in Int
    BY <2>1, DigitsOK, CarryOK DEF DigitPairs
  <2>4. Amount(c.status, c.a) + Amount(c.status, v) + CarryIn(c.status)
          = 10 * Tens(c.a) + Units(c.a) + 10 * Tens(v) + Units(v) + CarryIn(c.status)
    BY <1>1, <2>3 DEF Amount
  <2> QED
    BY <1>1, <2>2, <2>4 DEF Adds, Adc, Amount, Radix, Operands
<1>2. CASE ~("decimal" \in c.status)
  <2>1. v \in Byte
    BY <1>2 DEF Operands
  <2> QED
    BY <1>2, <2>1, AdcBinaryAdds DEF Adds, Adc, Amount, Radix, Operands
<1> QED
  BY <1>1, <1>2

\* SBC subtracts its operand and the borrow, in binary and in decimal.
THEOREM SbcSubtracts ==
  ASSUME NEW c \in Registers, c.a \in Operands(c.status), NEW v \in Operands(c.status)
  PROVE  Subtracts(c, v)
<1>1. CASE "decimal" \in c.status
  <2>1. c.a \in DigitPairs /\ v \in DigitPairs
    BY <1>1 DEF Operands
  <2>2. /\ SbcDecimal(c, v).a \in DigitPairs
        /\ (10 * Tens(c.a) + Units(c.a)) - (10 * Tens(v) + Units(v)) - (1 - CarryIn(c.status))
             = (10 * Tens(SbcDecimal(c, v).a) + Units(SbcDecimal(c, v).a))
                 - 100 * (1 - CarryIn(SbcDecimal(c, v).status))
    BY <2>1, SbcDecimalSubtracts
  <2>3. /\ Amount(c.status, c.a) = 10 * Tens(c.a) + Units(c.a)
        /\ Amount(c.status, v) = 10 * Tens(v) + Units(v) /\ Radix(c.status) = 100
        /\ Amount(c.status, SbcDecimal(c, v).a)
             = 10 * Tens(SbcDecimal(c, v).a) + Units(SbcDecimal(c, v).a)
        /\ Operands(c.status) = DigitPairs /\ Sbc(c, v) = SbcDecimal(c, v)
    BY <1>1 DEF Amount, Radix, Operands, Sbc
  <2> DEFINE x == Amount(c.status, c.a)
             y == Amount(c.status, v)
             z == Amount(c.status, SbcDecimal(c, v).a)
             k == 1 - CarryIn(c.status)
             m == 1 - CarryIn(SbcDecimal(c, v).status)
             f == 10 * Tens(c.a) + Units(c.a)
             g == 10 * Tens(v) + Units(v)
             h == 10 * Tens(SbcDecimal(c, v).a) + Units(SbcDecimal(c, v).a)
  <2>4. x - y - k = z - 100 * m
    <3>1. f - g - k = h - 100 * m /\ x = f /\ y = g /\ z = h
      BY <2>2, <2>3
    <3> HIDE DEF x, y, z, k, m, f, g, h
    <3> QED
      BY <3>1
  <2>5. Subtracts(c, v) <=> SbcDecimal(c, v).a \in DigitPairs /\ x - y - k = z - Radix(c.status) * m
    BY <2>3, Zenon DEF Subtracts
  <2> QED
    BY <2>2, <2>3, <2>4, <2>5, Zenon
<1>2. CASE ~("decimal" \in c.status)
  <2>1. v \in Byte
    BY <1>2 DEF Operands
  <2> QED
    BY <1>2, <2>1, SbcBinarySubtracts DEF Subtracts, Sbc, Amount, Radix, Operands
<1> QED
  BY <1>1, <1>2

\* A byte is negative from 128 on.
LEMMA NegativeOK ==
  ASSUME NEW b \in Byte
  PROVE  Negative(b) = (b >= 128) /\ Signed(b) \in -128..127
         /\ Signed(b) = b - (IF b >= 128 THEN 256 ELSE 0)
BY DEF Byte, Negative, Signed

\* A byte's sign is that of any number with it as its low byte.
LEMMA NegativeLow ==
  ASSUME NEW n \in 0..511
  PROVE  Negative(n % 256) = Negative(n)
<1>1. n % 256 \in 0..255
  OBVIOUS
<1> DEFINE r == n % 256
<1> HIDE DEF r
<1>2. r \in 0..255 /\ r = n % 256
  BY <1>1 DEF r
<1>3. r % 256 = r
  BY <1>2
<1> QED
  BY <1>2, <1>3 DEF Negative, r

LEMMA AdcOverflows ==
  ASSUME NEW c \in Registers, NEW v \in Byte
  PROVE  "overflow" \in AdcBinary(c, v).status
           <=> Signed(c.a) + Signed(v) + CarryIn(c.status) # Signed(AdcBinary(c, v).a)
<1> DEFINE n == BinarySum(c, v)
           r == AdcBinary(c, v).a
           k == CarryIn(c.status)
           m == CarryIn(AdcBinary(c, v).status)
           x == c.a
<1>1. x \in Byte /\ c.status \in SUBSET StatusFlags /\ k \in {0, 1} /\ m \in {0, 1}
  BY CarryOK DEF Registers
<1>2. r \in Byte /\ x + v + k = r + 256 * m
  BY AdcBinaryAdds
<1>3. n = x + v + k /\ r = n % 256 /\ AdcBinary(c, v).status = SumFlags(c.status, n, x, v)
  BY DEF BinarySum, AdcBinary
<1> HIDE DEF n, r, k, m, x
<1>4. n \in 0..511 /\ x \in Int /\ v \in Int
  BY <1>1, <1>3 DEF Byte
<1>5. "overflow" \in AdcBinary(c, v).status
        <=> Negative(n) # Negative(x) /\ Negative(n) # Negative(v)
  BY <1>1, <1>3, <1>4, SumFlagsOK
<1>6. Negative(r) = Negative(n)
  BY <1>3, <1>4, NegativeLow
<1>7. (Negative(r) # Negative(x) /\ Negative(r) # Negative(v))
        <=> Signed(x) + Signed(v) + k # Signed(r)
  <2>1. x \in 0..255 /\ v \in 0..255 /\ r \in 0..255
    BY <1>1, <1>2 DEF Byte
  <2>2. Negative(r) = (r >= 128) /\ Negative(x) = (x >= 128) /\ Negative(v) = (v >= 128)
    BY <1>1, <1>2, NegativeOK
  <2>3. /\ Signed(x) = x - (IF x >= 128 THEN 256 ELSE 0)
        /\ Signed(v) = v - (IF v >= 128 THEN 256 ELSE 0)
        /\ Signed(r) = r - (IF r >= 128 THEN 256 ELSE 0)
    BY <1>1, <1>2, NegativeOK
  <2>4. Signed(x) + Signed(v) + k # Signed(r)
          <=> (r >= 128 /\ x < 128 /\ v < 128) \/ (r < 128 /\ x >= 128 /\ v >= 128)
    BY <1>1, <1>2, <2>1, <2>3
  <2>5. ((r >= 128) # (x >= 128) /\ (r >= 128) # (v >= 128))
          <=> (r >= 128 /\ x < 128 /\ v < 128) \/ (r < 128 /\ x >= 128 /\ v >= 128)
    <3>1. (r < 128 <=> ~(r >= 128)) /\ (x < 128 <=> ~(x >= 128)) /\ (v < 128 <=> ~(v >= 128))
      BY <2>1
    <3> QED
      BY <3>1
  <2> QED
    BY <2>2, <2>4, <2>5
<1> QED
  BY <1>5, <1>6, <1>7 DEF r, k, x

\* The overflow flag of ADC and SBC says that the signed result does not fit.
THEOREM OverflowTold ==
  ASSUME NEW c \in Registers, NEW v \in Byte
  PROVE  OverflowTells(c, v)
<1> DEFINE i == Inverted(v)
           r == SbcBinary(c, v).a
           k == CarryIn(c.status)
           x == Signed(c.a)
<1>1. i \in Byte /\ Signed(i) = 0 - 1 - Signed(v)
  <2>1. i = 255 - v /\ v \in 0..255
    BY DEF Inverted, Byte
  <2> HIDE DEF i
  <2> QED
    BY <2>1 DEF Byte, Signed
<1>2. "overflow" \in SbcBinary(c, v).status <=> x + Signed(i) + k # Signed(r)
  BY <1>1, AdcOverflows DEF SbcBinary
<1>3. x \in Int /\ Signed(v) \in Int /\ k \in {0, 1}
  BY CarryOK, NegativeOK DEF Registers
<1>4. x + Signed(i) + k = x - Signed(v) - (1 - k)
  <2> DEFINE s == Signed(v)
             z == Signed(i)
  <2>1. s \in Int /\ z = 0 - 1 - s
    BY <1>1, <1>3
  <2> HIDE DEF s, z, x, k
  <2>2. x + z + k = x - s - (1 - k)
    BY <1>3, <2>1
  <2> QED
    BY <2>2 DEF s, z
<1> QED
  BY <1>2, <1>4, AdcOverflows DEF OverflowTells

\* A comparison sets carry, zero and sign as the subtraction with carry set would.
THEOREM CompareAsSbc ==
  ASSUME NEW c \in Registers, NEW v \in Byte
  PROVE  ComparesAsSbc(c, v)
<1> SUFFICES ASSUME CarryIn(c.status) = 1
             PROVE  \A f \in StatusFlags \ {"overflow"} :
                      f \in Compare(c.status, c.a, v) <=> f \in SbcBinary(c, v).status
  BY DEF ComparesAsSbc
<1> DEFINE x == c.a
           n == BinarySum(c, Inverted(v))
<1>1. x \in 0..255 /\ v \in 0..255 /\ c.status \in SUBSET StatusFlags
  BY DEF Registers, Byte
<1>2. n = x - v + 256 /\ SbcBinary(c, v).status = SumFlags(c.status, n, x, 255 - v)
  <2>1. n = x + (255 - v) + 1
    BY DEF BinarySum, Inverted
  <2> HIDE DEF x, n
  <2>2. n = x - v + 256
    BY <1>1, <2>1
  <2> QED
    BY <2>2 DEF SbcBinary, AdcBinary, Inverted, x, n
<1> HIDE DEF n, x
<1>3. n \in 1..511 /\ (n > 255 <=> x >= v) /\ 255 - v \in Int /\ n \in Int /\ x \in Int
  BY <1>1, <1>2
<1> DEFINE d == x - v
<1>4. d \in -255..255 /\ n = d + 256
  BY <1>1, <1>2
<1>5. d = 0 <=> x = v
  BY <1>1
<1> HIDE DEF d
<1>6. n % 256 = d % 256 /\ (n % 256 = 0 <=> d = 0)
  <2>1. CASE d < 0
    BY <1>4, <2>1
  <2>2. CASE d >= 0
    BY <1>4, <2>2
  <2> QED
    BY <1>4, <2>1, <2>2
<1>7. Negative(n) <=> Negative(d)
  BY <1>6 DEF Negative
<1>8. /\ "carry" \in SumFlags(c.status, n, x, 255 - v) <=> n > 255
      /\ "zero" \in SumFlags(c.status, n, x, 255 - v) <=> n % 256 = 0
      /\ "sign" \in SumFlags(c.status, n, x, 255 - v) <=> Negative(n)
      /\ \A f \in StatusFlags \ {"carry", "zero", "sign", "overflow"} :
           f \in SumFlags(c.status, n, x, 255 - v) <=> f \in c.status
  BY <1>1, <1>3, SumFlagsOK
<1>9. /\ "carry" \in Compare(c.status, x, v) <=> x >= v
      /\ "zero" \in Compare(c.status, x, v) <=> x = v
      /\ "sign" \in Compare(c.status, x, v) <=> Negative(d)
      /\ \A f \in StatusFlags \ {"carry", "zero", "sign", "overflow"} :
           f \in Compare(c.status, x, v) <=> f \in c.status
  BY DEF Compare, CalcSign, With, d
<1> QED
  BY <1>2, <1>3, <1>5, <1>6, <1>7, <1>8, <1>9 DEF x

\* Which flag each branch waits for.
LEMMA TakenOK ==
  ASSUME NEW st
  PROVE  /\ Taken("BCS", st) <=> "carry" \in st
         /\ Taken("BCC", st) <=> "carry" \notin st
         /\ Taken("BEQ", st) <=> "zero" \in st
         /\ Taken("BNE", st) <=> "zero" \notin st
         /\ Taken("BMI", st) <=> "sign" \in st
         /\ Taken("BPL", st) <=> "sign" \notin st
         /\ Taken("BVS", st) <=> "overflow" \in st
<1>1. /\ Tests["BCS"] = <<"carry", TRUE>> /\ Tests["BCC"] = <<"carry", FALSE>>
      /\ Tests["BEQ"] = <<"zero", TRUE>> /\ Tests["BNE"] = <<"zero", FALSE>>
      /\ Tests["BMI"] = <<"sign", TRUE>> /\ Tests["BPL"] = <<"sign", FALSE>>
      /\ Tests["BVS"] = <<"overflow", TRUE>>
  BY DEF Tests
<1> HIDE DEF Tests
<1>2. ASSUME NEW branch, NEW f, Tests[branch] = <<f, TRUE>>
      PROVE  Taken(branch, st) <=> f \in st
  BY <1>2 DEF Taken
<1>3. ASSUME NEW branch, NEW f, Tests[branch] = <<f, FALSE>>
      PROVE  Taken(branch, st) <=> f \notin st
  BY <1>3 DEF Taken
<1> QED
  BY <1>1, <1>2, <1>3

\* After a comparison the unsigned branches follow the order of the two bytes.
THEOREM BranchAsOrdered ==
  ASSUME NEW st \in SUBSET StatusFlags, NEW x \in Byte, NEW v \in Byte
  PROVE  BranchesAsOrdered(st, x, v)
<1> DEFINE compared == Compare(st, x, v)
<1>1. /\ "carry" \in compared <=> x >= v
      /\ "zero" \in compared <=> x = v
  BY DEF Compare, CalcSign, With
<1>2. x < v <=> ~(x >= v)
  BY DEF Byte
<1> HIDE DEF compared
<1>3. /\ Taken("BCS", compared) <=> "carry" \in compared
      /\ Taken("BCC", compared) <=> "carry" \notin compared
      /\ Taken("BEQ", compared) <=> "zero" \in compared
      /\ Taken("BNE", compared) <=> "zero" \notin compared
  BY TakenOK
<1> QED
  BY <1>1, <1>2, <1>3 DEF BranchesAsOrdered, compared

\* After a subtraction the sign and overflow flags together give the signed order.
THEOREM SignedOrdered ==
  ASSUME NEW c \in Registers, NEW v \in Byte
  PROVE  SignedOrder(c, v)
<1> DEFINE r == SbcBinary(c, v).a
           st == SbcBinary(c, v).status
           k == CarryIn(c.status)
           x == Signed(c.a)
           y == Signed(v)
           z == Signed(r)
           m == CarryIn(st)
           n == BinarySum(c, Inverted(v))
<1> SUFFICES ASSUME k = 1
             PROVE  (IF Taken("BVS", st) THEN Taken("BPL", st) ELSE Taken("BMI", st)) <=> x < y
  BY DEF SignedOrder
<1>1. /\ r \in Byte /\ c.a \in Byte /\ m \in {0, 1}
      /\ c.a - v - (1 - k) = r - 256 * (1 - m)
  BY SbcBinarySubtracts, CarryOK DEF Registers
<1>2. "overflow" \in st <=> x - y - (1 - k) # z
  BY OverflowTold DEF OverflowTells
<1>3. /\ x \in -128..127 /\ x = c.a - (IF c.a >= 128 THEN 256 ELSE 0)
      /\ y \in -128..127 /\ y = v - (IF v >= 128 THEN 256 ELSE 0)
      /\ z \in -128..127 /\ z = r - (IF r >= 128 THEN 256 ELSE 0)
  BY <1>1, NegativeOK
<1>4. "sign" \in st <=> z < 0
  <2>1. n \in 0..511 /\ r = n % 256
    <3>1. n = c.a + (255 - v) + k /\ c.a \in 0..255 /\ v \in 0..255 /\ r = n % 256
      BY <1>1 DEF BinarySum, Inverted, SbcBinary, AdcBinary, Byte
    <3> DEFINE p == c.a
    <3> HIDE DEF n, k, r, p
    <3>2. n = p + (255 - v) + 1 /\ p \in 0..255
      BY <3>1 DEF p
    <3>3. n \in 0..511
      BY <3>1, <3>2
    <3> QED
      BY <3>1, <3>3
  <2>2. st = SumFlags(c.status, n, c.a, Inverted(v)) /\ c.status \in SUBSET StatusFlags
        /\ c.a \in Int /\ Inverted(v) \in Int
    BY <1>1 DEF SbcBinary, AdcBinary, Registers, Inverted, Byte
  <2> HIDE DEF n, r, st, z
  <2>3. "sign" \in st <=> Negative(n)
    BY <2>1, <2>2, SumFlagsOK
  <2>4. Negative(r) = Negative(n)
    BY <2>1, NegativeLow
  <2>5. Negative(r) = (r >= 128) /\ (r >= 128 <=> z < 0)
    BY <1>1, <1>3, NegativeOK DEF Byte
  <2> QED
    BY <2>3, <2>4, <2>5
<1>5. /\ Taken("BMI", st) <=> "sign" \in st
      /\ Taken("BPL", st) <=> "sign" \notin st
      /\ Taken("BVS", st) <=> "overflow" \in st
  BY TakenOK
<1> HIDE DEF r, st, k, x, y, z, m
<1>6. (IF x - y # z THEN ~(z < 0) ELSE z < 0) <=> x < y
  <2> DEFINE p == c.a
             d == x - y
  <2>1. /\ p \in 0..255 /\ v \in 0..255 /\ r \in 0..255 /\ m \in {0, 1}
        /\ p - v = r - 256 * (1 - m)
        /\ x = p - (IF p >= 128 THEN 256 ELSE 0)
    <3>1. p \in 0..255 /\ v \in 0..255 /\ r \in 0..255 /\ m \in {0, 1}
      BY <1>1 DEF Byte
    <3>2. p - v - (1 - k) = r - 256 * (1 - m) /\ k = 1
      BY <1>1
    <3>3. x = p - (IF p >= 128 THEN 256 ELSE 0)
      BY <1>3
    <3> HIDE DEF p
    <3> QED
      BY <3>1, <3>2, <3>3
  <2> HIDE DEF p
  <2>2. d = z \/ d = z + 256 \/ d = z - 256
    BY <1>3, <2>1
  <2>3. d \in -255..255 /\ (x < y <=> d < 0) /\ z \in -128..127
    <3>1. x \in -128..127 /\ y \in -128..127 /\ z \in -128..127
      BY <1>3
    <3> QED
      BY <3>1
  <2> HIDE DEF d
  <2>4. (IF d # z THEN ~(z < 0) ELSE z < 0) <=> x < y
    <3>1. CASE d = z
      BY <2>3, <3>1
    <3>2. CASE d = z + 256
      BY <2>3, <3>2
    <3>3. CASE d = z - 256
      <4>1. z >= 0 /\ d < 0 /\ d # z
        BY <2>3, <3>3
      <4> QED
        BY <2>3, <4>1
    <3> QED
      BY <2>2, <3>1, <3>2, <3>3
  <2> QED
    BY <2>4 DEF d
<1>7. x - y - (1 - k) = x - y
  BY <1>3
<1> QED
  BY <1>2, <1>4, <1>5, <1>6, <1>7

\* ROR takes back what ROL did, the carry through both ends.
THEOREM RotateBack ==
  ASSUME NEW st \in SUBSET StatusFlags, NEW v \in Byte
  PROVE  RotatesBack(st, v)
<1> DEFINE k == CarryIn(st)
           n == 2 * v + k
           w == n % 256
           turned == Rol(st, v)
           back == Ror(turned.status, turned.value)
           m == CarryIn(turned.status)
<1>1. k \in {0, 1} /\ v \in 0..255
  BY CarryOK DEF Byte
<1>2. turned.value = w /\ m = IF n > 255 THEN 1 ELSE 0
  BY DEF Rol, CarryIn, ZeroAndSign, CalcSign, CalcZero, CalcCarry, With
<1>3. back.value = w \div 2 + 128 * m /\ CarryIn(back.status) = IF w % 2 = 1 THEN 1 ELSE 0
  BY <1>2 DEF Ror, CarryIn, ZeroAndSign, CalcSign, CalcZero, With
<1>4. w \div 2 + 128 * m = v /\ (IF w % 2 = 1 THEN 1 ELSE 0) = k
  <2>1. n = 2 * v + k
    OBVIOUS
  <2>2. w = n % 256
    OBVIOUS
  <2> HIDE DEF k, n, w, m, turned, back
  <2>3. w = n - 256 * m /\ m \in {0, 1}
    BY <1>1, <1>2, <2>1, <2>2
  <2> DEFINE z == v - 128 * m
  <2>4. w = 2 * z + k /\ z \in Int /\ v = z + 128 * m
    BY <1>1, <2>1, <2>3
  <2> HIDE DEF z
  <2>5. w \div 2 = z /\ w % 2 = k
    BY <1>1, <2>4
  <2> QED
    BY <1>1, <2>4, <2>5
<1> QED
  BY <1>3, <1>4 DEF RotatesBack

-----------------------------------------------------------------------------
(* Addresses. *)

\* The page-crossing penalty is due exactly if the index carries out of the low byte.
THEOREM PageCarry ==
  ASSUME NEW base \in Address16, NEW i \in Byte
  PROVE  PageCarries(base, i)
<1> DEFINE h == base \div 256
           l == base % 256
<1>1. h \in 0..255 /\ l \in 0..255 /\ base = 256 * h + l /\ i \in 0..255
  BY DEF Address16, Byte
<1>2. Indexed(base, i) = (base + i) % 65536
  BY DEF Indexed
<1> HIDE DEF h, l
<1>3. CASE l + i > 255
  <2> DEFINE r == l + i - 256
  <2>1. r \in 0..255 /\ base + i = 256 * (h + 1) + r
    BY <1>1, <1>3
  <2> HIDE DEF r
  <2>2. CASE h = 255
    <3>1. Indexed(base, i) = r
      BY <1>2, <2>1, <2>2
    <3>2. r \div 256 = 0
      BY <2>1
    <3> QED
      BY <1>3, <2>2, <3>1, <3>2 DEF PageCarries, Crosses, h, l
  <2>3. CASE h # 255
    <3>1. Indexed(base, i) = 256 * (h + 1) + r
      BY <1>1, <1>2, <2>1, <2>3
    <3>2. (256 * (h + 1) + r) \div 256 = h + 1
      BY <1>1, <2>1
    <3>3. h # h + 1
      BY <1>1
    <3> QED
      BY <1>3, <3>1, <3>2, <3>3 DEF PageCarries, Crosses, h, l
  <2> QED
    BY <2>2, <2>3
<1>4. CASE ~(l + i > 255)
  <2>1. Indexed(base, i) = 256 * h + (l + i) /\ l + i \in 0..255
    BY <1>1, <1>2, <1>4
  <2> DEFINE r == l + i
  <2> HIDE DEF r
  <2>2. Indexed(base, i) = 256 * h + r /\ r \in 0..255
    BY <2>1 DEF r
  <2>3. (256 * h + r) \div 256 = h
    BY <1>1, <2>2
  <2> QED
    BY <1>4, <2>2, <2>3 DEF PageCarries, Crosses, h, l
<1> QED
  BY <1>3, <1>4

\* A branch goes by its signed operand from the instruction after it.
THEOREM BranchReach ==
  ASSUME NEW base \in Address16, NEW v \in Byte
  PROVE  BranchReaches(base, v)
<1>1. base \in 0..65535 /\ v \in 0..255
  BY DEF Address16, Byte
<1>2. CASE v >= 128
  <2>1. Branched(base, v) = (base + (v + 65280)) % 65536 /\ Signed(v) = v - 256
    BY <1>2 DEF Branched, Rel, Signed
  <2> DEFINE z == base + v - 256
  <2>2. z \in -128..65534 /\ base + (v + 65280) = z + 65536 /\ base + (v - 256) = z
    BY <1>1, <1>2
  <2> HIDE DEF z
  <2>3. (z + 65536) % 65536 = z % 65536
    BY <2>2
  <2> QED
    BY <2>1, <2>2, <2>3 DEF BranchReaches
<1>3. CASE ~(v >= 128)
  BY <1>3 DEF BranchReaches, Branched, Rel, Signed
<1> QED
  BY <1>2, <1>3

-----------------------------------------------------------------------------
(* The stack: remainders, which wrap the pointer and split words into bytes. *)

\* A quotient and a remainder are what they are.
LEMMA Divided ==
  ASSUME NEW n \in Int, NEW p \in Nat \ {0}
  PROVE  n \div p \in Int /\ n % p \in 0..(p - 1) /\ n = (n \div p) * p + (n % p)
<1>1. n \div p \in Int
  OBVIOUS
<1>2. n % p \in 0..(p - 1)
  OBVIOUS
<1>3. n = (n \div p) * p + (n % p)
  OBVIOUS
<1> QED BY <1>1, <1>2, <1>3

\* There is one remainder.
LEMMA OneRemainder ==
  ASSUME NEW p \in Nat \ {0}, NEW q \in Int, NEW r \in 0..(p - 1)
  PROVE  (q * p + r) % p = r /\ (q * p + r) \div p = q
<1> DEFINE n == q * p + r
           k == n \div p
           s == n % p
<1>1. n \in Int /\ q * p \in Int
  OBVIOUS
<1>2. k \in Int /\ s \in 0..(p - 1) /\ n = k * p + s
  BY <1>1, Divided
<1>3. k = q
  <2>1. ASSUME k >= q + 1 PROVE FALSE
    <3>1. k * p >= (q + 1) * p /\ (q + 1) * p = q * p + p
      BY <1>2, <2>1
    <3> QED BY <1>1, <1>2, <3>1
  <2>2. ASSUME k <= q - 1 PROVE FALSE
    <3>1. k * p <= (q - 1) * p /\ (q - 1) * p = q * p - p
      BY <1>2, <2>2
    <3> QED BY <1>1, <1>2, <3>1
  <2> QED BY <1>2, <2>1, <2>2
<1> QED BY <1>1, <1>2, <1>3

\* A remainder may be taken before or after adding.
LEMMA Remainders ==
  ASSUME NEW p \in Nat \ {0}, NEW m \in Int, NEW n \in Int
  PROVE  ((m % p) + n) % p = (m + n) % p
<1> DEFINE q == m \div p
           s == m % p
           k == (s + n) \div p
           r == (s + n) % p
<1>1. q \in Int /\ s \in 0..(p - 1) /\ m = q * p + s
  BY Divided
<1>2. k \in Int /\ r \in 0..(p - 1) /\ s + n = k * p + r
  BY <1>1, Divided
<1> HIDE DEF q, s, k, r
<1>3. m + n = (q + k) * p + r
  <2>1. (q + k) * p = q * p + k * p
    BY <1>1, <1>2
  <2> QED BY <1>1, <1>2, <2>1
<1>4. q + k \in Int
  BY <1>1, <1>2
<1>5. (m + n) % p = r
  BY <1>2, <1>3, <1>4, OneRemainder
<1> QED BY <1>5 DEF r, s

\* Numbers less than p apart have different remainders.
LEMMA Apart ==
  ASSUME NEW p \in Nat \ {0}, NEW m \in Int, NEW n \in Int, m < n, n < m + p
  PROVE  m % p # n % p
<1> DEFINE i == m \div p
           j == n \div p
           r == m % p
<1>1. i \in Int /\ r \in 0..(p - 1) /\ m = i * p + r
  BY Divided
<1>2. j \in Int /\ n = j * p + (n % p)
  BY Divided
<1> HIDE DEF i, j, r
<1>3. ASSUME n % p = r PROVE FALSE
  <2>1. n = j * p + r
    BY <1>2, <1>3
  <2>2. CASE j >= i + 1
    <3>1. j * p >= (i + 1) * p /\ (i + 1) * p = i * p + p
      BY <1>1, <1>2, <2>2
    <3> QED BY <1>1, <1>2, <2>1, <3>1
  <2>3. CASE j <= i
    <3>1. j * p <= i * p
      BY <1>1, <1>2, <2>3
    <3> QED BY <1>1, <1>2, <2>1, <3>1
  <2> QED BY <1>1, <1>2, <2>2, <2>3
<1> QED BY <1>3 DEF r

-----------------------------------------------------------------------------
LEMMA Constants ==
  /\ PageSize \in Nat \ {0} /\ Base \in Nat \ {0, 1} /\ Addresses \in Nat \ {0}
  /\ Addresses = Base * Base /\ Vector \in Address
<1>1. Base * Base \in Nat \ {0}
  BY StackAssumption
<1> QED BY <1>1, StackAssumption DEF Addresses, Address

LEMMA AtPointer == \A n \in Int : At(n) \in Pointer
BY Divided, Constants DEF At, Pointer

LEMMA AtPlus == \A m, n \in Int : At(At(m) + n) = At(m + n) /\ At(At(m) - n) = At(m - n)
<1> SUFFICES ASSUME NEW m \in Int, NEW n \in Int
             PROVE  At(At(m) + n) = At(m + n) /\ At(At(m) - n) = At(m - n)
  OBVIOUS
<1> DEFINE k == 0 - n
<1>1. ((m % PageSize) + n) % PageSize = (m + n) % PageSize
  BY Remainders, Constants
<1>2. k \in Int
  OBVIOUS
<1>3. m % PageSize \in Int
  BY Divided, Constants
<1>4. (m % PageSize) + k = (m % PageSize) - n /\ m + k = m - n
  BY <1>3
<1> HIDE DEF k
<1>5. ((m % PageSize) + k) % PageSize = (m + k) % PageSize
  BY <1>2, Remainders, Constants
<1> QED BY <1>1, <1>4, <1>5 DEF At

LEMMA AtOf == \A p \in Pointer : At(p) = p
<1> SUFFICES ASSUME NEW p \in Pointer PROVE At(p) = p
  OBVIOUS
<1>1. p \in 0..(PageSize - 1) /\ 0 * PageSize + p = p
  BY Constants DEF Pointer
<1> QED BY <1>1, OneRemainder, Constants DEF At

LEMMA AtApart == \A m, n \in Int : m < n /\ n < m + PageSize => At(m) # At(n)
BY Apart, Constants DEF At

LEMMA Next8Address == pc \in Address => \A n \in Nat : Next8(n) \in Address
<1> SUFFICES ASSUME pc \in Address, NEW n \in Nat PROVE Next8(n) \in Address
  OBVIOUS
<1>1. pc + n \in Int
  BY Constants DEF Address
<1> QED BY <1>1, Divided, Constants DEF Next8, Address

\* The four kinds of what is saved.
LEMMA Kinds ==
  ASSUME NEW what \in Saved
  PROVE  \/ \E r \in Address : what = [returnTo |-> r]
         \/ \E v \in Bytes : what = [a |-> v]
         \/ \E f \in SUBSET Flags : what = [flags |-> f]
         \/ \E p \in Address, f \in SUBSET Flags, b \in BOOLEAN :
              what = [pc |-> p, flags |-> f, brk |-> b]
BY DEF Saved

LEMMA Fields ==
  /\ \A r : DOMAIN [returnTo |-> r] = {"returnTo"}
  /\ \A v : DOMAIN [a |-> v] = {"a"}
  /\ \A f : DOMAIN [flags |-> f] = {"flags"}
  /\ \A p, f, b : DOMAIN [pc |-> p, flags |-> f, brk |-> b] = {"pc", "flags", "brk"}
OBVIOUS

LEMMA Sizes ==
  /\ \A r : Size([returnTo |-> r]) = 2
  /\ \A v : Size([a |-> v]) = 1
  /\ \A f : Size([flags |-> f]) = 1
  /\ \A p, f, b : Size([pc |-> p, flags |-> f, brk |-> b]) = 3
BY Fields DEF Size

LEMMA SizeOK == \A what \in Saved : Size(what) \in 1..3
<1> SUFFICES ASSUME NEW what \in Saved PROVE Size(what) \in 1..3
  OBVIOUS
<1>1. CASE \E r \in Address : what = [returnTo |-> r]
  BY <1>1, Sizes
<1>2. CASE \E v \in Bytes : what = [a |-> v]
  BY <1>2, Sizes
<1>3. CASE \E f \in SUBSET Flags : what = [flags |-> f]
  BY <1>3, Sizes
<1>4. CASE \E p \in Address, f \in SUBSET Flags, b \in BOOLEAN : what = [pc |-> p, flags |-> f, brk |-> b]
  BY <1>4, Sizes
<1> QED BY <1>1, <1>2, <1>3, <1>4, Kinds

\* A number is its two bytes.
LEMMA Words ==
  ASSUME NEW w \in Address
  PROVE  /\ w \div Base \in Bytes /\ w % Base \in Bytes
         /\ (w % Base) + Base * (w \div Base) = w
<1>1. w \in Nat /\ w < Base * Base /\ Base \in Nat \ {0, 1}
  BY Constants DEF Address
<1> DEFINE q == w \div Base
           r == w % Base
<1>2. q \in Int /\ r \in 0..(Base - 1) /\ w = q * Base + r
  BY <1>1, Divided
<1> HIDE DEF q, r
<1>3. q * Base = Base * q
  BY <1>1, <1>2
<1>4. ASSUME q >= Base PROVE FALSE
  <2>1. q * Base >= Base * Base
    BY <1>1, <1>2, <1>4
  <2> QED BY <1>1, <1>2, <2>1
<1>5. ASSUME q <= -1 PROVE FALSE
  <2>1. q * Base <= (-1) * Base /\ (-1) * Base = 0 - Base
    BY <1>1, <1>2, <1>5
  <2> QED BY <1>1, <1>2, <2>1
<1>6. q \in 0..(Base - 1)
  BY <1>1, <1>2, <1>4, <1>5
<1>7. r + Base * q = w
  BY <1>1, <1>2, <1>3
<1> QED BY <1>2, <1>6, <1>7 DEF q, r, Bytes

\* The address before one, and after it again.
LEMMA BackAndForth ==
  ASSUME NEW r \in Address
  PROVE  (r - 1) % Addresses \in Address /\ (((r - 1) % Addresses) + 1) % Addresses = r
<1> DEFINE k == r - 1
<1>1. r \in 0..(Addresses - 1) /\ k \in Int
  BY Constants DEF Address
<1>4. k + 1 = r /\ r = 0 * Addresses + r
  BY <1>1, Constants
<1> HIDE DEF k
<1>2. k % Addresses \in Address
  BY <1>1, Divided, Constants DEF Address
<1> DEFINE one == 1
<1>3. ((k % Addresses) + 1) % Addresses = (k + 1) % Addresses
  <2>1. one \in Int
    OBVIOUS
  <2> HIDE DEF one
  <2>2. ((k % Addresses) + one) % Addresses = (k + one) % Addresses
    BY <1>1, <2>1, Remainders, Constants
  <2> QED BY <2>2 DEF one
<1>5. r % Addresses = r
  BY <1>1, <1>4, OneRemainder, Constants
<1> QED BY <1>2, <1>3, <1>4, <1>5 DEF k

-----------------------------------------------------------------------------
Frame == [at : Pointer, what : Saved]

TypeInv ==
  /\ pc \in Address /\ sp \in Pointer /\ a \in Bytes /\ status \in Statuses
  /\ page \in [Pointer -> Cells]
  /\ frames \in Seq(Frame) /\ depth \in 0..PageSize

Layout(top, off) ==
  /\ off[1] = 0 /\ off[Len(frames) + 1] = depth
  /\ \A i \in 1..Len(frames) : /\ off[i + 1] = off[i] + Size(frames[i].what)
                               /\ frames[i].at = At(top - off[i])
  /\ \A i, j \in 1..(Len(frames) + 1) : i <= j => off[i] <= off[j]
  /\ sp = At(top - depth)

\* The frames lie below each other, from where the first was pushed down to the pointer,
\* wrapped, and take no more than the page.
Laid == \E top \in Pointer, off \in [1..(Len(frames) + 1) -> 0..PageSize] : Layout(top, off)

LEMMA PushLaid ==
  ASSUME TypeInv, Laid, NEW what \in Saved, Pushes(what)
  PROVE  Laid' /\ sp' \in Pointer /\ frames' \in Seq(Frame) /\ depth' \in 0..PageSize
<1>1. PICK top \in Pointer, off \in [1..(Len(frames) + 1) -> 0..PageSize] : Layout(top, off)
  BY DEF Laid
<1> DEFINE n    == Len(frames)
           size == Size(what)
           new  == [at |-> sp, what |-> what]
<1>0. PICK noff : noff = [i \in 1..(n + 2) |-> IF i = n + 2 THEN depth + size ELSE off[i]]
  OBVIOUS
<1>2. n \in Nat /\ frames \in Seq(Frame) /\ new \in Frame /\ size \in 1..3 /\ sp \in Int
  BY SizeOK, LenProperties, Constants DEF TypeInv, Frame, Pointer
<1>3. /\ frames' = Append(frames, new) /\ depth' = depth + size
      /\ sp' = At(sp - size) /\ depth + size <= PageSize /\ depth \in 0..PageSize
  BY DEF Pushes, TypeInv
<1>4. /\ frames' \in Seq(Frame) /\ Len(frames') = n + 1
      /\ \A i \in 1..n : frames'[i] = frames[i]
      /\ frames'[n + 1] = new
  BY <1>2, <1>3, AppendProperties
<1>5. depth' \in 0..PageSize
  BY <1>2, <1>3, Constants
<1>6. noff \in [1..(Len(frames') + 1) -> 0..PageSize]
  BY <1>0, <1>1, <1>2, <1>3, <1>4, <1>5
<1>7. sp = At(top - depth) /\ sp' = At(top - depth') /\ top \in Int
  <2>1. sp = At(top - depth) /\ top \in Int /\ depth \in Int
    BY <1>1, <1>3, Constants DEF Layout, Pointer
  <2> DEFINE m == top - depth
  <2>2. At(At(m) - size) = At(m - size)
    <3>1. m \in Int /\ size \in Int
      BY <1>2, <2>1
    <3> HIDE DEF m
    <3> QED BY <3>1, AtPlus
  <2>3. (top - depth) - size = top - (depth + size)
    BY <1>2, <2>1
  <2> QED BY <1>3, <2>1, <2>2, <2>3
<1>8. Layout(top, noff)'
  <2>1. noff[1] = 0 /\ noff[Len(frames') + 1] = depth'
    BY <1>0, <1>1, <1>2, <1>3, <1>4 DEF Layout
  <2>2. ASSUME NEW i \in 1..Len(frames')
        PROVE  noff[i + 1] = noff[i] + Size(frames'[i].what) /\ frames'[i].at = At(top - noff[i])
    <3>1. CASE i \in 1..n
      <4>1. noff[i] = off[i] /\ noff[i + 1] = off[i + 1] /\ frames'[i] = frames[i]
        BY <1>0, <1>2, <1>4, <3>1
      <4> QED BY <1>1, <3>1, <4>1 DEF Layout
    <3>2. CASE i = n + 1
      <4>1. noff[i] = depth /\ noff[i + 1] = depth + size /\ frames'[i] = new
        BY <1>0, <1>1, <1>2, <1>4, <3>2 DEF Layout
      <4> QED BY <1>7, <4>1
    <3> QED BY <1>2, <1>4, <2>2, <3>1, <3>2
  <2>3. ASSUME NEW i \in 1..(Len(frames') + 1), NEW j \in 1..(Len(frames') + 1), i <= j
        PROVE  noff[i] <= noff[j]
    <3>1. CASE j = n + 2 /\ i # n + 2
      <4>1. i \in 1..(n + 1) /\ noff[i] = off[i] /\ noff[j] = depth + size /\ off[i] <= depth
        <5>1. i \in 1..(n + 1)
          BY <1>2, <1>4, <2>3, <3>1
        <5>2. off[i] <= off[n + 1] /\ off[n + 1] = depth
          BY <1>1, <1>2, <5>1 DEF Layout
        <5> QED BY <1>0, <1>2, <3>1, <5>1, <5>2
      <4>2. off[i] \in 0..PageSize
        BY <1>1, <4>1
      <4> QED BY <1>2, <1>3, <4>1, <4>2
    <3>2. CASE j # n + 2
      <4>1. i \in 1..(n + 1) /\ j \in 1..(n + 1) /\ noff[i] = off[i] /\ noff[j] = off[j]
        BY <1>0, <1>2, <1>4, <2>3, <3>2
      <4> QED BY <1>1, <2>3, <4>1 DEF Layout
    <3>3. CASE i = n + 2 /\ j = n + 2
      BY <1>0, <1>2, <1>3, <1>4, <3>3
    <3> QED BY <1>2, <1>4, <2>3, <3>1, <3>2, <3>3
  <2> QED BY <1>7, <2>1, <2>2, <2>3 DEF Layout
<1> QED BY <1>3, <1>4, <1>5, <1>6, <1>8, <1>2, AtPointer DEF Laid

\* A sequence without its last element.
LEMMA Shorter ==
  ASSUME NEW S, NEW s \in Seq(S), s # <<>>
  PROVE  /\ Len(s) \in Nat \ {0}
         /\ SubSeq(s, 1, Len(s) - 1) \in Seq(S)
         /\ Len(SubSeq(s, 1, Len(s) - 1)) = Len(s) - 1
         /\ \A i \in 1..(Len(s) - 1) : SubSeq(s, 1, Len(s) - 1)[i] = s[i]
<1> DEFINE k == Len(s) - 1
           r == SubSeq(s, 1, k)
<1>1. Len(s) \in Nat \ {0} /\ k \in Nat /\ k \in Int
  BY EmptySeq, LenProperties
<1>2. \A i \in 1..k : s[i] \in S
  BY <1>1, ElementOfSeq
<1> HIDE DEF k
<1>3. /\ r \in Seq(S) /\ Len(r) = IF 1 <= k THEN k - 1 + 1 ELSE 0
      /\ \A i \in 1..(k - 1 + 1) : r[i] = s[1 + i - 1]
  BY <1>1, <1>2, SubSeqProperties
<1> HIDE DEF r
<1>4. Len(r) = k /\ \A i \in 1..k : r[i] = s[i]
  BY <1>1, <1>3
<1> QED BY <1>1, <1>3, <1>4 DEF k, r

\* The last frame ends above the pointer.
LEMMA PullLaid ==
  ASSUME TypeInv, Laid, NEW field, Pulls(field)
  PROVE  /\ Laid' /\ sp' \in Pointer /\ frames' \in Seq(Frame) /\ depth' \in 0..PageSize
         /\ Len(frames) \in Nat \ {0} /\ frames[Len(frames)] \in Frame
         /\ Len(frames') = Len(frames) - 1
         /\ \A i \in 1..(Len(frames) - 1) : frames'[i] = frames[i]
         /\ sp' = frames[Len(frames)].at /\ sp = At(sp' - Size(Top))
<1>1. PICK top \in Pointer, off \in [1..(Len(frames) + 1) -> 0..PageSize] : Layout(top, off)
  BY DEF Laid
<1> DEFINE n    == Len(frames)
           size == Size(Top)
<1>2. n \in Nat \ {0} /\ frames[n] \in Frame /\ Top \in Saved /\ size \in 1..3
  <2>1. frames \in Seq(Frame) /\ frames # <<>>
    BY DEF TypeInv, Pulls
  <2>2. n \in Nat \ {0} /\ frames[n] \in Frame
    BY <2>1, LenProperties, EmptySeq, ElementOfSeq
  <2>3. Top \in Saved
    BY <2>2 DEF Frame, Top
  <2> QED BY <2>2, <2>3, SizeOK
<1>3. /\ frames' = SubSeq(frames, 1, n - 1) /\ depth' = depth - size
      /\ sp' = At(sp + size) /\ depth \in 0..PageSize /\ frames \in Seq(Frame)
  BY DEF Pulls, TypeInv
<1>4. /\ frames' \in Seq(Frame) /\ Len(frames') = n - 1
      /\ \A i \in 1..(n - 1) : frames'[i] = frames[i]
  BY <1>2, <1>3, Shorter DEF Pulls
<1>5. /\ off[n] \in 0..PageSize /\ depth = off[n] + size /\ frames[n].at = At(top - off[n])
      /\ top \in Int
  BY <1>1, <1>2, Constants DEF Layout, Top, Pointer
<1>6. depth' = off[n] /\ depth' \in 0..PageSize
  BY <1>2, <1>3, <1>5
<1>7. sp' = At(top - depth') /\ sp' = frames[n].at
  <2> DEFINE m == top - depth
  <2>1. sp = At(m) /\ m \in Int /\ size \in Int
    BY <1>1, <1>2, <1>3, <1>5 DEF Layout
  <2>2. m + size = top - off[n]
    BY <1>2, <1>3, <1>5
  <2> HIDE DEF m
  <2>3. At(At(m) + size) = At(m + size)
    BY <2>1, AtPlus
  <2> QED BY <1>3, <1>5, <1>6, <2>1, <2>2, <2>3
<1>8. sp = At(sp' - size)
  <2> DEFINE m == top - off[n]
  <2>1. sp' = At(m) /\ m \in Int /\ size \in Int
    BY <1>2, <1>5, <1>7
  <2>2. m - size = top - depth
    BY <1>2, <1>5
  <2> HIDE DEF m
  <2>3. At(At(m) - size) = At(m - size)
    BY <2>1, AtPlus
  <2>4. sp = At(top - depth)
    BY <1>1 DEF Layout
  <2> QED BY <2>1, <2>2, <2>3, <2>4
<1>9. PICK noff : noff = [i \in 1..n |-> off[i]]
  OBVIOUS
<1>10. noff \in [1..(Len(frames') + 1) -> 0..PageSize]
  BY <1>1, <1>2, <1>4, <1>9
<1>11. Layout(top, noff)'
  <2>1. noff[1] = 0 /\ noff[Len(frames') + 1] = depth'
    BY <1>1, <1>2, <1>4, <1>6, <1>9 DEF Layout
  <2>2. ASSUME NEW i \in 1..Len(frames')
        PROVE  noff[i + 1] = noff[i] + Size(frames'[i].what) /\ frames'[i].at = At(top - noff[i])
    <3>1. i \in 1..n /\ noff[i] = off[i] /\ noff[i + 1] = off[i + 1] /\ frames'[i] = frames[i]
      BY <1>2, <1>4, <1>9
    <3> QED BY <1>1, <3>1 DEF Layout
  <2>3. ASSUME NEW i \in 1..(Len(frames') + 1), NEW j \in 1..(Len(frames') + 1), i <= j
        PROVE  noff[i] <= noff[j]
    <3>1. i \in 1..(n + 1) /\ j \in 1..(n + 1) /\ noff[i] = off[i] /\ noff[j] = off[j]
      BY <1>2, <1>4, <1>9
    <3> QED BY <1>1, <2>3, <3>1 DEF Layout
  <2> QED BY <1>7, <2>1, <2>2, <2>3 DEF Layout
<1>12. Laid' /\ sp' \in Pointer
  BY <1>5, <1>6, <1>7, <1>10, <1>11, AtPointer DEF Laid
<1> QED BY <1>2, <1>4, <1>6, <1>7, <1>8, <1>12

\* What is pushed lies apart from every byte of the frames there are.
LEMMA PushedApart ==
  ASSUME TypeInv, Laid, NEW what \in Saved, Pushes(what), NEW i \in 1..Len(frames),
         NEW k \in 0..(Size(frames[i].what) - 1), NEW l \in 0..(Size(what) - 1)
  PROVE  At(frames[i].at - k) # At(sp - l)
<1>1. PICK top \in Pointer, off \in [1..(Len(frames) + 1) -> 0..PageSize] : Layout(top, off)
  BY DEF Laid
<1> DEFINE n    == Len(frames)
           size == Size(what)
           own  == Size(frames[i].what)
           m    == top - off[i]
           p    == top - depth
<1>2. /\ frames \in Seq(Frame) /\ n \in Nat /\ frames[i] \in Frame
      /\ size \in 1..3 /\ own \in 1..3 /\ top \in Int
  <2>1. frames \in Seq(Frame) /\ n \in Nat /\ frames[i] \in Frame
    BY LenProperties, ElementOfSeq DEF TypeInv
  <2> QED BY <2>1, SizeOK, Constants DEF Frame, Pointer
<1>3. /\ off[i] \in 0..PageSize /\ depth \in 0..PageSize /\ depth + size <= PageSize
      /\ off[i] + own <= depth
  <2>1. off[i + 1] = off[i] + own /\ off[i + 1] <= off[n + 1] /\ off[n + 1] = depth
    <3>1. i + 1 \in 1..(n + 1) /\ n + 1 \in 1..(n + 1) /\ i + 1 <= n + 1
      BY <1>2
    <3> QED BY <1>1, <3>1 DEF Layout
  <2>2. off[i] \in 0..PageSize
    BY <1>1, <1>2
  <2> QED BY <2>1, <2>2 DEF Pushes, TypeInv
<1>4. frames[i].at = At(m) /\ sp = At(p) /\ m \in Int /\ p \in Int /\ k \in Int /\ l \in Int
  BY <1>1, <1>2, <1>3 DEF Layout
<1>5. p - l < m - k /\ m - k < (p - l) + PageSize /\ m - k \in Int /\ p - l \in Int
  <2> DEFINE o == off[i]
  <2>1. k \in 0..(own - 1) /\ l \in 0..(size - 1) /\ o \in 0..PageSize /\ m = top - o
        /\ o + own <= depth
    BY <1>3
  <2> HIDE DEF own, size, o, m
  <2> QED BY <1>2, <1>3, <2>1, Constants
<1> HIDE DEF m, p
<1>6. At(At(m) - k) = At(m - k) /\ At(At(p) - l) = At(p - l)
  BY <1>4, AtPlus
<1>7. At(m - k) # At(p - l)
  <2> DEFINE u == m - k
             v == p - l
  <2>1. u \in Int /\ v \in Int /\ v < u /\ u < v + PageSize
    BY <1>5
  <2> HIDE DEF u, v
  <2>2. At(v) # At(u)
    BY <2>1, AtApart
  <2> QED BY <2>2 DEF u, v
<1> QED BY <1>4, <1>6, <1>7

\* A frame is held as long as none of its bytes changes.
LEMMA HeldOn ==
  ASSUME NEW frame \in Frame, Holds(frame),
         \A k \in 0..(Size(frame.what) - 1) : page'[At(frame.at - k)] = page[At(frame.at - k)]
  PROVE  Holds(frame)'
<1>1. frame.what \in Saved /\ frame.at \in Pointer /\ frame.at - 0 = frame.at
  BY Constants DEF Frame, Pointer
<1>2. At(frame.at - 0) = frame.at
  BY <1>1, AtOf
<1>3. 1 <= Size(frame.what) => page'[frame.at] = page[frame.at]
  BY <1>1, <1>2, SizeOK
<1>4. 2 <= Size(frame.what) => page'[At(frame.at - 1)] = page[At(frame.at - 1)]
  BY <1>1, SizeOK
<1>5. 3 <= Size(frame.what) => page'[At(frame.at - 2)] = page[At(frame.at - 2)]
  BY <1>1, SizeOK
<1>6. CASE \E r \in Address : frame.what = [returnTo |-> r]
  BY <1>3, <1>4, <1>6, Fields, Sizes DEF Holds
<1>7. CASE \E v \in Bytes : frame.what = [a |-> v]
  BY <1>3, <1>7, Fields, Sizes DEF Holds
<1>8. CASE \E f \in SUBSET Flags : frame.what = [flags |-> f]
  BY <1>3, <1>8, Fields, Sizes DEF Holds
<1>9. CASE \E p \in Address, f \in SUBSET Flags, b \in BOOLEAN :
             frame.what = [pc |-> p, flags |-> f, brk |-> b]
  BY <1>3, <1>4, <1>5, <1>9, Fields, Sizes DEF Holds
<1> QED BY <1>1, <1>6, <1>7, <1>8, <1>9, Kinds

\* A push that writes its own bytes alone, and them as it should, holds every frame.
LEMMA PushHolds ==
  ASSUME TypeInv, Laid, StackHolds, NEW what \in Saved, Pushes(what),
         \A p \in Pointer : (\A l \in 0..(Size(what) - 1) : p # At(sp - l)) => page'[p] = page[p],
         NEW new, new = [at |-> sp, what |-> what], Holds(new)'
  PROVE  StackHolds'
<1>0. PICK n : n = Len(frames)
  OBVIOUS
<1>1. /\ n \in Nat /\ frames' = Append(frames, new) /\ new \in Frame
      /\ Len(frames') = n + 1 /\ frames'[n + 1] = new
      /\ \A i \in 1..n : frames'[i] = frames[i] /\ frames[i] \in Frame
  <2>1. frames \in Seq(Frame) /\ n \in Nat /\ new \in Frame /\ frames' = Append(frames, new)
    BY <1>0, LenProperties DEF TypeInv, Frame, Pushes
  <2>2. \A i \in 1..n : frames[i] \in Frame
    BY <1>0, <2>1, ElementOfSeq
  <2> QED BY <1>0, <2>1, <2>2, AppendProperties
<1>2. ASSUME NEW i \in 1..n PROVE Holds(frames[i])'
  <2>1. PICK frame \in Frame : frame = frames[i]
    BY <1>1, <1>2
  <2>2. ASSUME NEW k \in 0..(Size(frame.what) - 1)
        PROVE  page'[At(frame.at - k)] = page[At(frame.at - k)]
    <3>1. At(frame.at - k) \in Pointer
      <4>1. frame.at - k \in Int
        BY <2>1, SizeOK, Constants DEF Frame, Pointer
      <4> QED BY <4>1, AtPointer
    <3>2. \A l \in 0..(Size(what) - 1) : At(frame.at - k) # At(sp - l)
      BY <1>0, <2>1, <2>2, PushedApart
    <3> QED BY <3>1, <3>2
  <2>3. Holds(frame)
    BY <1>0, <1>1, <2>1 DEF StackHolds
  <2>4. Holds(frame)'
    BY <2>1, <2>2, <2>3, HeldOn
  <2>5. frames'[i] = frame
    BY <1>1, <2>1
  <2> QED BY <2>4, <2>5 DEF Holds
<1>3. Holds(frames[n + 1])'
  BY <1>1 DEF Holds
<1> QED BY <1>1, <1>2, <1>3 DEF StackHolds

\* A pull leaves the frames that remain.
LEMMA PullHolds ==
  ASSUME TypeInv, Laid, StackHolds, NEW field, Pulls(field)
  PROVE  StackHolds'
<1>1. ASSUME NEW i \in 1..(Len(frames) - 1) PROVE Holds(frames[i])'
  <2>1. PICK frame : frame = frames[i]
    OBVIOUS
  <2>2. Holds(frame) /\ frames'[i] = frame
    BY <1>1, <2>1, PullLaid DEF StackHolds
  <2>3. page' = page
    BY DEF Pulls
  <2>4. Holds(frame)'
    BY <2>2, <2>3 DEF Holds
  <2> QED BY <2>2, <2>4 DEF Holds
<1> QED BY <1>1, PullLaid DEF StackHolds

-----------------------------------------------------------------------------
IInv == TypeInv /\ Laid /\ StackHolds

\* Numbers and packed flags are cells, and are read back.
LEMMA CellsOK ==
  /\ \A n \in Bytes : Number(n) \in Cells /\ Number(n).n = n
  /\ \A s \in Statuses : Packed(s) \in Cells /\ Packed(s).flags = s
BY DEF Number, Packed, Cells

LEMMA Written8 ==
  ASSUME NEW m \in [Pointer -> Cells], NEW p \in Pointer, NEW byte \in Cells
  PROVE  /\ Push8(m, p, byte) \in [Pointer -> Cells]
         /\ Push8(m, p, byte)[p] = byte
         /\ \A q \in Pointer : q # p => Push8(m, p, byte)[q] = m[q]
BY DEF Push8

LEMMA Written16 ==
  ASSUME NEW m \in [Pointer -> Cells], NEW p \in Pointer, NEW word \in Address, 2 <= PageSize
  PROVE  /\ Push16(m, p, word) \in [Pointer -> Cells]
         /\ Push16(m, p, word)[p] = Number(word \div Base)
         /\ Push16(m, p, word)[At(p - 1)] = Number(word % Base)
         /\ \A q \in Pointer : q # p /\ q # At(p - 1) => Push16(m, p, word)[q] = m[q]
<1>1. p \in Int /\ p - 1 \in Int /\ p - 1 < p /\ p < (p - 1) + PageSize /\ At(p) = p
  BY Constants, AtOf DEF Pointer
<1> DEFINE low == p - 1
<1>2. At(low) # At(p)
  <2>1. low \in Int /\ low < p /\ p < low + PageSize
    BY <1>1
  <2> HIDE DEF low
  <2> QED BY <1>1, <2>1, AtApart
<1>3. At(p - 1) \in Pointer /\ At(p - 1) # p
  BY <1>1, <1>2, AtPointer
<1>4. Number(word \div Base) \in Cells /\ Number(word % Base) \in Cells
  BY Words, CellsOK
<1> QED BY <1>3, <1>4 DEF Push16

\* The bytes a push writes.
LEMMA PushBytes ==
  ASSUME TypeInv
  PROVE  sp \in Pointer /\ At(sp) = sp /\ sp - 0 = sp /\ At(sp - 1) \in Pointer /\ At(sp - 2) \in Pointer
<1>1. sp \in Pointer /\ sp - 0 = sp /\ sp - 1 \in Int /\ sp - 2 \in Int
  BY Constants DEF TypeInv, Pointer
<1> QED BY <1>1, AtOf, AtPointer

LEMMA OwnOK == \A s \in Statuses : Own(s) \in SUBSET Flags
BY DEF Own, Statuses

LEMMA JsrKeeps ==
  ASSUME IInv, NEW target \in Address, Jsr(target)
  PROVE  IInv'
<1> DEFINE r    == Next8(3)
           w    == Next8(2)
           what == [returnTo |-> r]
<1>1. TypeInv /\ Laid /\ StackHolds /\ Pushes(what)
  BY DEF IInv, Jsr
<1>2. r \in Address /\ w \in Address /\ what \in Saved /\ Size(what) = 2
  BY <1>1, Next8Address, Sizes DEF TypeInv, Saved
<1>3. w = (r - 1) % Addresses
  <2> DEFINE m == pc + 3
             k == 0 - 1
  <2>1. m \in Int /\ k \in Int /\ m + k = pc + 2 /\ r = m % Addresses
    BY <1>1, Constants DEF TypeInv, Address, Next8
  <2>2. r - 1 = (m % Addresses) + k
    BY <1>2, <2>1, Constants DEF Address
  <2> HIDE DEF m, k
  <2>3. ((m % Addresses) + k) % Addresses = (m + k) % Addresses
    BY <2>1, Remainders, Constants
  <2> QED BY <2>1, <2>2, <2>3 DEF Next8
<1>4. PageSize >= 2
  BY <1>1, <1>2, Constants DEF Pushes, TypeInv
<1>5. /\ page' \in [Pointer -> Cells]
      /\ page'[sp] = Number(w \div Base) /\ page'[At(sp - 1)] = Number(w % Base)
      /\ \A q \in Pointer : q # sp /\ q # At(sp - 1) => page'[q] = page[q]
  BY <1>1, <1>2, <1>4, Written16, PushBytes DEF Jsr, TypeInv
<1>6. PICK new : new = [at |-> sp, what |-> what]
  OBVIOUS
<1>7. Holds(new)'
  BY <1>3, <1>5, <1>6, Fields DEF Holds
<1>8. \A p \in Pointer : (\A l \in 0..(Size(what) - 1) : p # At(sp - l)) => page'[p] = page[p]
  <2>1. 0 \in 0..(Size(what) - 1) /\ 1 \in 0..(Size(what) - 1) /\ At(sp - 0) = sp
    BY <1>1, <1>2, PushBytes
  <2> QED BY <1>5, <2>1
<1>9. StackHolds'
  BY <1>1, <1>2, <1>6, <1>7, <1>8, PushHolds
<1>10. /\ Laid' /\ sp' \in Pointer /\ frames' \in Seq(Frame) /\ depth' \in 0..PageSize
  BY <1>1, <1>2, PushLaid
<1>11. pc' \in Address /\ a' \in Bytes /\ status' \in Statuses
  BY <1>1 DEF Jsr, TypeInv, Fetched, Statuses
<1> QED BY <1>5, <1>9, <1>10, <1>11 DEF IInv, TypeInv

LEMMA PhaKeeps ==
  ASSUME IInv, Pha
  PROVE  IInv'
<1> DEFINE what == [a |-> a]
<1>1. TypeInv /\ Laid /\ StackHolds /\ Pushes(what)
  BY DEF IInv, Pha
<1>2. what \in Saved /\ Size(what) = 1
  BY <1>1, Sizes DEF TypeInv, Saved
<1>3. /\ page' \in [Pointer -> Cells] /\ page'[sp] = Number(a)
      /\ \A q \in Pointer : q # sp => page'[q] = page[q]
  BY <1>1, Written8, CellsOK DEF Pha, TypeInv
<1>4. PICK new : new = [at |-> sp, what |-> what]
  OBVIOUS
<1>5. Holds(new)'
  BY <1>3, <1>4, Fields DEF Holds
<1>6. \A p \in Pointer : (\A l \in 0..(Size(what) - 1) : p # At(sp - l)) => page'[p] = page[p]
  <2>1. 0 \in 0..(Size(what) - 1) /\ At(sp - 0) = sp
    BY <1>1, <1>2, PushBytes
  <2> QED BY <1>3, <2>1
<1>7. StackHolds'
  BY <1>1, <1>2, <1>4, <1>5, <1>6, PushHolds
<1>8. /\ Laid' /\ sp' \in Pointer /\ frames' \in Seq(Frame) /\ depth' \in 0..PageSize
  BY <1>1, <1>2, PushLaid
<1>9. pc' \in Address /\ a' \in Bytes /\ status' \in Statuses
  BY <1>1, Next8Address DEF Pha, TypeInv, Fetched, Statuses
<1> QED BY <1>3, <1>7, <1>8, <1>9 DEF IInv, TypeInv

LEMMA PhpKeeps ==
  ASSUME IInv, Php
  PROVE  IInv'
<1> DEFINE what   == [flags |-> Own(status)]
           pushed == Fetched \cup {"break"}
<1>1. TypeInv /\ Laid /\ StackHolds /\ Pushes(what)
  BY DEF IInv, Php
<1>2. what \in Saved /\ Size(what) = 1
  BY <1>1, Sizes, OwnOK DEF TypeInv, Saved
<1>3. pushed \in Statuses /\ pushed = Own(status) \cup {"constant", "break"}
  BY <1>1 DEF TypeInv, Statuses, Fetched, Own
<1>4. /\ page' \in [Pointer -> Cells] /\ page'[sp] = Packed(pushed)
      /\ \A q \in Pointer : q # sp => page'[q] = page[q]
  <2>1. Packed(pushed) \in Cells /\ page' = Push8(page, sp, Packed(pushed))
    BY <1>3, CellsOK DEF Php
  <2> HIDE DEF pushed
  <2> QED BY <1>1, <2>1, Written8 DEF TypeInv
<1>5. PICK new : new = [at |-> sp, what |-> what]
  OBVIOUS
<1>6. Holds(new)'
  BY <1>3, <1>4, <1>5, Fields DEF Holds
<1>7. \A p \in Pointer : (\A l \in 0..(Size(what) - 1) : p # At(sp - l)) => page'[p] = page[p]
  <2>1. 0 \in 0..(Size(what) - 1) /\ At(sp - 0) = sp
    BY <1>1, <1>2, PushBytes
  <2> QED BY <1>4, <2>1
<1>8. StackHolds'
  BY <1>1, <1>2, <1>5, <1>6, <1>7, PushHolds
<1>9. /\ Laid' /\ sp' \in Pointer /\ frames' \in Seq(Frame) /\ depth' \in 0..PageSize
  BY <1>1, <1>2, PushLaid
<1>10. pc' \in Address /\ a' \in Bytes /\ status' \in Statuses
  BY <1>1, Next8Address DEF Php, TypeInv, Fetched, Statuses
<1> QED BY <1>4, <1>8, <1>9, <1>10 DEF IInv, TypeInv

\* A context: the status pushed has BREAK exactly if `brk` says so.
LEMMA EntersKeeps ==
  ASSUME IInv, NEW resume \in Address, NEW brk \in BOOLEAN,
         NEW pushed, pushed = Own(status) \cup {"constant"} \cup (IF brk THEN {"break"} ELSE {}),
         Enters(resume, pushed, brk), status' \in Statuses
  PROVE  IInv'
<1> DEFINE what  == [pc |-> resume, flags |-> Own(status), brk |-> brk]
           first == Push16(page, sp, resume)
<1>1. TypeInv /\ Laid /\ StackHolds /\ Pushes(what)
  BY DEF IInv, Enters
<1>2. what \in Saved /\ Size(what) = 3 /\ PageSize >= 3
  <2>1. what \in Saved /\ Size(what) = 3
    BY <1>1, Sizes, OwnOK DEF TypeInv, Saved
  <2> QED BY <1>1, <2>1, Constants DEF Pushes, TypeInv
<1>3. Packed(pushed) \in Cells
  <2>1. pushed \in Statuses
    BY <1>1 DEF TypeInv, Statuses, Own
  <2> QED BY <2>1, CellsOK
<1>4. /\ first \in [Pointer -> Cells]
      /\ first[sp] = Number(resume \div Base) /\ first[At(sp - 1)] = Number(resume % Base)
      /\ \A q \in Pointer : q # sp /\ q # At(sp - 1) => first[q] = page[q]
  BY <1>1, <1>2, Written16, PushBytes, Constants DEF TypeInv
<1>5. At(sp - 2) # sp /\ At(sp - 2) # At(sp - 1)
  <2> DEFINE u == sp - 2
             v == sp - 1
  <2>1. u \in Int /\ v \in Int /\ sp \in Int /\ u < v /\ v < u + PageSize /\ u < sp /\ sp < u + PageSize
    BY <1>1, <1>2, Constants DEF TypeInv, Pointer
  <2> HIDE DEF u, v
  <2>2. At(u) # At(v) /\ At(u) # At(sp)
    BY <2>1, AtApart
  <2> QED BY <1>1, <2>2, PushBytes DEF u, v
<1>6. /\ page' \in [Pointer -> Cells]
      /\ page'[sp] = Number(resume \div Base) /\ page'[At(sp - 1)] = Number(resume % Base)
      /\ page'[At(sp - 2)] = Packed(pushed)
      /\ \A q \in Pointer : q # sp /\ q # At(sp - 1) /\ q # At(sp - 2) => page'[q] = page[q]
  <2> HIDE DEF first
  <2>1. page' = Push8(first, At(sp - 2), Packed(pushed))
    BY DEF Enters, first
  <2> DEFINE p == At(sp - 2)
             byte == Packed(pushed)
             second == Push8(first, p, byte)
  <2>2. first \in [Pointer -> Cells] /\ p \in Pointer /\ byte \in Cells
    BY <1>1, <1>3, <1>4, PushBytes
  <2> HIDE DEF p, byte
  <2>3. /\ second \in [Pointer -> Cells] /\ second[p] = byte
        /\ \A q \in Pointer : q # p => second[q] = first[q]
    BY <2>2, Written8
  <2>4. page' = second
    BY <2>1 DEF p, byte
  <2> HIDE DEF second
  <2> QED BY <1>1, <1>4, <1>5, <2>3, <2>4, PushBytes DEF p, byte
<1>7. PICK new : new = [at |-> sp, what |-> what]
  OBVIOUS
<1>8. Holds(new)'
  BY <1>6, <1>7, Fields DEF Holds
<1>9. \A p \in Pointer : (\A l \in 0..(Size(what) - 1) : p # At(sp - l)) => page'[p] = page[p]
  <2>1. /\ 0 \in 0..(Size(what) - 1) /\ 1 \in 0..(Size(what) - 1) /\ 2 \in 0..(Size(what) - 1)
        /\ At(sp - 0) = sp
    BY <1>1, <1>2, PushBytes
  <2> QED BY <1>6, <2>1
<1>10. StackHolds'
  BY <1>1, <1>2, <1>7, <1>8, <1>9, PushHolds
<1>11. /\ Laid' /\ sp' \in Pointer /\ frames' \in Seq(Frame) /\ depth' \in 0..PageSize
  BY <1>1, <1>2, PushLaid
<1>12. pc' \in Address /\ a' \in Bytes
  BY <1>1, Constants DEF Enters, TypeInv
<1> QED BY <1>6, <1>10, <1>11, <1>12 DEF IInv, TypeInv

LEMMA BrkKeeps ==
  ASSUME IInv, Brk
  PROVE  IInv'
<1>1. TypeInv
  BY DEF IInv
<1>2. Next8(2) \in Address /\ status' \in Statuses
  BY <1>1, Next8Address, StackAssumption DEF TypeInv, Brk, Fetched, Statuses
<1>3. Fetched \cup {"break"} = Own(status) \cup {"constant"} \cup (IF TRUE THEN {"break"} ELSE {})
  BY DEF Fetched, Own
<1>4. Enters(Next8(2), Fetched \cup {"break"}, TRUE)
  BY DEF Brk
<1> QED BY <1>2, <1>3, <1>4, EntersKeeps

LEMMA HardwareKeeps ==
  ASSUME IInv, Hardware
  PROVE  IInv'
<1> DEFINE pushed == (status \cup {"constant"}) \ {"break"}
<1>1. TypeInv
  BY DEF IInv
<1>2. pc \in Address /\ status' \in Statuses
  BY <1>1, StackAssumption DEF TypeInv, Hardware, Statuses
<1>3. pushed = Own(status) \cup {"constant"} \cup (IF FALSE THEN {"break"} ELSE {})
  BY DEF Own
<1>4. Enters(pc, pushed, FALSE)
  BY DEF Hardware
<1> HIDE DEF pushed
<1> QED BY <1>2, <1>3, <1>4, EntersKeeps

\* What a pull reads: the word or byte its frame was pushed as.
LEMMA Pulled ==
  ASSUME IInv, NEW field, Pulls(field)
  PROVE  /\ Top \in Saved /\ field \in DOMAIN Top
         /\ \A r : Top = [returnTo |-> r] => Pull16(sp) = (r - 1) % Addresses
         /\ \A v : Top = [a |-> v] => Pull8(sp) = Number(v)
         /\ \A f : Top = [flags |-> f] => Pull8(sp) = Packed(f \cup {"constant", "break"})
         /\ \A p, f, b : Top = [pc |-> p, flags |-> f, brk |-> b] =>
              /\ Pull8(sp) = Packed(f \cup {"constant"} \cup (IF b THEN {"break"} ELSE {}))
              /\ Pull16(At(sp + 1)) = p
<1> DEFINE n     == Len(frames)
           frame == frames[n]
           size  == Size(Top)
<1>1. TypeInv /\ Laid /\ StackHolds
  BY DEF IInv
<1>2. /\ n \in Nat \ {0} /\ frame \in Frame /\ sp' = frame.at /\ sp = At(frame.at - size)
  BY <1>1, PullLaid
<1>3. Top = frame.what /\ Top \in Saved /\ frame.at \in Pointer /\ size \in 1..3
  BY <1>2, SizeOK DEF Top, Frame
<1>4. Holds(frame)
  BY <1>1, <1>2 DEF StackHolds
<1> HIDE DEF n, frame
<1>5. \A k \in Int : At(sp + k) = At(frame.at - size + k)
  <2> DEFINE m == frame.at - size
  <2>1. m \in Int /\ sp = At(m)
    BY <1>2, <1>3, Constants DEF Pointer
  <2> HIDE DEF m
  <2>2. \A k \in Int : At(At(m) + k) = At(m + k)
    BY <2>1, AtPlus
  <2> QED BY <2>1, <2>2 DEF m
<1>6. At(frame.at) = frame.at /\ frame.at \in Int
  BY <1>3, AtOf, Constants DEF Pointer
<1>7. ASSUME NEW r, Top = [returnTo |-> r]
      PROVE  Pull16(sp) = (r - 1) % Addresses
  <2> DEFINE w == (r - 1) % Addresses
  <2>1. size = 2 /\ r \in Address
    <3>1. \E q \in Address : Top = [returnTo |-> q]
      BY <1>3, <1>7, Kinds, Fields
    <3>2. Top.returnTo = r
      BY <1>7
    <3> QED BY <1>7, <3>1, <3>2, Sizes
  <2>2. At(sp + 1) = At(frame.at - 1) /\ At(sp + 2) = frame.at
    <3>1. frame.at - size + 1 = frame.at - 1 /\ frame.at - size + 2 = frame.at
      BY <1>6, <2>1
    <3> QED BY <1>5, <1>6, <3>1
  <2>3. page[frame.at] = Number(w \div Base) /\ page[At(frame.at - 1)] = Number(w % Base)
    BY <1>3, <1>4, <1>7, Fields DEF Holds
  <2>4. w \in Address
    BY <2>1, BackAndForth
  <2> HIDE DEF w
  <2>5. (w % Base) + Base * (w \div Base) = w
    BY <2>4, Words
  <2> QED BY <2>2, <2>3, <2>5 DEF Pull16, Number, w
<1>8. ASSUME NEW v, Top = [a |-> v]
      PROVE  Pull8(sp) = Number(v)
  <2>1. frame.at - size + 1 = frame.at
    BY <1>6, <1>8, Sizes
  <2>2. At(sp + 1) = frame.at
    BY <1>5, <1>6, <2>1
  <2> QED BY <1>3, <1>4, <1>8, <2>2, Fields DEF Holds, Pull8
<1>9. ASSUME NEW f, Top = [flags |-> f]
      PROVE  Pull8(sp) = Packed(f \cup {"constant", "break"})
  <2>1. frame.at - size + 1 = frame.at
    BY <1>6, <1>9, Sizes
  <2>2. At(sp + 1) = frame.at
    BY <1>5, <1>6, <2>1
  <2> QED BY <1>3, <1>4, <1>9, <2>2, Fields DEF Holds, Pull8
<1>10. ASSUME NEW p, NEW f, NEW b, Top = [pc |-> p, flags |-> f, brk |-> b]
       PROVE  /\ Pull8(sp) = Packed(f \cup {"constant"} \cup (IF b THEN {"break"} ELSE {}))
              /\ Pull16(At(sp + 1)) = p
  <2>1. size = 3 /\ p \in Address
    <3>1. \E q \in Address, g \in SUBSET Flags, c \in BOOLEAN : Top = [pc |-> q, flags |-> g, brk |-> c]
      <4>1. DOMAIN Top = {"pc", "flags", "brk"}
        BY <1>10, Fields
      <4>2. ~(\E r \in Address : Top = [returnTo |-> r]) /\ ~(\E v \in Bytes : Top = [a |-> v])
            /\ ~(\E g \in SUBSET Flags : Top = [flags |-> g])
        BY <4>1, Fields
      <4> QED BY <1>3, <4>2, Kinds
    <3>2. Top.pc = p
      BY <1>10
    <3> QED BY <1>10, <3>1, <3>2, Sizes
  <2>2. At(sp + 1) = At(frame.at - 2) /\ At(sp + 2) = At(frame.at - 1) /\ At(sp + 3) = frame.at
    <3>1. /\ frame.at - size + 1 = frame.at - 2 /\ frame.at - size + 2 = frame.at - 1
          /\ frame.at - size + 3 = frame.at
      BY <1>6, <2>1
    <3> QED BY <1>5, <1>6, <3>1
  <2>3. At(At(sp + 1) + 1) = At(sp + 2) /\ At(At(sp + 1) + 2) = At(sp + 3)
    <3> DEFINE m == sp + 1
               one == 1
               two == 2
    <3>1. m \in Int /\ one \in Int /\ two \in Int /\ m + one = sp + 2 /\ m + two = sp + 3
      BY <1>1, Constants DEF TypeInv, Pointer
    <3> HIDE DEF m, one, two
    <3>2. At(At(m) + one) = At(m + one) /\ At(At(m) + two) = At(m + two)
      BY <3>1, AtPlus
    <3> QED BY <3>1, <3>2 DEF m, one, two
  <2>4. /\ page[frame.at] = Number(p \div Base) /\ page[At(frame.at - 1)] = Number(p % Base)
        /\ page[At(frame.at - 2)] = Packed(f \cup {"constant"} \cup (IF b THEN {"break"} ELSE {}))
    BY <1>3, <1>4, <1>10, Fields DEF Holds
  <2>5. (p % Base) + Base * (p \div Base) = p
    BY <2>1, Words
  <2>6. Pull8(sp) = Packed(f \cup {"constant"} \cup (IF b THEN {"break"} ELSE {}))
    BY <2>2, <2>4 DEF Pull8
  <2>7. Pull16(At(sp + 1)) = p
    BY <2>2, <2>3, <2>4, <2>5 DEF Pull16, Number
  <2> QED BY <2>6, <2>7
<1>11. field \in DOMAIN Top
  BY DEF Pulls
<1> QED BY <1>3, <1>7, <1>8, <1>9, <1>10, <1>11

\* A pull by its field: which kind of frame it takes.
LEMMA PulledKind ==
  ASSUME NEW what \in Saved
  PROVE  /\ "returnTo" \in DOMAIN what => \E r \in Address : what = [returnTo |-> r]
         /\ "a" \in DOMAIN what => \E v \in Bytes : what = [a |-> v]
         /\ "flags" \in DOMAIN what /\ "brk" \notin DOMAIN what
              => \E f \in SUBSET Flags : what = [flags |-> f]
         /\ "brk" \in DOMAIN what
              => \E p \in Address, f \in SUBSET Flags, b \in BOOLEAN :
                   what = [pc |-> p, flags |-> f, brk |-> b]
BY Kinds, Fields

\* A pull leaves a stack like the others; what it takes off depends on the instruction.
LEMMA PullKeeps ==
  ASSUME IInv, NEW field, Pulls(field), pc' \in Address, a' \in Bytes, status' \in Statuses
  PROVE  IInv'
<1>1. TypeInv /\ Laid /\ StackHolds
  BY DEF IInv
<1>2. Laid' /\ sp' \in Pointer /\ frames' \in Seq(Frame) /\ depth' \in 0..PageSize
  BY <1>1, PullLaid
<1>3. page' = page
  BY DEF Pulls
<1>4. StackHolds'
  BY <1>1, PullHolds
<1> QED BY <1>1, <1>2, <1>3, <1>4 DEF IInv, TypeInv

LEMMA RtsBack ==
  ASSUME IInv, Rts
  PROVE  \E r \in Address : Top = [returnTo |-> r] /\ pc' = r
<1>1. Pulls("returnTo")
  BY DEF Rts
<1>2. Top \in Saved /\ "returnTo" \in DOMAIN Top
  BY <1>1, Pulled
<1>3. PICK r \in Address : Top = [returnTo |-> r]
  BY <1>2, PulledKind
<1>4. Pull16(sp) = (r - 1) % Addresses
  BY <1>1, <1>3, Pulled
<1>5. pc' = r
  BY <1>4, BackAndForth DEF Rts
<1> QED BY <1>3, <1>5

LEMMA PlaBack ==
  ASSUME IInv, NEW flags \in SUBSET Flags, Pla(flags)
  PROVE  Top = [a |-> a'] /\ a' \in Bytes
<1>1. Pulls("a")
  BY DEF Pla
<1>2. Top \in Saved /\ "a" \in DOMAIN Top
  BY <1>1, Pulled
<1>3. PICK v \in Bytes : Top = [a |-> v]
  BY <1>2, PulledKind
<1>4. Pull8(sp) = Number(v)
  BY <1>1, <1>3, Pulled
<1>5. a' = v
  BY <1>4 DEF Pla, Number
<1> QED BY <1>3, <1>5

LEMMA PlpBack ==
  ASSUME IInv, Plp
  PROVE  Top = [flags |-> Own(status')] /\ status' \in Statuses
<1>1. Pulls("flags") /\ "brk" \notin DOMAIN Top
  BY DEF Plp
<1>2. Top \in Saved /\ "flags" \in DOMAIN Top
  BY <1>1, Pulled
<1>3. PICK f \in SUBSET Flags : Top = [flags |-> f]
  BY <1>1, <1>2, PulledKind
<1>4. Pull8(sp) = Packed(f \cup {"constant", "break"})
  BY <1>1, <1>3, Pulled
<1>5. status' = f \cup {"constant", "break"}
  BY <1>4 DEF Plp, Packed
<1>6. Own(status') = f /\ status' \in Statuses
  BY <1>5, StackAssumption DEF Own, Statuses
<1> QED BY <1>3, <1>6

LEMMA RtiBack ==
  ASSUME IInv, Rti
  PROVE  \E b \in BOOLEAN : /\ Top = [pc |-> pc', flags |-> Own(status'), brk |-> b]
                            /\ pc' \in Address /\ status' \in Statuses
<1>1. Pulls("brk")
  BY DEF Rti
<1>2. Top \in Saved /\ "brk" \in DOMAIN Top
  BY <1>1, Pulled
<1>3. PICK p \in Address, f \in SUBSET Flags, b \in BOOLEAN : Top = [pc |-> p, flags |-> f, brk |-> b]
  BY <1>2, PulledKind
<1>4. /\ Pull8(sp) = Packed(f \cup {"constant"} \cup (IF b THEN {"break"} ELSE {}))
      /\ Pull16(At(sp + 1)) = p
  BY <1>1, <1>3, Pulled
<1>5. pc' = p /\ status' = f \cup {"constant"}
  <2>1. Pull8(sp).flags = f \cup {"constant"} \cup (IF b THEN {"break"} ELSE {})
    BY <1>4 DEF Packed
  <2>2. status' = (Pull8(sp).flags \ {"break"}) \cup {"constant"} /\ pc' = Pull16(At(sp + 1))
    BY DEF Rti
  <2> QED BY <1>4, <2>1, <2>2, StackAssumption
<1>6. Own(status') = f /\ status' \in Statuses
  BY <1>5, StackAssumption DEF Own, Statuses
<1> QED BY <1>3, <1>5, <1>6

LEMMA InitHolds == Init => IInv
<1> SUFFICES ASSUME Init PROVE IInv
  OBVIOUS
<1>1. sp \in Pointer
  <2> DEFINE k == PageSize - 3
  <2>1. k \in Int
    BY Constants
  <2> HIDE DEF k
  <2> QED BY <2>1, AtPointer DEF Init, k
<1>2. TypeInv
  <2>1. Number(0) \in Cells /\ a \in Bytes
    BY CellsOK, Constants DEF Init, Bytes
  <2>2. status \in Statuses
    BY StackAssumption DEF Init, Statuses
  <2> QED BY <1>1, <2>1, <2>2, EmptySeq, Constants DEF Init, TypeInv
<1>3. Len(frames) = 0
  BY EmptySeq DEF Init
<1>4. Laid
  <2> DEFINE off == [i \in 1..1 |-> 0]
  <2>1. off \in [1..(Len(frames) + 1) -> 0..PageSize]
    BY <1>3, Constants
  <2>2. sp - depth = sp
    BY <1>1, Constants DEF Init, Pointer
  <2>3. Layout(sp, off)
    BY <1>1, <1>3, <2>2, AtOf DEF Layout, Init
  <2> HIDE DEF off
  <2> QED BY <1>1, <2>1, <2>3 DEF Laid
<1>5. StackHolds
  BY <1>3 DEF StackHolds
<1> QED BY <1>2, <1>4, <1>5 DEF IInv

\* What leaves the stack alone.
LEMMA StackAlone ==
  ASSUME IInv, UNCHANGED <<page, frames, depth, sp>>, pc' \in Address, a' \in Bytes, status' \in Statuses
  PROVE  IInv'
<1>1. TypeInv'
  BY DEF IInv, TypeInv
<1>2. Laid'
  BY DEF IInv, Laid, Layout
<1>3. StackHolds'
  BY DEF IInv, StackHolds, Holds
<1> QED BY <1>1, <1>2, <1>3 DEF IInv

\* TXS moves the pointer of an empty stack.
LEMMA TxsKeeps ==
  ASSUME IInv, NEW p \in Pointer, Txs(p)
  PROVE  IInv'
<1>1. TypeInv /\ Laid /\ frames = <<>> /\ frames' = <<>> /\ Len(frames) = 0
  BY EmptySeq DEF IInv, Txs
<1>2. TypeInv'
  BY <1>1, Next8Address DEF TypeInv, Txs, Fetched, Statuses
<1>3. PICK top \in Pointer, off \in [1..(Len(frames) + 1) -> 0..PageSize] : Layout(top, off)
  BY <1>1 DEF Laid
<1>4. Laid'
  <2>1. depth = 0 /\ depth' = 0
    BY <1>1, <1>3 DEF Layout, Txs
  <2>2. p - depth' = p /\ At(p) = p
    BY <2>1, AtOf, Constants DEF Pointer
  <2>3. Layout(p, off)'
    BY <1>1, <1>3, <2>1, <2>2 DEF Layout, Txs
  <2> QED BY <1>1, <2>3 DEF Laid
<1>5. StackHolds'
  BY <1>1 DEF StackHolds
<1> QED BY <1>2, <1>4, <1>5 DEF IInv

LEMMA StepKeeps == IInv /\ [Next]_vars => IInv'
<1> SUFFICES ASSUME IInv, [Next]_vars PROVE IInv'
  OBVIOUS
<1>1. TypeInv
  BY DEF IInv
<1>2. ASSUME NEW value \in Bytes, NEW flags \in SUBSET Flags, Compute(value, flags) PROVE IInv'
  <2>1. pc' \in Address /\ a' \in Bytes /\ status' \in Statuses
    BY <1>1, <1>2, Next8Address DEF Compute, TypeInv, Statuses
  <2> QED BY <1>2, <2>1, StackAlone DEF Compute
<1>3. ASSUME NEW target \in Address, Jmp(target) PROVE IInv'
  <2>1. pc' \in Address /\ a' \in Bytes /\ status' \in Statuses
    BY <1>1, <1>3 DEF Jmp, TypeInv, Fetched, Statuses
  <2> QED BY <1>3, <2>1, StackAlone DEF Jmp
<1>4. ASSUME NEW flags \in SUBSET Flags, Pla(flags) PROVE IInv'
  <2>1. pc' \in Address /\ status' \in Statuses
    BY <1>1, <1>4, Next8Address DEF Pla, TypeInv, Fetched, Statuses
  <2>2. a' \in Bytes
    BY <1>4, PlaBack
  <2> QED BY <1>4, <2>1, <2>2, PullKeeps DEF Pla
<1>5. CASE Rts
  <2>1. pc' \in Address /\ a' \in Bytes /\ status' \in Statuses
    BY <1>1, <1>5, RtsBack DEF Rts, TypeInv, Fetched, Statuses
  <2> QED BY <1>5, <2>1, PullKeeps DEF Rts
<1>6. CASE Plp
  <2>1. pc' \in Address /\ a' \in Bytes /\ status' \in Statuses
    BY <1>1, <1>6, PlpBack, Next8Address DEF Plp, TypeInv
  <2> QED BY <1>6, <2>1, PullKeeps DEF Plp
<1>7. CASE Rti
  <2>1. pc' \in Address /\ a' \in Bytes /\ status' \in Statuses
    BY <1>1, <1>7, RtiBack DEF Rti, TypeInv
  <2> QED BY <1>7, <2>1, PullKeeps DEF Rti
<1>8. CASE UNCHANGED vars
  BY <1>1, <1>8, StackAlone DEF vars, cpu, TypeInv
<1> QED
  BY <1>2, <1>3, <1>4, <1>5, <1>6, <1>7, <1>8, TxsKeeps, JsrKeeps, PhaKeeps, PhpKeeps, BrkKeeps,
     HardwareKeeps DEF Next, Nmi, Irq

LEMMA StackInv == Spec => []IInv
BY InitHolds, StepKeeps, PTL DEF Spec

\* Registers and the page hold bytes, and the frames on the stack take no more than the page.
THEOREM StackTypeCorrect == Spec => []TypeInv
<1>1. IInv => TypeInv
  BY DEF IInv
<1> QED BY <1>1, StackInv, PTL

\* The page holds every frame until it is pulled, wherever the pointer wraps (cpu.cpp
\* 24-47), and the status on the stack of a handler says whether BRK brought it there.
THEOREM StackHoldsAll == Spec => []StackHolds
<1>1. IInv => StackHolds
  BY DEF IInv
<1> QED BY <1>1, StackInv, PTL

-----------------------------------------------------------------------------
(* Each step of the stack is one of CallStack's. *)

SavedNow == [i \in DOMAIN frames |-> frames[i].what]

LEMMA SavedPush ==
  ASSUME IInv, NEW what \in Saved, Pushes(what)
  PROVE  SavedNow' = Append(SavedNow, what)
<1> DEFINE n   == Len(frames)
           new == [at |-> sp, what |-> what]
<1>1. /\ frames \in Seq(Frame) /\ n \in Nat /\ new \in Frame /\ frames' = Append(frames, new)
      /\ DOMAIN frames = 1..n
  BY LenProperties DEF IInv, TypeInv, Frame, Pushes
<1>2. /\ frames' \in Seq(Frame) /\ Len(frames') = n + 1 /\ DOMAIN frames' = 1..(n + 1)
      /\ \A i \in 1..n : frames'[i] = frames[i] /\ frames'[n + 1] = new
  BY <1>1, AppendProperties, LenProperties
<1>3. SavedNow \in Seq(Saved) /\ Len(SavedNow) = n
  <2>1. \A i \in 1..n : frames[i] \in Frame
    BY <1>1, ElementOfSeq
  <2>2. \A i \in 1..n : frames[i].what \in Saved
    BY <2>1 DEF Frame
  <2> QED BY <1>1, <2>2, IsASeq, LenProperties DEF SavedNow
<1>4. /\ Append(SavedNow, what) \in Seq(Saved) /\ Len(Append(SavedNow, what)) = n + 1
      /\ \A i \in 1..n : Append(SavedNow, what)[i] = SavedNow[i]
      /\ Append(SavedNow, what)[n + 1] = what
  BY <1>3, AppendProperties
<1>5. DOMAIN Append(SavedNow, what) = 1..(n + 1)
  BY <1>4, LenProperties
<1> QED BY <1>1, <1>2, <1>4, <1>5 DEF SavedNow

LEMMA SavedPull ==
  ASSUME IInv, NEW field, Pulls(field)
  PROVE  /\ SavedNow # <<>> /\ SavedNow[Len(SavedNow)] = Top
         /\ SavedNow' = SubSeq(SavedNow, 1, Len(SavedNow) - 1)
<1> DEFINE n == Len(frames)
<1>1. /\ TypeInv /\ Laid /\ frames \in Seq(Frame) /\ n \in Nat \ {0} /\ DOMAIN frames = 1..n
      /\ frames' \in Seq(Frame) /\ Len(frames') = n - 1 /\ DOMAIN frames' = 1..(n - 1)
      /\ \A i \in 1..(n - 1) : frames'[i] = frames[i]
  <2>1. TypeInv /\ Laid /\ frames \in Seq(Frame)
    BY DEF IInv, TypeInv
  <2>2. frames' \in Seq(Frame) /\ Len(frames') = n - 1 /\ n \in Nat \ {0}
        /\ \A i \in 1..(n - 1) : frames'[i] = frames[i]
    BY <2>1, PullLaid
  <2> QED BY <2>1, <2>2, LenProperties
<1>2. SavedNow \in Seq(Saved) /\ Len(SavedNow) = n /\ SavedNow[n] = Top /\ SavedNow # <<>>
  <2>1. \A i \in 1..n : frames[i] \in Frame
    BY <1>1, ElementOfSeq
  <2>2. \A i \in 1..n : frames[i].what \in Saved
    BY <2>1 DEF Frame
  <2>3. SavedNow \in Seq(Saved) /\ Len(SavedNow) = n
    BY <1>1, <2>2, IsASeq, LenProperties DEF SavedNow
  <2>4. SavedNow[n] = Top
    BY <1>1 DEF SavedNow, Top
  <2> QED BY <1>1, <2>3, <2>4, EmptySeq
<1>3. /\ SubSeq(SavedNow, 1, n - 1) \in Seq(Saved) /\ Len(SubSeq(SavedNow, 1, n - 1)) = n - 1
      /\ \A i \in 1..(n - 1) : SubSeq(SavedNow, 1, n - 1)[i] = SavedNow[i]
  BY <1>2, Shorter
<1>4. DOMAIN SubSeq(SavedNow, 1, n - 1) = 1..(n - 1)
  BY <1>3, LenProperties
<1>5. SavedNow' = SubSeq(SavedNow, 1, n - 1)
  BY <1>1, <1>3, <1>4 DEF SavedNow
<1> QED BY <1>2, <1>5

LEMMA InitMaps == Init => Program!Init
<1> SUFFICES ASSUME Init PROVE Program!Init
  OBVIOUS
<1>1. pc \in 0..(Addresses - 1) /\ a \in Bytes
  BY Constants DEF Init, Address, Bytes
<1>2. Own(status) \in SUBSET Flags
  BY StackAssumption DEF Init, Own
<1>3. [i \in DOMAIN frames |-> frames[i].what] = <<>>
  BY EmptySeq DEF Init
<1> QED BY <1>1, <1>2, <1>3 DEF Program!Init

LEMMA StepMaps == IInv /\ [Next]_vars => [Program!Next]_(Program!vars)
<1> SUFFICES ASSUME IInv, [Next]_vars PROVE Program!Next \/ UNCHANGED Program!vars
  OBVIOUS
<1>1. TypeInv /\ Own(Fetched) = Own(status)
  BY DEF IInv, Own, Fetched
<1>2. Address = 0..(Addresses - 1) /\ \A n : Next8(n) = Program!After(n)
  BY DEF Address, Next8, Program!After
<1>3. UNCHANGED SavedNow => Program!Next
  BY DEF SavedNow, Program!Next, Program!Compute
<1>4. ASSUME NEW value \in Bytes, NEW flags \in SUBSET Flags, Compute(value, flags) PROVE Program!Next
  BY <1>3, <1>4 DEF Compute, SavedNow
<1>5. ASSUME NEW target \in Address, Jmp(target) PROVE Program!Next
  BY <1>3, <1>5 DEF Jmp, SavedNow
<1>6. ASSUME NEW p \in Pointer, Txs(p) PROVE Program!Next
  BY <1>3, <1>6 DEF Txs, SavedNow
<1>7. ASSUME NEW target \in Address, Jsr(target) PROVE Program!Next
  <2> DEFINE what == [returnTo |-> Next8(3)]
  <2>1. what \in Saved
    BY <1>1, Next8Address DEF TypeInv, Saved
  <2>2. SavedNow' = Append(SavedNow, what)
    BY <1>7, <2>1, SavedPush DEF Jsr
  <2>3. Program!Call
    BY <1>1, <1>2, <1>7, <2>2 DEF Jsr, SavedNow, Program!Call, Program!Save
  <2> QED BY <2>3 DEF Program!Next
<1>8. CASE Pha
  <2> DEFINE what == [a |-> a]
  <2>1. what \in Saved
    BY <1>1 DEF TypeInv, Saved
  <2>2. SavedNow' = Append(SavedNow, what)
    BY <1>8, <2>1, SavedPush DEF Pha
  <2>3. Program!SaveA
    BY <1>1, <1>2, <1>8, <2>2 DEF Pha, SavedNow, Program!SaveA, Program!Save
  <2> QED BY <2>3 DEF Program!Next
<1>9. CASE Php
  <2> DEFINE what == [flags |-> Own(status)]
  <2>1. what \in Saved
    BY <1>1, OwnOK DEF TypeInv, Saved
  <2>2. SavedNow' = Append(SavedNow, what)
    BY <1>9, <2>1, SavedPush DEF Php
  <2>3. Program!SaveFlags
    BY <1>1, <1>2, <1>9, <2>2 DEF Php, SavedNow, Program!SaveFlags, Program!Save
  <2> QED BY <2>3 DEF Program!Next
<1>10. CASE Brk
  <2> DEFINE what == [pc |-> Next8(2), flags |-> Own(status), brk |-> TRUE]
  <2>1. what \in Saved
    BY <1>1, OwnOK, Next8Address DEF TypeInv, Saved
  <2>2. SavedNow' = Append(SavedNow, what)
    BY <1>10, <2>1, SavedPush DEF Brk, Enters
  <2>3. Own(status') = Own(status) \cup {"interrupt"}
    BY <1>10 DEF Brk, Own, Fetched
  <2>4. Program!Break
    BY <1>2, <1>10, <2>2, <2>3 DEF Brk, Enters, SavedNow, Program!Break, Program!Save, Program!Enter
  <2> QED BY <2>4 DEF Program!Next
<1>11. CASE Hardware
  <2> DEFINE what == [pc |-> pc, flags |-> Own(status), brk |-> FALSE]
  <2>1. what \in Saved
    BY <1>1, OwnOK DEF TypeInv, Saved
  <2>2. SavedNow' = Append(SavedNow, what)
    BY <1>11, <2>1, SavedPush DEF Hardware, Enters
  <2>3. Own(status') = Own(status) \cup {"interrupt"}
    BY <1>11 DEF Hardware, Own
  <2>4. Program!Interrupt
    BY <1>11, <2>2, <2>3 DEF Hardware, Enters, SavedNow, Program!Interrupt, Program!Save, Program!Enter
  <2> QED BY <2>4 DEF Program!Next
<1>12. CASE Rts
  <2>1. PICK r \in Address : Top = [returnTo |-> r] /\ pc' = r
    BY <1>12, RtsBack
  <2>2. SavedNow # <<>> /\ SavedNow[Len(SavedNow)] = Top /\ SavedNow' = SubSeq(SavedNow, 1, Len(SavedNow) - 1)
    BY <1>12, SavedPull DEF Rts
  <2>3. Program!Restored = Top
    BY <2>2 DEF Program!Restored, SavedNow
  <2>4. Top \in Program!Returns /\ Top.returnTo = pc'
    BY <2>1, <1>2 DEF Program!Returns
  <2>5. Program!Restores(Program!Returns)
    BY <2>2, <2>3, <2>4 DEF Program!Restores, Program!Restored, SavedNow
  <2>6. a' = a /\ Own(status') = Own(status)
    BY <1>1, <1>12 DEF Rts, Own, Fetched
  <2>7. Program!Return
    BY <2>3, <2>4, <2>5, <2>6 DEF Program!Return
  <2> QED BY <2>7 DEF Program!Next
<1>13. ASSUME NEW flags \in SUBSET Flags, Pla(flags) PROVE Program!Next
  <2>1. Top = [a |-> a'] /\ a' \in Bytes
    BY <1>13, PlaBack
  <2>2. SavedNow # <<>> /\ SavedNow[Len(SavedNow)] = Top /\ SavedNow' = SubSeq(SavedNow, 1, Len(SavedNow) - 1)
    BY <1>13, SavedPull DEF Pla
  <2>3. Program!Restored = Top
    BY <2>2 DEF Program!Restored, SavedNow
  <2>4. Top \in [a : Bytes] /\ Top.a = a'
    BY <2>1
  <2>5. Program!Restores([a : Bytes])
    BY <2>2, <2>3, <2>4 DEF Program!Restores, Program!Restored, SavedNow
  <2>6. pc' = Program!After(1)
    BY <1>2, <1>13 DEF Pla
  <2>7. Program!RestoreA
    BY <2>3, <2>4, <2>5, <2>6 DEF Program!RestoreA
  <2> QED BY <2>7 DEF Program!Next
<1>14. CASE Plp
  <2>1. Top = [flags |-> Own(status')] /\ Own(status') \in SUBSET Flags
    BY <1>14, PlpBack, OwnOK
  <2>2. SavedNow # <<>> /\ SavedNow[Len(SavedNow)] = Top /\ SavedNow' = SubSeq(SavedNow, 1, Len(SavedNow) - 1)
    BY <1>14, SavedPull DEF Plp
  <2>3. Program!Restored = Top
    BY <2>2 DEF Program!Restored, SavedNow
  <2>4. Top \in [flags : SUBSET Flags] /\ Top.flags = Own(status')
    BY <2>1
  <2>5. Program!Restores([flags : SUBSET Flags])
    BY <2>2, <2>3, <2>4 DEF Program!Restores, Program!Restored, SavedNow
  <2>6. pc' = Program!After(1) /\ a' = a
    BY <1>2, <1>14 DEF Plp
  <2>7. Program!RestoreFlags
    BY <2>3, <2>4, <2>5, <2>6 DEF Program!RestoreFlags
  <2> QED BY <2>7 DEF Program!Next
<1>15. CASE Rti
  <2>1. PICK b \in BOOLEAN : Top = [pc |-> pc', flags |-> Own(status'), brk |-> b]
                             /\ pc' \in Address /\ Own(status') \in SUBSET Flags
    BY <1>15, RtiBack, OwnOK
  <2>2. SavedNow # <<>> /\ SavedNow[Len(SavedNow)] = Top /\ SavedNow' = SubSeq(SavedNow, 1, Len(SavedNow) - 1)
    BY <1>15, SavedPull DEF Rti
  <2>3. Program!Restored = Top
    BY <2>2 DEF Program!Restored, SavedNow
  <2>4. Top \in Program!Contexts /\ Top.pc = pc' /\ Top.flags = Own(status')
    BY <2>1, <1>2 DEF Program!Contexts
  <2>5. Program!Restores(Program!Contexts)
    BY <2>2, <2>3, <2>4 DEF Program!Restores, Program!Restored, SavedNow
  <2>6. a' = a
    BY <1>15 DEF Rti
  <2>7. Program!Resume
    BY <2>3, <2>4, <2>5, <2>6 DEF Program!Resume
  <2> QED BY <2>7 DEF Program!Next
<1>16. CASE UNCHANGED vars
  BY <1>3, <1>16 DEF vars, SavedNow
<1> QED
  BY <1>4, <1>5, <1>6, <1>7, <1>8, <1>9, <1>10, <1>11, <1>12, <1>13, <1>14, <1>15, <1>16
     DEF Next, Nmi, Irq

\* Subroutines, interrupts and saved registers nest, for any page, addresses and flags:
\* the bytes on the wrapping stack stand for the list of what was saved.
THEOREM StackRefines == Spec => ImplementsCallStack
<1>1. Spec => Program!Init /\ [][Program!Next]_(Program!vars)
  BY InitMaps, StepMaps, StackInv, PTL DEF Spec
<1> QED BY <1>1 DEF ImplementsCallStack, Program!Spec
=============================================================================
