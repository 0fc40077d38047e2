--------------------------- MODULE Assembler_proofs ---------------------------
(* What the assembler accepts runs as it is written, whatever the program:     *)
(* the type invariant, the cycles of every instruction, and RunsAsWritten.     *)
(* The tables are compared case by case.  Of a pass, the invariant keeps the   *)
(* contexts it went through, one a line (Walk): what is true of each of them   *)
(* follows by an induction over the lines (Climb).  Pass 1 defines a symbol    *)
(* once, so what it has defined stays; pass 2 is then at the same addresses,   *)
(* and its bytes stay where they are laid.  So the CPU finds the code of the   *)
(* line the source is at, and goes where the source goes.                      *)
EXTENDS Assembler, SequenceTheorems, WellFoundedInduction, TLAPS

-----------------------------------------------------------------------------
(* The switch of cpu_exec. *)

LEMMA CaseShape ==
  \A k \in Cases : k = <<k[1], k[2], k[3]>> /\ k[1] \in Byte /\ k[2] # "none" /\ k[3] \in Modes
<1>1. \A k \in Switch00 : k = <<k[1], k[2], k[3]>> /\ k[1] \in Byte /\ k[2] # "none" /\ k[3] \in Modes
  BY DEF Switch00, Byte, Modes
<1>2. \A k \in Switch40 : k = <<k[1], k[2], k[3]>> /\ k[1] \in Byte /\ k[2] # "none" /\ k[3] \in Modes
  BY DEF Switch40, Byte, Modes
<1>3. \A k \in Switch80 : k = <<k[1], k[2], k[3]>> /\ k[1] \in Byte /\ k[2] # "none" /\ k[3] \in Modes
  BY DEF Switch80, Byte, Modes
<1>4. \A k \in SwitchC0 : k = <<k[1], k[2], k[3]>> /\ k[1] \in Byte /\ k[2] # "none" /\ k[3] \in Modes
  BY DEF SwitchC0, Byte, Modes
<1> QED BY <1>1, <1>2, <1>3, <1>4 DEF Cases

\* No opcode has two cases.
LEMMA CaseUnique ==
  ASSUME NEW k \in Cases, NEW l \in Cases, k[1] = l[1]
  PROVE  k = l
<1>1. CASE k \in Switch00
  BY <1>1 DEF Switch00, Switch40, Switch80, SwitchC0, Cases
<1>2. CASE k \in Switch40
  BY <1>2 DEF Switch00, Switch40, Switch80, SwitchC0, Cases
<1>3. CASE k \in Switch80
  BY <1>3 DEF Switch00, Switch40, Switch80, SwitchC0, Cases
<1>4. CASE k \in SwitchC0
  BY <1>4 DEF Switch00, Switch40, Switch80, SwitchC0, Cases
<1> QED BY <1>1, <1>2, <1>3, <1>4 DEF Cases

\* What a case executes.
LEMMA CaseExecuted ==
  ASSUME NEW k \in Cases
  PROVE  Executed[k[1]].name = k[2] /\ Executed[k[1]].mode = k[3]
<1> DEFINE op == k[1]
           found == {l \in Cases : l[1] = op}
           l == CHOOSE l \in found : TRUE
<1>1. op \in Byte /\ k \in found
  BY CaseShape
<1>2. l \in found
  BY <1>1, Zenon
<1>3. l = k
  BY <1>2, CaseUnique
<1>4. Executed[op] = IF found = {} THEN [name |-> "none", mode |-> "imp"]
                     ELSE [name |-> l[2], mode |-> l[3]]
  BY <1>1, Zenon DEF Executed
<1> HIDE DEF l, found, op
<1>5. Executed[op] = [name |-> k[2], mode |-> k[3]]
  BY <1>1, <1>3, <1>4, Zenon
<1> QED BY <1>5 DEF op

\* An opcode without a case executes nothing, whatever its length.
LEMMA NoCase ==
  ASSUME NEW op \in Byte, \A k \in Cases : k[1] # op
  PROVE  Executed[op] = [name |-> "none", mode |-> "imp"]
<1> DEFINE found == {l \in Cases : l[1] = op}
           l == CHOOSE l \in found : TRUE
<1>1. found = {}
  OBVIOUS
<1>2. Executed[op] = IF found = {} THEN [name |-> "none", mode |-> "imp"]
                     ELSE [name |-> l[2], mode |-> l[3]]
  BY Zenon DEF Executed
<1> HIDE DEF found
<1> QED BY <1>1, <1>2, Zenon

LEMMA ExecutedCase ==
  ASSUME NEW op \in Byte, Executed[op].name # "none"
  PROVE  \E k \in Cases : k[1] = op /\ k[2] = Executed[op].name /\ k[3] = Executed[op].mode
<1>1. PICK k \in Cases : k[1] = op
  <2>1. SUFFICES ASSUME \A k \in Cases : k[1] # op PROVE FALSE
    BY Zenon
  <2>2. Executed[op] = [name |-> "none", mode |-> "imp"]
    BY <2>1, NoCase
  <2> QED BY <2>2
<1> QED BY <1>1, CaseExecuted

-----------------------------------------------------------------------------
(* Cycles. *)

\* What an instruction costs whose index crosses no page.
Plain(k) == \A taken, far \in BOOLEAN :
  IF k[3] = "rel" THEN Ticks(k[1]) + BranchPenalty(taken, far) = BusCycles(k[2], k[3], FALSE, taken, far)
  ELSE Ticks(k[1]) = BusCycles(k[2], k[3], FALSE, taken, far)

LEMMA PlainCost == \A k \in Cases : Plain(k)
<1>1. \A k \in Switch00 : Plain(k)
  BY SMTT(60) DEF Plain, Switch00, Ticks, TickRows, BusCycles, BranchPenalty, Rmw, Stores
<1>2. \A k \in Switch40 : Plain(k)
  BY SMTT(60) DEF Plain, Switch40, Ticks, TickRows, BusCycles, BranchPenalty, Rmw, Stores
<1>3. \A k \in Switch80 : Plain(k)
  BY SMTT(60) DEF Plain, Switch80, Ticks, TickRows, BusCycles, BranchPenalty, Rmw, Stores
<1>4. \A k \in SwitchC0 : Plain(k)
  BY SMTT(60) DEF Plain, SwitchC0, Ticks, TickRows, BusCycles, BranchPenalty, Rmw, Stores
<1> QED BY <1>1, <1>2, <1>3, <1>4 DEF Cases

\* Only reads pay for the page their index crosses.
Pays(k) == k[1] \in PenaltyOps <=> k[3] \in {"absx", "absy", "indy"} /\ k[2] \notin Rmw \cup Stores

LEMMA PenaltyCost == \A k \in Cases : Pays(k)
<1>1. \A k \in Switch00 : Pays(k)
  BY DEF Pays, Switch00, PenaltyOps, Rmw, Stores
<1>2. \A k \in Switch40 : Pays(k)
  BY DEF Pays, Switch40, PenaltyOps, Rmw, Stores
<1>3. \A k \in Switch80 : Pays(k)
  BY DEF Pays, Switch80, PenaltyOps, Rmw, Stores
<1>4. \A k \in SwitchC0 : Pays(k)
  BY DEF Pays, SwitchC0, PenaltyOps, Rmw, Stores
<1> QED BY <1>1, <1>2, <1>3, <1>4 DEF Cases

\* A case's cycles are those of the bus.
LEMMA CostIs ==
  ASSUME NEW k \in Cases, NEW crossed \in BOOLEAN, NEW taken \in BOOLEAN, NEW far \in BOOLEAN, k[3] # "rel"
  PROVE  Ticks(k[1]) + Penalty(k[1], crossed) = BusCycles(k[2], k[3], crossed, taken, far)
<1>1. Ticks(k[1]) = BusCycles(k[2], k[3], FALSE, taken, far)
  BY PlainCost DEF Plain
<1>2. k[1] \in PenaltyOps <=> k[3] \in {"absx", "absy", "indy"} /\ k[2] \notin Rmw \cup Stores
  BY PenaltyCost DEF Pays
<1>3. k[3] \in Modes
  BY CaseShape
<1> QED BY <1>1, <1>2, <1>3 DEF Penalty, BusCycles, Modes

-----------------------------------------------------------------------------
(* The table the assembler reads. *)

\* An entry of the table: the switch executes it as what the table calls it, and the two
\* agree on its length.
Agrees(m, n) ==
  LET op == Listed[m][n]
  IN  /\ op \in Byte
      /\ n # "NOP" => <<op, n, m>> \in Cases
      /\ n = "NOP" => op = \hEA /\ m = "imp"
      /\ Length(op) = IF n = "BRK" THEN 2 ELSE 1 + OperandBytes(m)

LEMMA EntriesAgree == \A m \in Modes : \A n \in DOMAIN Listed[m] : Agrees(m, n)
<1>1. \A n \in DOMAIN Listed["imp"] : Agrees("imp", n)
  BY SMTT(60) DEF Agrees, Listed, Cases, Switch00, Switch40, Switch80, SwitchC0,
               Byte, Length, LengthRows, OperandBytes
<1>2. \A n \in DOMAIN Listed["acc"] : Agrees("acc", n)
  BY SMTT(60) DEF Agrees, Listed, Cases, Switch00, Switch40, Switch80, SwitchC0,
               Byte, Length, LengthRows, OperandBytes
<1>3. \A n \in DOMAIN Listed["imm"] : Agrees("imm", n)
  BY SMTT(60) DEF Agrees, Listed, Cases, Switch00, Switch40, Switch80, SwitchC0,
               Byte, Length, LengthRows, OperandBytes
<1>4. \A n \in DOMAIN Listed["zp"] : Agrees("zp", n)
  BY SMTT(60) DEF Agrees, Listed, Cases, Switch00, Switch40, Switch80, SwitchC0,
               Byte, Length, LengthRows, OperandBytes
<1>5. \A n \in DOMAIN Listed["zpx"] : Agrees("zpx", n)
  BY SMTT(60) DEF Agrees, Listed, Cases, Switch00, Switch40, Switch80, SwitchC0,
               Byte, Length, LengthRows, OperandBytes
<1>6. \A n \in DOMAIN Listed["zpy"] : Agrees("zpy", n)
  BY SMTT(60) DEF Agrees, Listed, Cases, Switch00, Switch40, Switch80, SwitchC0,
               Byte, Length, LengthRows, OperandBytes
<1>7. \A n \in DOMAIN Listed["abs"] : Agrees("abs", n)
  BY SMTT(60) DEF Agrees, Listed, Cases, Switch00, Switch40, Switch80, SwitchC0,
               Byte, Length, LengthRows, OperandBytes
<1>8. \A n \in DOMAIN Listed["absx"] : Agrees("absx", n)
  BY SMTT(60) DEF Agrees, Listed, Cases, Switch00, Switch40, Switch80, SwitchC0,
               Byte, Length, LengthRows, OperandBytes
<1>9. \A n \in DOMAIN Listed["absy"] : Agrees("absy", n)
  BY SMTT(60) DEF Agrees, Listed, Cases, Switch00, Switch40, Switch80, SwitchC0,
               Byte, Length, LengthRows, OperandBytes
<1>10. \A n \in DOMAIN Listed["ind"] : Agrees("ind", n)
  BY SMTT(60) DEF Agrees, Listed, Cases, Switch00, Switch40, Switch80, SwitchC0,
               Byte, Length, LengthRows, OperandBytes
<1>11. \A n \in DOMAIN Listed["indx"] : Agrees("indx", n)
  BY SMTT(60) DEF Agrees, Listed, Cases, Switch00, Switch40, Switch80, SwitchC0,
               Byte, Length, LengthRows, OperandBytes
<1>12. \A n \in DOMAIN Listed["indy"] : Agrees("indy", n)
  BY SMTT(60) DEF Agrees, Listed, Cases, Switch00, Switch40, Switch80, SwitchC0,
               Byte, Length, LengthRows, OperandBytes
<1>13. \A n \in DOMAIN Listed["rel"] : Agrees("rel", n)
  BY SMTT(60) DEF Agrees, Listed, Cases, Switch00, Switch40, Switch80, SwitchC0,
               Byte, Length, LengthRows, OperandBytes
<1> QED BY <1>1, <1>2, <1>3, <1>4, <1>5, <1>6, <1>7, <1>8, <1>9, <1>10, <1>11, <1>12, <1>13 DEF Modes

-----------------------------------------------------------------------------
(* Contexts. *)

Lines     == Opener \cup Statement
Names     == {s.name : s \in {t \in Lines : t.is \in {"label", "equate"}}}
Addresses == 0..(Space - 1)
Symbols   == UNION {[D -> Addresses] : D \in SUBSET Names}
Context   == [symbols : Symbols, addr : Addresses, origin : Addresses, started : BOOLEAN,
              wrapped : BOOLEAN, final : BOOLEAN, bytes : Seq(Byte), ok : BOOLEAN]

LEMMA NamesAre == NoSymbol \notin Names /\ Here \notin Names
BY ProgramAssumption DEF Names, Lines, Named

LEMMA SymbolsAre ==
  ASSUME NEW f \in Symbols
  PROVE  /\ f = [s \in DOMAIN f |-> f[s]]
         /\ DOMAIN f \subseteq Names
         /\ \A s \in DOMAIN f : f[s] \in Addresses
BY DEF Symbols

LEMMA SymbolsDefine ==
  ASSUME NEW f \in Symbols, NEW n \in Names, NEW v \in Addresses
  PROVE  [s \in DOMAIN f \cup {n} |-> IF s = n THEN v ELSE f[s]] \in Symbols
<1> DEFINE D == DOMAIN f \cup {n}
           g == [s \in D |-> IF s = n THEN v ELSE f[s]]
<1>1. D \in SUBSET Names
  BY SymbolsAre
<1>2. g \in [D -> Addresses]
  BY SymbolsAre
<1> HIDE DEF g, D
<1>3. g \in Symbols
  BY <1>1, <1>2 DEF Symbols
<1> QED BY <1>3 DEF g, D

LEMMA UpTo == ASSUME NEW n \in Int PROVE /\ \A v \in 0..n : v \in Int /\ 0 <= v /\ v <= n
      /\ \A v \in Int : 0 <= v /\ v <= n => v \in 0..n
OBVIOUS

LEMMA Below == ASSUME NEW n \in Int, NEW s \in Int, n = s - 1 PROVE /\ \A v \in Int : v <= n <=> v < s
OBVIOUS

LEMMA AddressesAre ==
  /\ \A v \in Addresses : v \in Int /\ 0 <= v /\ v < Space
  /\ \A v \in Int : 0 <= v /\ v < Space => v \in Addresses
<1> DEFINE top == Space - 1
<1>1. top \in Int /\ Space \in Int /\ Space = 65536
  BY DEF Space
<1>2. top = Space - 1 /\ Addresses = 0..top
  BY DEF Addresses
<1> HIDE DEF top
<1>3. /\ \A v \in Addresses : v \in Int /\ 0 <= v /\ v <= top
      /\ \A v \in Int : 0 <= v /\ v <= top => v \in Addresses
  <2>1. top \in Int /\ Addresses = 0..top
    BY <1>1, <1>2
  <2> QED BY <2>1, UpTo
<1>4. \A v \in Int : v <= top <=> v < Space
  <2>1. top \in Int /\ Space \in Int /\ top = Space - 1
    BY <1>1, <1>2
  <2> QED BY <2>1, Below
<1> QED BY <1>3, <1>4, Zenon

LEMMA Wraps == ASSUME NEW v \in Int PROVE v % Space \in Addresses /\ (v \in Addresses => v % Space = v)
<1>1. v % Space \in Int /\ 0 <= v % Space /\ v % Space < Space
  BY DEF Space
<1>2. 0 <= v /\ v < Space => v % Space = v
  BY DEF Space
<1> QED BY <1>1, <1>2, AddressesAre

LEMMA ContextIs ==
  ASSUME NEW x \in Context
  PROVE  /\ x.symbols \in Symbols /\ x.bytes \in Seq(Byte)
         /\ x.addr \in Int /\ 0 <= x.addr /\ x.addr < Space
         /\ x.origin \in Int /\ 0 <= x.origin /\ x.origin < Space
         /\ x.started \in BOOLEAN /\ x.wrapped \in BOOLEAN /\ x.final \in BOOLEAN /\ x.ok \in BOOLEAN
<1>1. x.addr \in Addresses /\ x.origin \in Addresses
  BY DEF Context
<1>2. /\ x.symbols \in Symbols /\ x.bytes \in Seq(Byte)
      /\ x.started \in BOOLEAN /\ x.wrapped \in BOOLEAN /\ x.final \in BOOLEAN /\ x.ok \in BOOLEAN
  BY DEF Context
<1> QED BY <1>1, <1>2, AddressesAre

LEMMA Remainders ==
  ASSUME NEW v \in Int
  PROVE  /\ v % 256 \in Byte /\ v % 256 \in Addresses /\ v % Space \in Addresses
         /\ (v \div 256) % 256 \in Addresses
         /\ v \in Addresses => v \div 256 \in Byte /\ v % Space = v
         /\ v \div 256 \in Int
<1>1. v % 256 \in 0..255 /\ (v \div 256) % 256 \in 0..255 /\ v \div 256 \in Int
  OBVIOUS
<1>2. 0 <= v /\ v < Space => v \div 256 \in 0..255
  BY DEF Space
<1>3. \A w \in 0..255 : w \in Byte /\ w \in Addresses
  <2>1. \A w \in 0..255 : w \in Int /\ 0 <= w /\ w < Space
    BY DEF Space
  <2> QED BY <2>1, AddressesAre DEF Byte
<1> QED BY <1>1, <1>2, <1>3, Wraps, AddressesAre

LEMMA PartRange ==
  ASSUME NEW v \in Int, NEW part
  PROVE  Part(part, v) \in Addresses
<1>1. v % 256 \in Addresses /\ v % Space \in Addresses /\ (v \div 256) % 256 \in Addresses
  BY Remainders
<1>2. Part(part, v) = IF part = "low" THEN v % 256 ELSE IF part = "high" THEN (v \div 256) % 256 ELSE v % Space
  BY DEF Part
<1> DEFINE low == v % 256
           high == (v \div 256) % 256
           whole == v % Space
<1> HIDE DEF low, high, whole
<1>3. low \in Addresses /\ high \in Addresses /\ whole \in Addresses
  BY <1>1 DEF low, high, whole
<1>4. Part(part, v) = IF part = "low" THEN low ELSE IF part = "high" THEN high ELSE whole
  BY <1>2 DEF low, high, whole
<1> HIDE DEF Part
<1> QED BY <1>3, <1>4

LEMMA TermRange ==
  ASSUME NEW x \in Context, NEW e
  PROVE  Term(x, e) \in Int
<1>1. x.symbols \in Symbols /\ x.addr \in Int
  BY ContextIs
<1>2. \A s \in DOMAIN x.symbols : x.symbols[s] \in Int
  BY <1>1, SymbolsAre, AddressesAre
<1> QED BY <1>1, <1>2 DEF Term

LEMMA ValueRange ==
  ASSUME NEW x \in Context, NEW e, Written(e)
  PROVE  /\ Value(x, e) \in Addresses /\ Value(x, e) % 256 \in Byte /\ Value(x, e) \div 256 \in Byte
         /\ Value(x, e) \in Int /\ 0 <= Value(x, e) /\ Value(x, e) < Space
<1> DEFINE w == Term(x, e) + e.add
           v == Value(x, e)
<1>1. w \in Int
  BY TermRange DEF Written
<1>2. v = Part(e.part, w)
  BY DEF Value
<1> HIDE DEF w, v
<1>3. v \in Addresses
  BY <1>1, <1>2, PartRange
<1>4. v \in Int /\ 0 <= v /\ v < Space
  BY <1>3, AddressesAre
<1>5. v % 256 \in Byte /\ v \div 256 \in Byte
  BY <1>3, <1>4, Remainders
<1> QED BY <1>3, <1>4, <1>5 DEF v

\* What an instruction emits.
Code(x, n, m, e) == <<Listed[m][n]>> \o Operand(x, n, m, e)

LEMMA OffsetRange ==
  ASSUME NEW x \in Context, NEW e, Written(e)
  PROVE  Offset(x, e) \in Int /\ Offset(x, e) % 256 \in Byte
<1>1. Value(x, e) \in Int /\ x.addr \in Int
  BY ValueRange, ContextIs
<1>2. Offset(x, e) \in Int
  BY <1>1 DEF Offset
<1> HIDE DEF Offset
<1> QED BY <1>2, Remainders

LEMMA One ==
  ASSUME NEW S, NEW a \in S
  PROVE  /\ <<a>> \o <<>> \in Seq(S) /\ Len(<<a>> \o <<>>) = 1 /\ (<<a>> \o <<>>)[1] = a
OBVIOUS

LEMMA Two ==
  ASSUME NEW S, NEW a \in S, NEW b \in S
  PROVE  /\ <<a>> \o <<b>> \in Seq(S) /\ Len(<<a>> \o <<b>>) = 2
         /\ (<<a>> \o <<b>>)[1] = a /\ (<<a>> \o <<b>>)[2] = b
<1> DEFINE s == <<a>>
           t == <<b>>
<1>1. s \in Seq(S) /\ t \in Seq(S) /\ Len(s) = 1 /\ Len(t) = 1 /\ s[1] = a /\ t[1] = b
  OBVIOUS
<1> HIDE DEF s, t
<1>2. s \o t \in Seq(S) /\ Len(s \o t) = 2 /\ (s \o t)[1] = a /\ (s \o t)[2] = b
  BY <1>1, ConcatProperties
<1> QED BY <1>2 DEF s, t

LEMMA Three ==
  ASSUME NEW S, NEW a \in S, NEW b \in S, NEW d \in S
  PROVE  /\ <<a>> \o <<b, d>> \in Seq(S) /\ Len(<<a>> \o <<b, d>>) = 3
         /\ (<<a>> \o <<b, d>>)[1] = a /\ (<<a>> \o <<b, d>>)[2] = b /\ (<<a>> \o <<b, d>>)[3] = d
<1> DEFINE s == <<a>>
           t == <<b, d>>
<1>1. /\ s \in Seq(S) /\ t \in Seq(S) /\ Len(s) = 1 /\ Len(t) = 2
      /\ s[1] = a /\ t[1] = b /\ t[2] = d
  OBVIOUS
<1> HIDE DEF s, t
<1>2. s \o t \in Seq(S) /\ Len(s \o t) = 3 /\ (s \o t)[1] = a /\ (s \o t)[2] = b /\ (s \o t)[3] = d
  BY <1>1, ConcatProperties
<1> QED BY <1>2 DEF s, t

LEMMA CodeIs ==
  ASSUME NEW x \in Context, NEW e, Written(e), NEW m \in Modes, NEW n, Has(n, m)
  PROVE  /\ Code(x, n, m, e) \in Seq(Byte)
         /\ Len(Code(x, n, m, e)) = Length(Listed[m][n])
         /\ Len(Code(x, n, m, e)) \in {1, 2, 3}
         /\ Code(x, n, m, e)[1] = Listed[m][n]
         /\ m = "rel" => Code(x, n, m, e)[2] = Offset(x, e) % 256
         /\ OperandBytes(m) = 2 => /\ Code(x, n, m, e)[2] = Value(x, e) % 256
                                   /\ Code(x, n, m, e)[3] = Value(x, e) \div 256
         /\ m \in {"imm", "zp", "zpx", "zpy", "indx", "indy"} => Code(x, n, m, e)[2] = Value(x, e) % 256
<1> DEFINE op == Listed[m][n]
           lo == Value(x, e) % 256
           hi == Value(x, e) \div 256
           off == Offset(x, e) % 256
           z == 0
           code == Code(x, n, m, e)
<1>1. op \in Byte /\ Length(op) = IF n = "BRK" THEN 2 ELSE 1 + OperandBytes(m)
  BY EntriesAgree DEF Has, Agrees
<1>2. lo \in Byte /\ hi \in Byte /\ off \in Byte /\ z \in Byte
  BY ValueRange, OffsetRange DEF Byte
<1>3. n = "BRK" => m = "imp"
  BY DEF Has, Listed, Modes
<1>4. code = <<op>> \o Operand(x, n, m, e)
  BY Zenon DEF Code
<1>5. /\ m \in {"abs", "absx", "absy", "ind"} => Operand(x, n, m, e) = <<lo, hi>> /\ OperandBytes(m) = 2
      /\ m = "rel" => Operand(x, n, m, e) = <<off>> /\ OperandBytes(m) = 1
      /\ m = "acc" \/ (m = "imp" /\ n # "BRK") => Operand(x, n, m, e) = <<>> /\ OperandBytes(m) = 0
      /\ m = "imp" /\ n = "BRK" => Operand(x, n, m, e) = <<z>> /\ OperandBytes(m) = 0
      /\ m \in {"imm", "zp", "zpx", "zpy", "indx", "indy"} => Operand(x, n, m, e) = <<lo>> /\ OperandBytes(m) = 1
  <2> HIDE DEF lo, hi, off
  <2>1. /\ m \in {"abs", "absx", "absy", "ind"} => Operand(x, n, m, e) = <<lo, hi>>
        /\ m = "rel" => Operand(x, n, m, e) = <<off>>
        /\ m = "acc" \/ (m = "imp" /\ n # "BRK") => Operand(x, n, m, e) = <<>>
        /\ m = "imp" /\ n = "BRK" => Operand(x, n, m, e) = <<z>>
        /\ m \in {"imm", "zp", "zpx", "zpy", "indx", "indy"} => Operand(x, n, m, e) = <<lo>>
    BY DEF Operand, lo, hi, off
  <2>2. OperandBytes(m) = IF m \in {"abs", "absx", "absy", "ind"} THEN 2
                          ELSE IF m \in {"imp", "acc"} THEN 0 ELSE 1
    BY DEF OperandBytes, Modes
  <2> QED BY <2>1, <2>2
<1> HIDE DEF op, lo, hi, off, z, code
<1>a. m \in {"abs", "absx", "absy", "ind", "rel", "acc", "imp", "imm", "zp", "zpx", "zpy", "indx", "indy"}
  BY DEF Modes
<1> SUFFICES /\ code \in Seq(Byte) /\ Len(code) = Length(op) /\ Len(code) \in {1, 2, 3} /\ code[1] = op
             /\ m = "rel" => code[2] = off
             /\ OperandBytes(m) = 2 => code[2] = lo /\ code[3] = hi
             /\ m \in {"imm", "zp", "zpx", "zpy", "indx", "indy"} => code[2] = lo
  BY DEF op, lo, hi, off, code
<1>6. CASE m \in {"abs", "absx", "absy", "ind"}
  BY <1>1, <1>2, <1>3, <1>4, <1>5, <1>6, Three
<1>7. CASE m = "rel"
  BY <1>1, <1>2, <1>3, <1>4, <1>5, <1>7, Two
<1>8. CASE m = "acc" \/ (m = "imp" /\ n # "BRK")
  <2>1. code = <<op>> \o <<>> /\ OperandBytes(m) = 0
    BY <1>4, <1>5, <1>8
  <2>2. code \in Seq(Byte) /\ Len(code) = 1 /\ code[1] = op
    BY <1>1, <2>1, One
  <2> QED BY <1>1, <1>3, <1>8, <2>1, <2>2
<1>9. CASE m = "imp" /\ n = "BRK"
  BY <1>1, <1>2, <1>3, <1>4, <1>5, <1>9, Two
<1>10. CASE m \in {"imm", "zp", "zpx", "zpy", "indx", "indy"}
  BY <1>1, <1>2, <1>3, <1>4, <1>5, <1>10, Two
<1> QED BY <1>6, <1>7, <1>8, <1>9, <1>10, <1>a

LEMMA ModeIs ==
  ASSUME NEW x, NEW n, NEW class \in Classes, NEW e
  PROVE  ModeOf(x, n, class, e) \in Modes
BY DEF ModeOf, Modes, Classes

\* Emitting byte by byte comes to this.
LEMMA FailedIs ==
  ASSUME NEW x \in Context
  PROVE  Failed(x) \in Context /\ Failed(x).ok = FALSE /\ Failed(x).final = x.final
BY DEF Failed, Context

\* What emitting some bytes does.
Grown(x, b, y) ==
  /\ ~x.wrapped /\ x.addr + Len(b) <= Space
  /\ y.addr = (x.addr + Len(b)) % Space
  /\ y.wrapped = (x.addr + Len(b) = Space)
  /\ y.origin = IF x.started THEN x.origin ELSE x.addr
  /\ y.started = TRUE
  /\ y.bytes = IF x.final THEN x.bytes \o b ELSE x.bytes
  /\ y.symbols = x.symbols /\ y.final = x.final /\ y.ok = x.ok

LEMMA EmitIs ==
  ASSUME NEW x \in Context, NEW b \in Seq(Byte)
  PROVE  /\ Emit(x, b) \in Context /\ Emit(x, b).final = x.final
         /\ Emit(x, b).ok => /\ b = <<>> => Emit(x, b) = x
                             /\ b # <<>> => Grown(x, b, Emit(x, b))
<1> DEFINE l == Len(b)
           joined == x.bytes \o b
           full == x.wrapped \/ x.addr + l > Space
           to == x.addr + l
           next == to % Space
           ends == (to = Space)
           y == [x EXCEPT !.addr = next, !.wrapped = ends, !.origin = IF x.started THEN @ ELSE x.addr,
                          !.started = TRUE, !.bytes = IF x.final THEN joined ELSE @]
<1>1. Emit(x, b) = IF b = <<>> THEN x ELSE IF full THEN Failed(x) ELSE y
  BY DEF Emit
<1>2. to \in Int /\ next \in Addresses /\ ends \in BOOLEAN
  <2>1. to \in Int
    BY ContextIs
  <2> HIDE DEF to
  <2> QED BY <2>1, Remainders
<1>3. joined \in Seq(Byte)
  BY ContextIs
<1>4. b # <<>> /\ ~full => Grown(x, b, y)
  <2> HIDE DEF joined, next, ends, full
  <2>1. /\ y.addr = next /\ y.wrapped = ends /\ y.origin = (IF x.started THEN x.origin ELSE x.addr)
        /\ y.started = TRUE /\ y.bytes = (IF x.final THEN joined ELSE x.bytes)
        /\ y.symbols = x.symbols /\ y.final = x.final /\ y.ok = x.ok
    BY DEF Context
  <2>2. ~full => ~x.wrapped /\ x.addr + l <= Space
    BY ContextIs DEF full, Space
  <2> HIDE DEF y
  <2> QED BY <2>1, <2>2 DEF Grown, joined, next, ends
<1>5. y \in Context /\ y.final = x.final
  <2> HIDE DEF joined, next, ends, full
  <2> QED BY <1>2, <1>3 DEF Context
<1> HIDE DEF y, full
<1>6. CASE b = <<>>
  BY <1>1, <1>6
<1>7. CASE b # <<>> /\ full
  BY <1>1, <1>7, FailedIs
<1>8. CASE b # <<>> /\ ~full
  BY <1>1, <1>4, <1>5, <1>8
<1> QED BY <1>6, <1>7, <1>8

-----------------------------------------------------------------------------
(* What a line does to a context. *)

LEMMA LinesAre ==
  ASSUME NEW s \in Lines
  PROVE  /\ s.is \in {"label", "equate", "org", "byte", "word", "instruction"}
         /\ s.is \in {"label", "equate"} => s.name \in Names /\ s.name \notin {NoSymbol, Here}
         /\ s.is # "label" => Written(s.expr)
         /\ s.is = "instruction" => s.class \in Classes
<1>1. \/ s.is = "label" /\ Named(s)
      \/ s.is = "equate" /\ Named(s) /\ Written(s.expr)
      \/ s.is \in {"org", "byte", "word"} /\ Written(s.expr)
      \/ s.is = "instruction" /\ s.class \in Classes /\ Written(s.expr)
  BY ProgramAssumption DEF Lines
<1>2. s.is \in {"label", "equate"} => s.name \in Names
  BY DEF Names
<1> QED BY <1>1, <1>2 DEF Named

\* A line that places nothing.
Same(x, y) ==
  /\ y.addr = x.addr /\ y.origin = x.origin /\ y.started = x.started /\ y.wrapped = x.wrapped
  /\ y.bytes = x.bytes /\ y.final = x.final

LEMMA DefineIs ==
  ASSUME NEW x \in Context, NEW n \in Names, NEW v \in Addresses
  PROVE  /\ Define(x, n, v) \in Context /\ Same(x, Define(x, n, v)) /\ Define(x, n, v).ok = x.ok
         /\ Define(x, n, v).symbols = [t \in DOMAIN x.symbols \cup {n} |-> IF t = n THEN v ELSE x.symbols[t]]
         /\ DOMAIN Define(x, n, v).symbols = DOMAIN x.symbols \cup {n}
<1> DEFINE f == [t \in DOMAIN x.symbols \cup {n} |-> IF t = n THEN v ELSE x.symbols[t]]
<1>1. f \in Symbols
  BY ContextIs, SymbolsDefine
<1>2. Define(x, n, v) = [x EXCEPT !.symbols = f]
  BY DEF Define
<1> HIDE DEF f
<1>3. [x EXCEPT !.symbols = f] \in Context
  BY <1>1 DEF Context
<1>4. Same(x, [x EXCEPT !.symbols = f]) /\ [x EXCEPT !.symbols = f].ok = x.ok /\ [x EXCEPT !.symbols = f].symbols = f
  BY DEF Context, Same
<1>5. DOMAIN f = DOMAIN x.symbols \cup {n}
  BY DEF f
<1> QED BY <1>2, <1>3, <1>4, <1>5 DEF f

LEMMA ReadLabel ==
  ASSUME NEW x \in Context, NEW s \in Lines, s.is = "label"
  PROVE  /\ Read(x, s) \in Context /\ Read(x, s).final = x.final
         /\ Read(x, s).ok =>
              /\ Same(x, Read(x, s))
              /\ x.final => Read(x, s).symbols = x.symbols
              /\ ~x.final => /\ s.name \notin DOMAIN x.symbols
                             /\ Read(x, s) = Define(x, s.name, x.addr)
<1>1. Read(x, s) = Labelled(x, s.name)
  BY DEF Read
<1>2. s.name \in Names /\ x.addr \in Addresses
  BY LinesAre DEF Context
<1>3. Define(x, s.name, x.addr) \in Context /\ Same(x, Define(x, s.name, x.addr))
  BY <1>2, DefineIs
<1>4. CASE x.final
  BY <1>1, <1>4 DEF Labelled, Same
<1>5. CASE ~x.final /\ s.name \in DOMAIN x.symbols
  <2>1. Labelled(x, s.name) = Failed(x)
    BY <1>5 DEF Labelled
  <2> QED BY <1>1, <2>1, <1>5, FailedIs
<1>6. CASE ~x.final /\ s.name \notin DOMAIN x.symbols
  <2>1. Labelled(x, s.name) = Define(x, s.name, x.addr)
    BY <1>6 DEF Labelled
  <2> QED BY <1>1, <2>1, <1>3, <1>6 DEF Same
<1> QED BY <1>4, <1>5, <1>6

LEMMA ReadEquate ==
  ASSUME NEW x \in Context, NEW s \in Lines, s.is = "equate"
  PROVE  /\ Read(x, s) \in Context /\ Read(x, s).final = x.final
         /\ Read(x, s).ok =>
              /\ Same(x, Read(x, s)) /\ ~Fails(x, s.expr)
              /\ Read(x, s) = Define(x, s.name, Value(x, s.expr))
<1>1. Read(x, s) = IF Fails(x, s.expr) THEN Failed(x) ELSE Define(x, s.name, Value(x, s.expr))
  BY DEF Read
<1>2. s.name \in Names /\ Value(x, s.expr) \in Addresses
  BY LinesAre, ValueRange
<1>3. /\ Define(x, s.name, Value(x, s.expr)) \in Context
      /\ Same(x, Define(x, s.name, Value(x, s.expr)))
  BY <1>2, DefineIs
<1>4. CASE Fails(x, s.expr)
  BY <1>1, <1>4, FailedIs
<1>5. CASE ~Fails(x, s.expr)
  BY <1>1, <1>3, <1>5 DEF Same
<1> QED BY <1>4, <1>5

\* The first origin.
Placed(x, v, y) ==
  /\ ~x.started /\ y.addr = v /\ y.origin = x.origin /\ y.started = x.started
  /\ y.wrapped = x.wrapped /\ y.bytes = x.bytes /\ y.final = x.final /\ y.symbols = x.symbols

Zeros(n) == [i \in 1..n |-> 0]

LEMMA ZerosAre ==
  ASSUME NEW n \in Nat
  PROVE  Zeros(n) \in Seq(Byte) /\ Len(Zeros(n)) = n
<1>1. 0 \in Byte
  BY DEF Byte
<1> QED BY <1>1 DEF Zeros

LEMMA ReadOrg ==
  ASSUME NEW x \in Context, NEW s \in Lines, s.is = "org"
  PROVE  /\ Read(x, s) \in Context /\ Read(x, s).final = x.final
         /\ Read(x, s).ok =>
              /\ ~x.started => Placed(x, Value(x, s.expr), Read(x, s))
              /\ x.started => /\ Value(x, s.expr) >= x.addr
                              /\ Read(x, s) = Emit(x, Zeros(Value(x, s.expr) - x.addr))
<1> DEFINE v == Value(x, s.expr)
           gap == v - x.addr
<1>1. Read(x, s) = IF Fails(x, s.expr) THEN Failed(x) ELSE SetOrigin(x, v)
  BY DEF Read
<1>2. v \in Addresses /\ v \in Int /\ x.addr \in Int /\ gap \in Int
  BY LinesAre, ValueRange, ContextIs
<1> HIDE DEF v
<1>3. CASE Fails(x, s.expr)
  BY <1>1, <1>3, FailedIs
<1>4. CASE ~Fails(x, s.expr) /\ ~x.started
  <2>1. Read(x, s) = [x EXCEPT !.addr = v]
    BY <1>1, <1>4 DEF SetOrigin
  <2>2. [x EXCEPT !.addr = v] \in Context
    BY <1>2 DEF Context
  <2>3. Placed(x, v, [x EXCEPT !.addr = v])
    BY <1>4 DEF Context, Placed
  <2> QED BY <1>4, <2>1, <2>2, <2>3 DEF Placed, v
<1>5. CASE ~Fails(x, s.expr) /\ x.started /\ v < x.addr
  <2>1. Read(x, s) = Failed(x)
    BY <1>1, <1>5 DEF SetOrigin
  <2> QED BY <2>1, FailedIs
<1>6. CASE ~Fails(x, s.expr) /\ x.started /\ v >= x.addr
  <2>1. Read(x, s) = Emit(x, Zeros(gap))
    BY <1>1, <1>2, <1>6 DEF SetOrigin, Zeros
  <2>2. gap \in Nat
    BY <1>2, <1>6
  <2> HIDE DEF gap
  <2>3. Zeros(gap) \in Seq(Byte)
    BY <2>2, ZerosAre
  <2>4. Emit(x, Zeros(gap)) \in Context /\ Emit(x, Zeros(gap)).final = x.final
    BY <2>3, EmitIs
  <2> QED BY <1>6, <2>1, <2>4 DEF v, gap
<1> QED BY <1>2, <1>3, <1>4, <1>5, <1>6

LEMMA ReadData ==
  ASSUME NEW x \in Context, NEW s \in Lines, s.is \in {"byte", "word"}
  PROVE  /\ Read(x, s) \in Context /\ Read(x, s).final = x.final
         /\ Read(x, s).ok => \E b \in Seq(Byte) : /\ Len(b) = IF s.is = "byte" THEN 1 ELSE 2
                                                  /\ Read(x, s) = Emit(x, b)
<1> DEFINE lo == Value(x, s.expr) % 256
           hi == Value(x, s.expr) \div 256
           b == IF s.is = "byte" THEN <<lo>> ELSE <<lo, hi>>
<1>1. Read(x, s) = IF Fails(x, s.expr) THEN Failed(x) ELSE Emit(x, b)
  BY DEF Read
<1>2. lo \in Byte /\ hi \in Byte
  BY LinesAre, ValueRange
<1> HIDE DEF lo, hi
<1>3. b \in Seq(Byte) /\ Len(b) = IF s.is = "byte" THEN 1 ELSE 2
  BY <1>2
<1> HIDE DEF b
<1>4. Emit(x, b) \in Context /\ Emit(x, b).final = x.final
  BY <1>3, EmitIs
<1>5. CASE Fails(x, s.expr)
  BY <1>1, <1>5, FailedIs
<1>6. CASE ~Fails(x, s.expr)
  BY <1>1, <1>3, <1>4, <1>6
<1> QED BY <1>5, <1>6

\* The code of an instruction's line.
LineMode(x, s) == ModeOf(x, s.name, s.class, s.expr)
LineCode(x, s) == Code(x, s.name, LineMode(x, s), s.expr)

LEMMA ReadInstruction ==
  ASSUME NEW x \in Context, NEW s \in Lines, s.is = "instruction"
  PROVE  /\ Read(x, s) \in Context /\ Read(x, s).final = x.final
         /\ Read(x, s).ok =>
              /\ LineMode(x, s) \in Modes /\ Has(s.name, LineMode(x, s))
              /\ s.class \notin {"empty", "acc"} => ~Fails(x, s.expr)
              /\ x.final /\ LineMode(x, s) = "rel" => Offset(x, s.expr) \in -128..127
              /\ Read(x, s) = Emit(x, LineCode(x, s))
<1> DEFINE m == LineMode(x, s)
           fails == \/ ~Has(s.name, m)
                    \/ s.class \notin {"empty", "acc"} /\ Fails(x, s.expr)
                    \/ x.final /\ m = "rel" /\ Offset(x, s.expr) \notin -128..127
<1>1. Read(x, s) = IF fails THEN Failed(x) ELSE Emit(x, LineCode(x, s))
  BY DEF Read, Encode, LineCode, LineMode, Code
<1>2. s.class \in Classes /\ Written(s.expr)
  BY LinesAre
<1>3. m \in Modes
  BY <1>2, ModeIs DEF LineMode
<1>4. CASE fails
  <2>1. Read(x, s) = Failed(x)
    BY <1>1, <1>4
  <2> QED BY <2>1, FailedIs
<1>5. CASE ~fails
  <2>1. Read(x, s) = Emit(x, LineCode(x, s))
    BY <1>1, <1>5
  <2>2. LineCode(x, s) \in Seq(Byte)
    BY <1>2, <1>3, <1>5, CodeIs DEF LineCode
  <2>3. Emit(x, LineCode(x, s)) \in Context /\ Emit(x, LineCode(x, s)).final = x.final
    BY <2>2, EmitIs
  <2> HIDE DEF m
  <2> QED BY <1>3, <1>5, <2>1, <2>3 DEF m
<1> QED BY <1>4, <1>5

LEMMA ReadContext ==
  ASSUME NEW x \in Context, NEW s \in Lines
  PROVE  Read(x, s) \in Context /\ Read(x, s).final = x.final
BY LinesAre, ReadLabel, ReadEquate, ReadOrg, ReadData, ReadInstruction

LEMMA FreshContext ==
  ASSUME NEW f \in Symbols, NEW final \in BOOLEAN
  PROVE  Fresh(f, final) \in Context /\ Fresh(f, final).symbols = f /\ Fresh(f, final).final = final
<1>1. 49152 \in Addresses
  BY AddressesAre DEF Space
<1> QED BY <1>1 DEF Fresh, Context

LEMMA NoSymbolsAre == NoSymbols \in Symbols
<1>1. NoSymbols \in [{} -> Addresses]
  BY DEF NoSymbols
<1> QED BY <1>1 DEF Symbols

-----------------------------------------------------------------------------
(* Types, and cycles. *)

LEMMA LengthRange == \A op \in Byte : Length(op) \in 0..3
<1>1. \A i, j \in 1..16 : LengthRows[i][j] \in 0..3
  BY DEF LengthRows
<1>2. SUFFICES ASSUME NEW op \in Byte PROVE Length(op) \in 0..3
  OBVIOUS
<1> DEFINE i == op \div 16 + 1
           j == (op % 16) + 1
<1>3. i \in 1..16 /\ j \in 1..16
  BY DEF Byte
<1> HIDE DEF i, j
<1>4. LengthRows[i][j] \in 0..3
  BY <1>1, <1>3
<1> QED BY <1>4 DEF Length, i, j

\* The line a Lead finds emits an instruction, and those before it nothing.
LEMMA LeadIs ==
  ASSUME NEW i \in Nat \ {0}
  PROVE  \/ Lead(i) = 0
         \/ /\ Lead(i) \in i..Len(program) /\ IsInstruction(Lead(i))
            /\ \A k \in i..(Lead(i) - 1) : program[k].is \in {"label", "equate"}
<1> DEFINE reached == {j \in i..Len(program) :
                         /\ IsInstruction(j)
                         /\ \A k \in i..(j - 1) : program[k].is \in {"label", "equate"}}
           first == CHOOSE j \in reached : TRUE
<1>1. Lead(i) = IF reached = {} THEN 0 ELSE first
  BY DEF Lead
<1>2. reached # {} => first \in reached
  BY Zenon
<1> HIDE DEF first
<1>3. CASE reached = {}
  BY <1>1, <1>3
<1>4. CASE reached # {}
  BY <1>1, <1>2, <1>4
<1> QED BY <1>3, <1>4

\* The line a jump by label goes to.
LEMMA LineOfIs ==
  ASSUME NEW i, NEW e
  PROVE  \/ LineOf(i, e) = 0
         \/ /\ e.add = 0 /\ e.part = "whole"
            /\ \/ e.sym = Here /\ LineOf(i, e) = i
               \/ \E j \in DOMAIN program : /\ program[j].is = "label" /\ program[j].name = e.sym
                                            /\ e.sym # Here
                                            /\ LineOf(i, e) = Lead(j)
<1> DEFINE named == {j \in DOMAIN program : program[j].is = "label" /\ program[j].name = e.sym}
           first == CHOOSE j \in named : TRUE
<1>1. LineOf(i, e) = IF e.add # 0 \/ e.part # "whole" THEN 0
                     ELSE IF e.sym = Here THEN i
                     ELSE IF named = {} THEN 0 ELSE Lead(first)
  BY DEF LineOf
<1>2. named # {} => first \in named
  BY Zenon
<1> HIDE DEF first
<1> QED BY <1>1, <1>2

Typed ==
  /\ phase \in {"pass1", "pass2", "run", "done"}
  /\ program \in Seq(Lines)
  /\ line \in Nat /\ line <= Len(program)
  /\ phase \in {"pass1", "run"} => line = Len(program)
  /\ c \in Context
  /\ places \in Seq(Addresses) /\ Len(places) = line
  /\ pc \in Addresses
  /\ cursor \in Nat
  /\ phase = "run" => IsInstruction(cursor)

LEMMA AtRange ==
  ASSUME Typed, NEW p \in Int
  PROVE  At(p) \in Byte
<1>1. c.origin \in Int /\ c.bytes \in Seq(Byte)
  BY ContextIs DEF Typed
<1> DEFINE k == p - c.origin + 1
<1>2. InImage(p) => k \in 1..Len(c.bytes)
  BY <1>1 DEF InImage
<1>3. k \in 1..Len(c.bytes) => c.bytes[k] \in Byte
  BY <1>1
<1>4. At(p) = IF InImage(p) THEN c.bytes[k] ELSE 0
  BY DEF At
<1>5. 0 \in Byte
  BY DEF Byte
<1> HIDE DEF k
<1> QED BY <1>2, <1>3, <1>4, <1>5

LEMMA WordRange ==
  ASSUME Typed, NEW p \in Int
  PROVE  Word(p) \in Addresses
<1> DEFINE q == p + 1
           lo == At(p)
           hi == At(q)
<1>1. q \in Int
  OBVIOUS
<1> HIDE DEF q
<1>2. lo \in 0..255 /\ hi \in 0..255
  BY <1>1, AtRange DEF Byte
<1>3. Word(p) = lo + 256 * hi
  BY DEF Word, q
<1> HIDE DEF lo, hi
<1>4. lo + 256 * hi \in Int /\ 0 <= lo + 256 * hi /\ lo + 256 * hi < Space
  BY <1>2 DEF Space
<1> QED BY <1>3, <1>4, AddressesAre

LEMMA ExecutedRange ==
  ASSUME NEW op \in Byte
  PROVE  Executed[op].mode \in Modes /\ Consumed(op) \in 0..3
<1>1. CASE \A k \in Cases : k[1] # op
  <2>1. Executed[op] = [name |-> "none", mode |-> "imp"]
    BY <1>1, NoCase
  <2> QED BY <2>1, LengthRange DEF Modes, Consumed
<1>2. CASE \E k \in Cases : k[1] = op
  <2>1. Executed[op].mode \in Modes
    BY <1>2, CaseExecuted, CaseShape
  <2>2. OperandBytes(Executed[op].mode) \in 0..2
    BY <2>1 DEF OperandBytes, Modes
  <2>3. Length(op) \in 0..3
    BY LengthRange
  <2> QED BY <2>1, <2>2, <2>3 DEF Consumed
<1> QED BY <1>1, <1>2

\* A step of the CPU goes to an address, or ends.
LEMMA ContinuesTyped ==
  ASSUME Typed, NEW p \in Addresses, NEW i, NEW cycles,
         i = 0 \/ IsInstruction(i), Continues(p, i, cycles)
  PROVE  /\ phase' \in {"run", "done"} /\ pc' \in Addresses /\ cursor' \in Nat
         /\ phase' = "run" => IsInstruction(cursor')
<1>1. IsInstruction(i) => i \in Nat
  BY DEF IsInstruction, Typed
<1> QED BY <1>1 DEF Continues

LEMMA TypedInit == Init => Typed
<1>1. SUFFICES ASSUME Init PROVE Typed
  OBVIOUS
<1>2. c \in Context
  BY <1>1, NoSymbolsAre, FreshContext DEF Init
<1>3. 0 \in Addresses
  BY AddressesAre DEF Space
<1>4. <<>> \in Seq(Addresses) /\ <<>> \in Seq(Lines) /\ Len(<<>>) = 0
  OBVIOUS
<1>5. program = <<>> /\ places = <<>> /\ line = 0 /\ phase = "pass1" /\ pc = 0 /\ cursor = 0
  BY <1>1 DEF Init
<1> HIDE DEF Addresses, Lines
<1> QED BY <1>2, <1>3, <1>4, <1>5 DEF Typed

LEMMA TypedNext == Typed /\ [Next]_vars => Typed'
<1>1. SUFFICES ASSUME Typed, [Next]_vars PROVE Typed'
  OBVIOUS
<1> USE <1>1 DEF Typed
<1>2. ASSUME NEW s \in Lines, Takes(s) PROVE c' \in Context /\ places' \in Seq(Addresses) /\ Len(places') = line'
  <2>1. c' \in Context
    BY <1>2, ReadContext DEF Takes
  <2>2. c.addr \in Addresses
    BY DEF Context
  <2> QED BY <1>2, <2>1, <2>2 DEF Takes
<1>3. CASE Pass1
  <2>1. PICK s \in Lines : Takes(s) /\ program' = Append(program, s)
    BY <1>3 DEF Pass1, Lines
  <2>2. program' \in Seq(Lines) /\ Len(program') = Len(program) + 1
    BY <2>1
  <2> QED BY <1>2, <1>3, <2>1, <2>2 DEF Takes, Pass1
<1>4. CASE StartPass2
  <2>1. c' \in Context
    BY <1>4, ContextIs, FreshContext DEF StartPass2
  <2>2. <<>> \in Seq(Addresses) /\ Len(<<>>) = 0 /\ Len(program) \in Nat
    OBVIOUS
  <2>3. /\ phase' = "pass2" /\ line' = 0 /\ places' = <<>> /\ program' = program
        /\ pc' = pc /\ cursor' = cursor
    BY <1>4 DEF StartPass2
  <2> QED BY <2>1, <2>2, <2>3
<1>5. CASE Pass2
  <2>1. program[line + 1] \in Lines
    BY <1>5 DEF Pass2
  <2> QED BY <1>2, <1>5, <2>1 DEF Pass2, Takes
<1>6. CASE Run
  BY <1>6 DEF Run, IsInstruction
<1>7. CASE Execute
  <2>1. /\ program \in Seq(Lines) /\ cursor + 1 \in Nat \ {0} /\ pc \in Int /\ Op \in Byte
        /\ cursor \in DOMAIN program
    <3>1. pc \in Int
      BY AddressesAre
    <3> QED BY <1>7, <3>1, AtRange DEF Execute, Op, IsInstruction
  <2>2. \A n \in Nat \ {0} : Lead(n) = 0 \/ IsInstruction(Lead(n))
    BY LeadIs
  <2>3. \A e : LineOf(cursor, e) = 0 \/ IsInstruction(LineOf(cursor, e))
    BY <1>7, <2>2, LineOfIs DEF Execute
  <2>4. /\ phase' \in {"run", "done"} /\ pc' \in Addresses /\ cursor' \in Nat
        /\ phase' = "run" => IsInstruction(cursor')
    <3>1. ASSUME NEW taken \in BOOLEAN, Branch(taken) PROVE <2>4
      <4> DEFINE next == pc + 2
                 byte == At(pc + 1)
                 w == next + (IF byte < 128 THEN byte ELSE byte - 256)
                 target == w % Space
                 to == IF taken THEN target ELSE next % Space
                 i == IF taken THEN LineOf(cursor, program[cursor].expr) ELSE Lead(cursor + 1)
                 far == target \div 256 # (next % Space) \div 256
                 cycles == Cycles(Ticks(Op) + BranchPenalty(taken, far), taken, FALSE)
      <4>1. next \in Int /\ w \in Int
        <5>1. pc + 1 \in Int
          BY <2>1
        <5>2. byte \in Byte
          BY <5>1, AtRange
        <5> HIDE DEF byte
        <5>3. \A b \in Byte : b \in Int
          BY DEF Byte
        <5>4. byte \in Int
          BY <5>2, <5>3
        <5> QED BY <2>1, <5>4
      <4>2. to \in Addresses
        BY <4>1, Wraps
      <4>3. i = 0 \/ IsInstruction(i)
        BY <2>1, <2>2, <2>3
      <4>4. Continues(to, i, cycles)
        BY <3>1 DEF Branch
      <4> HIDE DEF to, i, cycles
      <4> QED BY <4>2, <4>3, <4>4, ContinuesTyped
    <3>2. CASE Jump
      <4> DEFINE to == Word(pc + 1)
                 i == LineOf(cursor, program[cursor].expr)
                 cycles == Cycles(Ticks(Op), TRUE, FALSE)
      <4>1. to \in Addresses
        <5>1. pc + 1 \in Int
          BY <2>1
        <5> QED BY <5>1, WordRange
      <4>2. i = 0 \/ IsInstruction(i)
        BY <2>3
      <4>3. Continues(to, i, cycles)
        BY <3>2 DEF Jump
      <4> HIDE DEF to, i, cycles
      <4> QED BY <4>1, <4>2, <4>3, ContinuesTyped
    <3>3. CASE Leave
      BY <3>3 DEF Leave, Continues
    <3>4. ASSUME NEW crossed \in BOOLEAN, Straight(crossed) PROVE <2>4
      <4> DEFINE w == pc + Consumed(Op)
                 to == w % Space
                 i == Lead(cursor + 1)
                 cycles == Cycles(Ticks(Op) + Penalty(Op, crossed), FALSE, crossed)
      <4>1. w \in Int
        BY <2>1, ExecutedRange
      <4>2. to \in Addresses
        BY <4>1, Wraps
      <4>3. i = 0 \/ IsInstruction(i)
        BY <2>1, <2>2
      <4>4. Continues(to, i, cycles)
        BY <3>4 DEF Straight
      <4> HIDE DEF to, i, cycles
      <4> QED BY <4>2, <4>3, <4>4, ContinuesTyped
    <3> QED BY <1>7, <3>1, <3>2, <3>3, <3>4 DEF Execute
  <2> QED BY <1>7, <2>4 DEF Execute, IsInstruction
<1>8. CASE UNCHANGED vars
  BY <1>8 DEF vars, IsInstruction
<1> QED BY <1>1, <1>3, <1>4, <1>5, <1>6, <1>7, <1>8 DEF Next

\* The instructions of the switch, and the NOP that is left to its default.
LEMMA SoleNop == \A k \in Cases : k[1] # \hEA
<1>1. \A k \in Switch00 : k[1] # \hEA
  BY DEF Switch00
<1>2. \A k \in Switch40 : k[1] # \hEA
  BY DEF Switch40
<1>3. \A k \in Switch80 : k[1] # \hEA
  BY DEF Switch80
<1>4. \A k \in SwitchC0 : k[1] # \hEA
  BY DEF SwitchC0
<1> QED BY <1>1, <1>2, <1>3, <1>4 DEF Cases

LEMMA NopIs == Executed[\hEA] = [name |-> "none", mode |-> "imp"] /\ Ticks(\hEA) = 2
<1>1. \hEA \in Byte
  BY DEF Byte
<1>2. Ticks(\hEA) = 2
  BY DEF Ticks, TickRows
<1> QED BY <1>1, <1>2, SoleNop, NoCase

\* The cycles of one instruction.
Exact ==
  Name # "none" \/ Op = \hEA =>
    spent'.cycles = BusCycles(Name, Mode, spent'.crossed, spent'.taken,
                              ((pc + 2) % Space) \div 256 # pc' \div 256)

LEMMA ExecuteExact == Typed /\ Execute => Exact
<1>1. SUFFICES ASSUME Typed, Execute, Name # "none" \/ Op = \hEA PROVE Exact
  BY DEF Exact
<1>2. pc \in Int /\ Op \in Byte
  <2>1. pc \in Int
    BY <1>1, AddressesAre DEF Typed
  <2> QED BY <1>1, <2>1, AtRange DEF Op
<1>3. CASE Name = "none"
  <2>1. Op = \hEA /\ Mode = "imp" /\ Ticks(Op) = 2
    BY <1>1, <1>3, NopIs DEF Mode
  <2>2. PICK crossed \in BOOLEAN : Straight(crossed)
    BY <1>1, <1>3, <2>1 DEF Execute, Branch, Jump, Leave, Leaves
  <2>3. crossed = FALSE
    BY <2>1, <2>2 DEF Straight
  <2>4. spent' = [cycles |-> Ticks(Op) + Penalty(Op, crossed), taken |-> FALSE, crossed |-> crossed]
    BY <2>2 DEF Straight, Continues, Cycles
  <2> QED BY <1>3, <2>1, <2>3, <2>4 DEF Exact, BusCycles, Penalty
<1>4. CASE Name # "none"
  <2> DEFINE moved == ((pc + 2) % Space) \div 256 # pc' \div 256
  <2>1. PICK k \in Cases : k[1] = Op /\ k[2] = Name /\ k[3] = Mode
    BY <1>2, <1>4, ExecutedCase DEF Name, Mode
  <2>2. moved \in BOOLEAN
    OBVIOUS
  <2>3. ASSUME NEW taken \in BOOLEAN, Branch(taken) PROVE Exact
    <3> DEFINE next == pc + 2
               byte == At(pc + 1)
               target == (next + (IF byte < 128 THEN byte ELSE byte - 256)) % Space
               far == target \div 256 # (next % Space) \div 256
    <3>1. /\ Mode = "rel"
          /\ pc' = (IF taken THEN target ELSE next % Space)
          /\ spent' = [cycles |-> Ticks(Op) + BranchPenalty(taken, far), taken |-> taken, crossed |-> FALSE]
      BY <2>3 DEF Branch, Continues, Cycles
    <3>2. far \in BOOLEAN /\ (taken => (far <=> moved))
      BY <3>1
    <3>3. Ticks(Op) + BranchPenalty(taken, far) = BusCycles(Name, Mode, FALSE, taken, far)
      BY <2>1, <3>1, <3>2, PlainCost DEF Plain
    <3> HIDE DEF far, moved
    <3>4. BusCycles(Name, Mode, FALSE, taken, far) = BusCycles(Name, Mode, FALSE, taken, moved)
      BY <3>1, <3>2 DEF BusCycles
    <3>5. spent'.cycles = BusCycles(Name, Mode, spent'.crossed, spent'.taken, moved)
      BY <3>1, <3>3, <3>4
    <3> QED BY <3>5 DEF Exact, moved
  <2>4. ASSUME NEW crossed \in BOOLEAN, NEW taken \in BOOLEAN, Mode # "rel",
               spent' = [cycles |-> Ticks(Op) + Penalty(Op, crossed), taken |-> taken, crossed |-> crossed]
        PROVE  Exact
    <3> HIDE DEF moved
    <3>1. Ticks(Op) + Penalty(Op, crossed) = BusCycles(Name, Mode, crossed, taken, moved)
      BY <2>1, <2>2, <2>4, CostIs
    <3>2. spent'.cycles = BusCycles(Name, Mode, spent'.crossed, spent'.taken, moved)
      BY <2>4, <3>1
    <3> QED BY <3>2 DEF Exact, moved
  <2>5. Penalty(Op, FALSE) = 0
    BY DEF Penalty
  <2>6. Ticks(Op) \in Int /\ Ticks(Op) + 0 = Ticks(Op)
    <3>1. \A i, j \in 1..16 : TickRows[i][j] \in Int
      BY DEF TickRows
    <3> DEFINE i == Op \div 16 + 1
               j == (Op % 16) + 1
    <3>2. i \in 1..16 /\ j \in 1..16
      BY <1>2 DEF Byte
    <3> HIDE DEF i, j
    <3>3. TickRows[i][j] \in Int
      BY <3>1, <3>2
    <3> QED BY <3>3 DEF Ticks, i, j
  <2>7. CASE Jump
    BY <2>4, <2>5, <2>6, <2>7 DEF Jump, Continues, Cycles
  <2>8. CASE Leave
    <3>1. Mode # "rel"
      <4>1. Name \in {"BRK", "RTS", "RTI"} => Mode = "imp"
        BY <2>1 DEF Cases, Switch00, Switch40, Switch80, SwitchC0
      <4> QED BY <2>8, <4>1 DEF Leave, Leaves
    <3> QED BY <2>4, <2>5, <2>6, <2>8, <3>1 DEF Leave, Continues, Cycles
  <2>9. ASSUME NEW crossed \in BOOLEAN, Straight(crossed) PROVE Exact
    BY <2>4, <2>9 DEF Straight, Continues, Cycles
  <2> QED BY <1>1, <2>3, <2>7, <2>8, <2>9 DEF Execute
<1> QED BY <1>1, <1>3, <1>4

\* Addresses and bytes are in range, and a running program is at an instruction.
THEOREM TypeCorrect == Spec => []Typed
BY TypedInit, TypedNext, PTL DEF Spec

\* Every instruction costs the cycles of its bus accesses, whatever the program.
THEOREM CyclesAreExact == Spec => CyclesExact
<1>1. Typed /\ [Next]_vars =>
        [phase = "run" /\ (Name # "none" \/ Op = \hEA) =>
           spent'.cycles = BusCycles(Name, Mode, spent'.crossed, spent'.taken,
                                     ((pc + 2) % Space) \div 256 # pc' \div 256)]_vars
  <2>1. SUFFICES ASSUME Typed, Next, phase = "run" PROVE Exact
    BY DEF Exact
  <2>2. Execute
    BY <2>1 DEF Next, Pass1, StartPass2, Pass2, Run
  <2> QED BY <2>1, <2>2, ExecuteExact
<1> QED BY <1>1, TypeCorrect, PTL DEF Spec, CyclesExact

-----------------------------------------------------------------------------
(* Two contexts at the same place. *)

Alike(x, y) ==
  y.addr = x.addr /\ y.origin = x.origin /\ y.started = x.started /\ y.wrapped = x.wrapped

\* A symbol with the same value in both.
Shared(x, y, e) ==
  \/ e.sym \in {NoSymbol, Here}
  \/ e.sym \in DOMAIN x.symbols /\ e.sym \in DOMAIN y.symbols /\ x.symbols[e.sym] = y.symbols[e.sym]

LEMMA ValueAlike ==
  ASSUME NEW x \in Context, NEW y \in Context, Alike(x, y), NEW e, Shared(x, y, e)
  PROVE  Value(x, e) = Value(y, e)
<1>1. NoSymbol \notin DOMAIN x.symbols /\ NoSymbol \notin DOMAIN y.symbols
  BY ContextIs, SymbolsAre, NamesAre
<1>2. Term(x, e) = Term(y, e)
  BY <1>1 DEF Term, Alike, Shared
<1> QED BY <1>2 DEF Value

LEMMA ModeAlike ==
  ASSUME NEW x \in Context, NEW y \in Context, Alike(x, y), NEW s
  PROVE  LineMode(x, s) = LineMode(y, s)
<1> DEFINE e == s.expr
<1>1. Zero(x, e) <=> Zero(y, e)
  <2>1. ~Symbolic(e) => Shared(x, y, e)
    BY DEF Symbolic, Shared
  <2> HIDE DEF e
  <2>2. ~Symbolic(e) => Value(x, e) = Value(y, e)
    BY <2>1, ValueAlike
  <2> QED BY <2>2 DEF Zero
<1> HIDE DEF e
<1>2. \A n, class : ModeOf(x, n, class, e) = ModeOf(y, n, class, e)
  BY <1>1 DEF ModeOf
<1> QED BY <1>2 DEF LineMode, e

LEMMA EmitAlike ==
  ASSUME NEW x \in Context, NEW y \in Context, Alike(x, y),
         NEW a \in Seq(Byte), NEW b \in Seq(Byte), Len(a) = Len(b),
         Emit(x, a).ok, Emit(y, b).ok
  PROVE  Alike(Emit(x, a), Emit(y, b))
<1>1. CASE a = <<>>
  <2>1. b = <<>>
    BY <1>1, EmptySeq
  <2> QED BY <1>1, <2>1, EmitIs
<1>2. CASE a # <<>>
  <2>1. b # <<>>
    BY <1>2, EmptySeq
  <2>2. Grown(x, a, Emit(x, a)) /\ Grown(y, b, Emit(y, b))
    BY <1>2, <2>1, EmitIs
  <2> DEFINE u == Emit(x, a)
             v == Emit(y, b)
  <2> HIDE DEF u, v
  <2>3. Grown(x, a, u) /\ Grown(y, b, v)
    BY <2>2 DEF u, v
  <2>4. Alike(u, v)
    BY <2>3 DEF Grown, Alike
  <2> QED BY <2>4 DEF u, v
<1> QED BY <1>1, <1>2

\* A line moves contexts at the same place alike, if an origin or equate means the same in both.
LEMMA ReadAlike ==
  ASSUME NEW x \in Context, NEW y \in Context, Alike(x, y), NEW s \in Lines,
         Read(x, s).ok, Read(y, s).ok, s.is = "org" => Shared(x, y, s.expr)
  PROVE  Alike(Read(x, s), Read(y, s))
<1>1. CASE s.is = "label"
  BY <1>1, ReadLabel DEF Same, Alike
<1>2. CASE s.is = "equate"
  BY <1>2, ReadEquate DEF Same, Alike
<1>3. CASE s.is = "org"
  <2> DEFINE v == Value(x, s.expr)
             gap == v - x.addr
  <2>1. v = Value(y, s.expr) /\ gap = v - y.addr
    BY <1>3, ValueAlike DEF Alike
  <2>2. v \in Int /\ x.addr \in Int /\ x.started = y.started
    BY <1>3, LinesAre, ValueRange, ContextIs DEF Alike
  <2>3. /\ ~x.started => Placed(x, v, Read(x, s)) /\ Placed(y, v, Read(y, s))
        /\ x.started => v >= x.addr /\ Read(x, s) = Emit(x, Zeros(gap)) /\ Read(y, s) = Emit(y, Zeros(gap))
    BY <1>3, <2>1, <2>2, ReadOrg
  <2>4. CASE ~x.started
    BY <2>3, <2>4 DEF Placed, Alike
  <2>5. CASE x.started
    <3>1. gap \in Nat
      BY <2>2, <2>3, <2>5
    <3> HIDE DEF gap
    <3>2. Zeros(gap) \in Seq(Byte)
      BY <3>1, ZerosAre
    <3> QED BY <2>3, <2>5, <3>2, EmitAlike
  <2> QED BY <2>2, <2>4, <2>5
<1>4. CASE s.is \in {"byte", "word"}
  <2>1. PICK a \in Seq(Byte) : Len(a) = (IF s.is = "byte" THEN 1 ELSE 2) /\ Read(x, s) = Emit(x, a)
    BY <1>4, ReadData
  <2>2. PICK b \in Seq(Byte) : Len(b) = (IF s.is = "byte" THEN 1 ELSE 2) /\ Read(y, s) = Emit(y, b)
    BY <1>4, ReadData
  <2> QED BY <2>1, <2>2, EmitAlike
<1>5. CASE s.is = "instruction"
  <2>1. LineMode(x, s) = LineMode(y, s)
    BY ModeAlike
  <2>2. /\ LineMode(x, s) \in Modes /\ Has(s.name, LineMode(x, s))
        /\ Read(x, s) = Emit(x, LineCode(x, s)) /\ Read(y, s) = Emit(y, LineCode(y, s))
    BY <1>5, ReadInstruction
  <2>3. Written(s.expr)
    BY <1>5, LinesAre
  <2>4. /\ LineCode(x, s) \in Seq(Byte) /\ LineCode(y, s) \in Seq(Byte)
        /\ Len(LineCode(x, s)) = Len(LineCode(y, s))
    BY <2>1, <2>2, <2>3, CodeIs DEF LineCode
  <2> QED BY <2>2, <2>4, EmitAlike
<1> QED BY <1>1, <1>2, <1>3, <1>4, <1>5, LinesAre

-----------------------------------------------------------------------------
(* A pass over the first n lines, from a context x. *)

Walk(w, n, x) ==
  /\ w \in [0..n -> Context] /\ w[0] = x
  /\ \A i \in 1..n : w[i] = Read(w[i - 1], program[i]) /\ w[i].ok

\* Induction up to n, for a set: the least number that is not in it has none before it.
Climbs(S, n) == 0 \in S /\ \A i \in 1..n : i - 1 \in S => i \in S

LEMMA Climb ==
  ASSUME NEW n \in Nat, NEW S, Climbs(S, n)
  PROVE  n \in S
<1> DEFINE D == {i \in 0..n : i \notin S}
           R == OpToRel(<, Nat)
<1>1. SUFFICES ASSUME D # {} PROVE FALSE
  OBVIOUS
<1>2. PICK d \in D : \A e \in D : ~(<<e, d>> \in R)
  <2>1. IsWellFoundedOn(R, Nat)
    BY NatLessThanWellFounded
  <2>2. D \in SUBSET Nat
    OBVIOUS
  <2> HIDE DEF D, R
  <2> QED BY <1>1, <2>1, <2>2, WFMin, Zenon
<1>3. d \in 1..n /\ d \notin S
  <2> HIDE DEF R
  <2>1. d \in 0..n /\ d \notin S
    BY <1>2
  <2>2. d # 0
    BY <2>1 DEF Climbs
  <2> QED BY <2>1, <2>2
<1>4. d - 1 \in 0..n /\ ~(d - 1 \in D)
  <2>1. d - 1 \in Nat /\ d \in Nat /\ d - 1 < d /\ d - 1 \in 0..n
    BY <1>3
  <2>2. d - 1 \in D => <<d - 1, d>> \in R
    BY <2>1 DEF OpToRel
  <2> QED BY <1>2, <2>1, <2>2
<1> QED BY <1>3, <1>4 DEF Climbs

LEMMA WalkStep ==
  ASSUME program \in Seq(Lines), NEW n \in Nat, n <= Len(program), NEW w, NEW x, Walk(w, n, x),
         NEW i \in 1..n, NEW k, k = i - 1
  PROVE  /\ w[k] \in Context /\ w[i] \in Context /\ program[i] \in Lines
         /\ w[i] = Read(w[k], program[i]) /\ w[i].ok /\ w[i].final = w[k].final
         /\ i \in DOMAIN program /\ k \in 0..n
<1>1. k \in 0..n /\ i \in 0..n /\ i \in DOMAIN program
  OBVIOUS
<1>2. w[k] \in Context /\ w[i] \in Context /\ program[i] \in Lines
  BY <1>1 DEF Walk
<1>3. w[i] = Read(w[k], program[i]) /\ w[i].ok
  BY DEF Walk
<1> QED BY <1>1, <1>2, <1>3, ReadContext

LEMMA WalkFinal ==
  ASSUME program \in Seq(Lines), NEW n \in Nat, n <= Len(program), NEW w, NEW x, Walk(w, n, x),
         NEW i \in 0..n
  PROVE  w[i] \in Context /\ w[i].final = x.final
<1> DEFINE S == {j \in 0..n : w[j].final = x.final}
<1>1. 0 \in S
  BY DEF Walk
<1>2. ASSUME NEW j \in 1..i, j - 1 \in S PROVE j \in S
  <2> DEFINE k == j - 1
  <2>1. k = j - 1 /\ j \in 1..n /\ j \in 0..n
    OBVIOUS
  <2>2. w[k].final = x.final
    BY <1>2
  <2> HIDE DEF k
  <2>3. w[j].final = w[k].final
    BY <2>1, WalkStep
  <2> QED BY <2>1, <2>2, <2>3
<1>3. Climbs(S, i)
  BY <1>1, <1>2 DEF Climbs
<1> HIDE DEF S
<1>4. i \in S
  BY <1>3, Climb
<1> QED BY <1>4 DEF Walk, S

-----------------------------------------------------------------------------
(* The symbols of pass 1. *)

\* A line that defines nothing: the first origin, or some bytes.
LEMMA ReadPlaces ==
  ASSUME NEW x \in Context, NEW s \in Lines, s.is \notin {"label", "equate"}, Read(x, s).ok
  PROVE  \/ \E v \in Addresses : Placed(x, v, Read(x, s))
         \/ \E b \in Seq(Byte) : Read(x, s) = Emit(x, b)
<1>1. CASE s.is = "org"
  <2> DEFINE v == Value(x, s.expr)
             gap == v - x.addr
  <2>1. v \in Addresses /\ v \in Int /\ x.addr \in Int
    BY <1>1, LinesAre, ValueRange, ContextIs
  <2>2. /\ ~x.started => Placed(x, v, Read(x, s))
        /\ x.started => v >= x.addr /\ Read(x, s) = Emit(x, Zeros(gap))
    BY <1>1, ReadOrg
  <2>3. x.started => gap \in Nat
    BY <2>1, <2>2
  <2> HIDE DEF v, gap
  <2>4. x.started => Zeros(gap) \in Seq(Byte)
    BY <2>3, ZerosAre
  <2> QED BY <2>1, <2>2, <2>4
<1>2. CASE s.is \in {"byte", "word"}
  BY <1>2, ReadData
<1>3. CASE s.is = "instruction"
  <2>1. /\ LineMode(x, s) \in Modes /\ Has(s.name, LineMode(x, s))
        /\ Read(x, s) = Emit(x, LineCode(x, s))
    BY <1>3, ReadInstruction
  <2>2. Written(s.expr)
    BY <1>3, LinesAre
  <2>3. LineCode(x, s) \in Seq(Byte)
    BY <2>1, <2>2, CodeIs DEF LineCode
  <2> QED BY <2>1, <2>3
<1> QED BY <1>1, <1>2, <1>3, LinesAre

LEMMA ReadOther ==
  ASSUME NEW x \in Context, NEW s \in Lines, s.is \notin {"label", "equate"}, Read(x, s).ok
  PROVE  Read(x, s).symbols = x.symbols
<1>1. ASSUME NEW v, Placed(x, v, Read(x, s)) PROVE Read(x, s).symbols = x.symbols
  BY <1>1 DEF Placed
<1>2. ASSUME NEW b \in Seq(Byte), Read(x, s) = Emit(x, b) PROVE Read(x, s).symbols = x.symbols
  <2>1. Emit(x, b).ok
    BY <1>2
  <2>2. b # <<>> => Grown(x, b, Emit(x, b))
    BY <2>1, EmitIs
  <2>3. b = <<>> => Emit(x, b) = x
    BY <2>1, EmitIs
  <2>4. Emit(x, b).symbols = x.symbols
    BY <2>2, <2>3 DEF Grown
  <2> QED BY <1>2, <2>4
<1> QED BY <1>1, <1>2, ReadPlaces

DefinedBy(i) == {program[j].name : j \in {k \in 1..i : Defines(k)}}

First(w, n) == program \in Seq(Lines) /\ n \in Nat /\ n <= Len(program) /\ Walk(w, n, Fresh(NoSymbols, FALSE))

LEMMA FirstStep ==
  ASSUME NEW w, NEW n, First(w, n), NEW i \in 1..n, NEW k, k = i - 1
  PROVE  /\ w[k] \in Context /\ w[i] \in Context /\ program[i] \in Lines
         /\ w[i] = Read(w[k], program[i]) /\ w[i].ok /\ ~w[i].final /\ ~w[k].final
         /\ i \in DOMAIN program /\ k \in 0..n
<1>1. /\ w[k] \in Context /\ w[i] \in Context /\ program[i] \in Lines
      /\ w[i] = Read(w[k], program[i]) /\ w[i].ok /\ w[i].final = w[k].final
      /\ i \in DOMAIN program /\ k \in 0..n
  BY WalkStep DEF First
<1> DEFINE x == Fresh(NoSymbols, FALSE)
<1>2. /\ program \in Seq(Lines) /\ n \in Nat /\ n <= Len(program) /\ Walk(w, n, x)
      /\ x.final = FALSE
  BY DEF First, Fresh
<1> HIDE DEF x
<1>3. w[k].final = x.final
  BY <1>1, <1>2, WalkFinal
<1> QED BY <1>1, <1>2, <1>3

LEMMA DefinedNext ==
  ASSUME NEW i \in Nat \ {0}, NEW k, k = i - 1
  PROVE  DefinedBy(i) = DefinedBy(k) \cup (IF Defines(i) THEN {program[i].name} ELSE {})
<1>1. \A j : j \in 1..i <=> j \in 1..k \/ j = i
  BY DEF Defines
<1> QED BY <1>1 DEF DefinedBy

\* After i lines, the symbols are those the i lines define.
LEMMA SymbolsAt ==
  ASSUME NEW w, NEW n, First(w, n), NEW i \in 0..n
  PROVE  DOMAIN w[i].symbols = DefinedBy(i)
<1> DEFINE S == {j \in 0..n : DOMAIN w[j].symbols = DefinedBy(j)}
<1>1. 0 \in S
  <2>1. DOMAIN NoSymbols = {}
    BY DEF NoSymbols
  <2>2. DOMAIN w[0].symbols = {}
    BY <2>1, NoSymbolsAre, FreshContext DEF First, Walk
  <2>3. DefinedBy(0) = {}
    BY DEF DefinedBy
  <2>4. 0 \in 0..n
    BY DEF First
  <2> QED BY <2>2, <2>3, <2>4
<1>2. ASSUME NEW j \in 1..i, j - 1 \in S PROVE j \in S
  <2> DEFINE k == j - 1
             s == program[j]
             x == w[k]
  <2>1. k = j - 1 /\ j \in 1..n /\ j \in 0..n /\ j \in Nat \ {0}
    BY DEF First
  <2>2. DOMAIN x.symbols = DefinedBy(k)
    BY <1>2
  <2> HIDE DEF k
  <2>3. x \in Context /\ s \in Lines /\ w[j] = Read(x, s) /\ Read(x, s).ok /\ ~x.final
    BY <2>1, FirstStep
  <2>4. DefinedBy(j) = DefinedBy(k) \cup (IF Defines(j) THEN {s.name} ELSE {})
    BY <2>1, DefinedNext
  <2> HIDE DEF x, s
  <2>5. CASE s.is = "label"
    <3>1. Read(x, s) = Define(x, s.name, x.addr) /\ s.name \in Names /\ x.addr \in Addresses
      BY <2>3, <2>5, ReadLabel, LinesAre DEF Context
    <3>2. DOMAIN Define(x, s.name, x.addr).symbols = DOMAIN x.symbols \cup {s.name}
      <4> DEFINE t == s.name
                 v == x.addr
      <4>1. t \in Names /\ v \in Addresses /\ x \in Context
        BY <2>3, <3>1
      <4> HIDE DEF t, v
      <4>2. DOMAIN Define(x, t, v).symbols = DOMAIN x.symbols \cup {t}
        BY <4>1, DefineIs
      <4> QED BY <4>2 DEF t, v
    <3>3. Defines(j)
      BY <2>5 DEF Defines, s
    <3> QED BY <2>1, <2>2, <2>3, <2>4, <3>1, <3>2, <3>3
  <2>6. CASE s.is = "equate"
    <3>1. /\ Read(x, s) = Define(x, s.name, Value(x, s.expr)) /\ s.name \in Names
          /\ Value(x, s.expr) \in Addresses
      BY <2>3, <2>6, ReadEquate, LinesAre, ValueRange
    <3>2. DOMAIN Define(x, s.name, Value(x, s.expr)).symbols = DOMAIN x.symbols \cup {s.name}
      <4> DEFINE t == s.name
                 v == Value(x, s.expr)
      <4>1. t \in Names /\ v \in Addresses /\ x \in Context
        BY <2>3, <3>1
      <4> HIDE DEF t, v
      <4>2. DOMAIN Define(x, t, v).symbols = DOMAIN x.symbols \cup {t}
        BY <4>1, DefineIs
      <4> QED BY <4>2 DEF t, v
    <3>3. Defines(j)
      BY <2>6 DEF Defines, s
    <3> QED BY <2>1, <2>2, <2>3, <2>4, <3>1, <3>2, <3>3
  <2>7. CASE s.is \notin {"label", "equate"}
    <3>1. Read(x, s).symbols = x.symbols
      BY <2>3, <2>7, ReadOther
    <3>2. ~Defines(j)
      BY <2>7 DEF Defines, s
    <3> QED BY <2>1, <2>2, <2>3, <2>4, <3>1, <3>2
  <2> QED BY <2>5, <2>6, <2>7
<1>3. Climbs(S, i)
  BY <1>1, <1>2 DEF Climbs
<1> HIDE DEF S
<1>4. i \in S
  BY <1>3, Climb
<1> QED BY <1>4 DEF S

Keeps(f, g) == \A t \in DOMAIN f : t \in DOMAIN g /\ g[t] = f[t]

\* A symbol defined once is not defined again.
LEMMA NewName ==
  ASSUME NEW w, NEW n, First(w, n), DefinedOnce, NEW i \in 1..n, NEW k, k = i - 1, Defines(i)
  PROVE  program[i].name \notin DOMAIN w[k].symbols
<1>1. DOMAIN w[k].symbols = DefinedBy(k) /\ i \in DOMAIN program
  BY FirstStep, SymbolsAt
<1>2. SUFFICES ASSUME program[i].name \in DefinedBy(k) PROVE FALSE
  BY <1>1
<1>3. PICK j \in 1..k : Defines(j) /\ program[j].name = program[i].name
  BY <1>2 DEF DefinedBy
<1>4. j \in DOMAIN program /\ j # i
  BY DEF First
<1> QED BY <1>1, <1>3, <1>4 DEF DefinedOnce

LEMMA FirstKeeps ==
  ASSUME NEW w, NEW n, First(w, n), DefinedOnce, NEW i \in 1..n, NEW k, k = i - 1
  PROVE  /\ Keeps(w[k].symbols, w[i].symbols)
         /\ program[i].is = "label" =>
              program[i].name \in DOMAIN w[i].symbols /\ w[i].symbols[program[i].name] = w[k].addr
         /\ program[i].is = "equate" =>
              /\ program[i].name \in DOMAIN w[i].symbols
              /\ w[i].symbols[program[i].name] = Value(w[k], program[i].expr)
<1> DEFINE s == program[i]
           x == w[k]
<1>1. x \in Context /\ s \in Lines /\ w[i] = Read(x, s) /\ Read(x, s).ok /\ ~x.final
  BY FirstStep
<1>2. Defines(i) => s.name \notin DOMAIN x.symbols
  BY NewName
<1>3. Defines(i) <=> s.is \in {"label", "equate"}
  BY DEF Defines
<1> HIDE DEF x, s
<1>4. CASE s.is = "label"
  <2>1. Read(x, s) = Define(x, s.name, x.addr) /\ s.name \in Names /\ x.addr \in Addresses
    BY <1>1, <1>4, ReadLabel, LinesAre DEF Context
  <2>2. Define(x, s.name, x.addr).symbols =
          [t \in DOMAIN x.symbols \cup {s.name} |-> IF t = s.name THEN x.addr ELSE x.symbols[t]]
    BY <1>1, <2>1, DefineIs
  <2> QED BY <1>1, <1>2, <1>3, <1>4, <2>1, <2>2 DEF Keeps, x, s
<1>5. CASE s.is = "equate"
  <2> DEFINE v == Value(x, s.expr)
  <2>1. Read(x, s) = Define(x, s.name, v) /\ s.name \in Names /\ v \in Addresses
    BY <1>1, <1>5, ReadEquate, LinesAre, ValueRange
  <2> HIDE DEF v
  <2>2. Define(x, s.name, v).symbols =
          [t \in DOMAIN x.symbols \cup {s.name} |-> IF t = s.name THEN v ELSE x.symbols[t]]
    BY <1>1, <2>1, DefineIs
  <2>3. w[i].symbols[s.name] = v /\ s.name \in DOMAIN w[i].symbols /\ Keeps(x.symbols, w[i].symbols)
    BY <1>1, <1>2, <1>3, <1>5, <2>1, <2>2 DEF Keeps
  <2> QED BY <1>5, <2>3 DEF x, s, v
<1>6. CASE s.is \notin {"label", "equate"}
  <2>1. w[i].symbols = x.symbols
    BY <1>1, <1>6, ReadOther
  <2> QED BY <1>6, <2>1 DEF Keeps, x, s
<1> QED BY <1>4, <1>5, <1>6

\* What pass 1 has defined stays.
LEMMA Persist ==
  ASSUME NEW w, NEW n, First(w, n), DefinedOnce, NEW i \in 0..n
  PROVE  Keeps(w[i].symbols, w[n].symbols)
<1> DEFINE S == {j \in 0..n : j >= i => Keeps(w[i].symbols, w[j].symbols)}
<1>0. n \in Nat
  BY DEF First
<1>1. 0 \in S
  BY <1>0 DEF Keeps
<1>2. ASSUME NEW j \in 1..n, j - 1 \in S PROVE j \in S
  <2> DEFINE k == j - 1
  <2>1. k = j - 1 /\ j \in 0..n /\ k \in Int /\ (j >= i => k >= i \/ j = i)
    BY <1>0
  <2>2. k >= i => Keeps(w[i].symbols, w[k].symbols)
    BY <1>2
  <2> HIDE DEF k
  <2>3. Keeps(w[k].symbols, w[j].symbols)
    BY <2>1, FirstKeeps
  <2>4. j >= i => Keeps(w[i].symbols, w[j].symbols)
    BY <2>1, <2>2, <2>3 DEF Keeps
  <2> QED BY <2>1, <2>4
<1>3. Climbs(S, n)
  BY <1>1, <1>2 DEF Climbs
<1> HIDE DEF S
<1>4. n \in S
  BY <1>0, <1>3, Climb
<1> QED BY <1>0, <1>4 DEF S

-----------------------------------------------------------------------------
(* Pass 2, after pass 1 has read the whole program. *)

Second(v, m, w, n) ==
  /\ First(w, n) /\ n = Len(program)
  /\ m \in Nat /\ m <= n /\ Walk(v, m, Fresh(w[n].symbols, TRUE))

LEMMA SecondStart ==
  ASSUME NEW v, NEW m, NEW w, NEW n, Second(v, m, w, n)
  PROVE  /\ v[0] \in Context /\ v[0].symbols = w[n].symbols /\ v[0].final
         /\ Alike(w[0], v[0]) /\ ~v[0].started /\ ~v[0].wrapped /\ v[0].bytes = <<>>
<1>1. w[n] \in Context /\ w[0] = Fresh(NoSymbols, FALSE) /\ v[0] = Fresh(w[n].symbols, TRUE)
  BY DEF Second, First, Walk
<1> DEFINE f == w[n].symbols
<1>2. f \in Symbols
  BY <1>1, ContextIs
<1> HIDE DEF f
<1>3. Fresh(f, TRUE) \in Context /\ Fresh(f, TRUE).symbols = f /\ Fresh(f, TRUE).final = TRUE
  BY <1>2, FreshContext
<1>4. /\ Alike(Fresh(NoSymbols, FALSE), Fresh(f, TRUE)) /\ ~Fresh(f, TRUE).started
      /\ ~Fresh(f, TRUE).wrapped /\ Fresh(f, TRUE).bytes = <<>>
  BY DEF Fresh, Alike
<1> QED BY <1>1, <1>3, <1>4 DEF f

LEMMA SecondStep ==
  ASSUME NEW v, NEW m, NEW w, NEW n, Second(v, m, w, n), NEW i \in 1..m, NEW k, k = i - 1
  PROVE  /\ v[k] \in Context /\ v[i] \in Context /\ program[i] \in Lines
         /\ v[i] = Read(v[k], program[i]) /\ v[i].ok /\ v[i].final /\ v[k].final
         /\ i \in DOMAIN program /\ k \in 0..m /\ i \in 1..n /\ k \in 0..n
<1> DEFINE x == Fresh(w[n].symbols, TRUE)
<1>1. /\ program \in Seq(Lines) /\ m \in Nat /\ m <= Len(program) /\ Walk(v, m, x)
      /\ x.final /\ n \in Nat /\ m <= n
  BY DEF Second, First, Fresh
<1> HIDE DEF x
<1>2. /\ v[k] \in Context /\ v[i] \in Context /\ program[i] \in Lines
      /\ v[i] = Read(v[k], program[i]) /\ v[i].ok /\ v[i].final = v[k].final
      /\ i \in DOMAIN program /\ k \in 0..m
  BY <1>1, WalkStep
<1>3. v[k].final = x.final
  BY <1>1, <1>2, WalkFinal
<1> QED BY <1>1, <1>2, <1>3

\* The passes agree on every address, and the symbols are those pass 1 ended with.
Agreed(v, w, n, i) == Alike(w[i], v[i]) /\ v[i].symbols = w[n].symbols

\* Origins and equates use what is defined above them, and so mean the same in both passes.
LEMMA SharedAbove ==
  ASSUME NEW w, NEW n, First(w, n), DefinedOnce, Backward, NEW i \in 1..n, NEW k, k = i - 1,
         program[i].is \in {"equate", "org"}, NEW y, y.symbols = w[n].symbols
  PROVE  Shared(w[k], y, program[i].expr)
<1>1. i \in DOMAIN program /\ k \in 0..n
  BY FirstStep
<1>2. CASE program[i].expr.sym \in {NoSymbol, Here}
  BY <1>2 DEF Shared
<1>3. CASE \E j \in 1..(i - 1) : Defines(j) /\ program[j].name = program[i].expr.sym
  <2>1. program[i].expr.sym \in DefinedBy(k)
    BY <1>3 DEF DefinedBy
  <2>2. DOMAIN w[k].symbols = DefinedBy(k) /\ Keeps(w[k].symbols, w[n].symbols)
    BY <1>1, SymbolsAt, Persist
  <2> QED BY <2>1, <2>2 DEF Keeps, Shared
<1> QED BY <1>1, <1>2, <1>3 DEF Backward

LEMMA AgreeNext ==
  ASSUME NEW v, NEW m, NEW w, NEW n, Second(v, m, w, n), DefinedOnce, Backward,
         NEW i \in 1..m, NEW k, k = i - 1, Agreed(v, w, n, k)
  PROVE  Agreed(v, w, n, i)
<1> DEFINE s == program[i]
           x == w[k]
           y == v[k]
           g == w[n].symbols
<1>1. First(w, n)
  BY DEF Second
<1>2. /\ y \in Context /\ s \in Lines /\ v[i] = Read(y, s) /\ Read(y, s).ok /\ y.final
      /\ i \in 1..n
  <2>1. /\ v[k] \in Context /\ program[i] \in Lines /\ v[i] = Read(v[k], program[i]) /\ v[i].ok
        /\ v[k].final /\ i \in 1..n
    BY SecondStep
  <2> QED BY <2>1
<1>3. /\ x \in Context /\ w[i] = Read(x, s) /\ Read(x, s).ok /\ ~x.final /\ i \in 0..n
      /\ w[n] \in Context
  <2>1. n \in Nat /\ w[n] \in Context
    BY <1>1 DEF First, Walk
  <2> QED BY <1>1, <1>2, <2>1, FirstStep
<1>4. s.is \in {"equate", "org"} => Shared(x, y, s.expr)
  <2>1. y.symbols = w[n].symbols
    BY DEF Agreed
  <2> QED BY <1>1, <1>2, <2>1, SharedAbove
<1>5. Alike(x, y) /\ y.symbols = g
  BY DEF Agreed
<1>6. Keeps(w[i].symbols, g)
  BY <1>1, <1>3, Persist
<1>7. s.is = "equate" =>
         s.name \in DOMAIN w[i].symbols /\ w[i].symbols[s.name] = Value(x, s.expr)
  BY <1>1, <1>2, FirstKeeps
<1>8. g \in Symbols
  BY <1>3, ContextIs
<1> HIDE DEF s, x, y, g
<1>9. Alike(Read(x, s), Read(y, s))
  BY <1>2, <1>3, <1>4, <1>5, ReadAlike
<1>10. Read(y, s).symbols = g
  <2>1. CASE s.is = "label"
    BY <1>2, <1>5, <2>1, ReadLabel
  <2>2. CASE s.is = "equate"
    <3> DEFINE t == s.name
               u == Value(y, s.expr)
    <3>1. Read(y, s) = Define(y, t, u) /\ t \in Names /\ u \in Addresses
      BY <1>2, <2>2, ReadEquate, LinesAre, ValueRange
    <3>2. t \in DOMAIN g /\ g[t] = u
      <4>1. u = Value(x, s.expr)
        BY <1>2, <1>3, <1>4, <1>5, <2>2, ValueAlike
      <4> QED BY <1>6, <1>7, <2>2, <4>1 DEF Keeps
    <3> HIDE DEF t, u
    <3>3. Define(y, t, u).symbols = [z \in DOMAIN g \cup {t} |-> IF z = t THEN u ELSE g[z]]
      BY <1>2, <1>5, <3>1, DefineIs
    <3>4. [z \in DOMAIN g \cup {t} |-> IF z = t THEN u ELSE g[z]] = [z \in DOMAIN g |-> g[z]]
      BY <3>2
    <3>5. g = [z \in DOMAIN g |-> g[z]]
      BY <1>8, SymbolsAre
    <3> QED BY <3>1, <3>3, <3>4, <3>5
  <2>3. CASE s.is \notin {"label", "equate"}
    BY <1>2, <1>5, <2>3, ReadOther
  <2> QED BY <2>1, <2>2, <2>3
<1> QED BY <1>2, <1>3, <1>9, <1>10 DEF Agreed, g

LEMMA Agree ==
  ASSUME NEW v, NEW m, NEW w, NEW n, Second(v, m, w, n), DefinedOnce, Backward, NEW i \in 0..m
  PROVE  Agreed(v, w, n, i)
<1> DEFINE S == {j \in 0..m : Agreed(v, w, n, j)}
<1>1. 0 \in S
  <2>1. Alike(w[0], v[0]) /\ v[0].symbols = w[n].symbols
    BY SecondStart
  <2>2. 0 \in 0..m
    BY DEF Second
  <2> QED BY <2>1, <2>2 DEF Agreed
<1>2. ASSUME NEW j \in 1..i, j - 1 \in S PROVE j \in S
  <2> DEFINE k == j - 1
  <2>1. k = j - 1 /\ j \in 1..m /\ j \in 0..m
    BY DEF Second
  <2>2. Agreed(v, w, n, k)
    BY <1>2
  <2> HIDE DEF k
  <2>3. Agreed(v, w, n, j)
    BY <2>1, <2>2, AgreeNext
  <2> QED BY <2>1, <2>3
<1>3. Climbs(S, i)
  BY <1>1, <1>2 DEF Climbs
<1> HIDE DEF S
<1>4. i \in S
  BY <1>3, Climb
<1> QED BY <1>4 DEF S

-----------------------------------------------------------------------------
(* The bytes, in pass 2. *)

\* The bytes are those from the origin to the address.
Image(x) ==
  /\ ~x.started => x.bytes = <<>> /\ ~x.wrapped
  /\ x.started => x.origin + Len(x.bytes) = IF x.wrapped THEN Space ELSE x.addr

\* What has been laid stays where it is.
Prefix(x, y) ==
  x.started =>
    /\ y.started /\ y.origin = x.origin /\ Len(x.bytes) <= Len(y.bytes)
    /\ \A k \in 1..Len(x.bytes) : y.bytes[k] = x.bytes[k]

LEMMA GrownImage ==
  ASSUME NEW x \in Context, NEW y \in Context, NEW b \in Seq(Byte), x.final, Image(x), Grown(x, b, y), b # <<>>
  PROVE  /\ Image(y) /\ Prefix(x, y) /\ y.started
         /\ y.origin + Len(x.bytes) = x.addr /\ y.bytes = x.bytes \o b
         /\ y.addr = (x.addr + Len(b)) % Space /\ x.addr + Len(b) <= Space
<1> DEFINE l == Len(b)
           to == x.addr + l
           h == Len(x.bytes)
<1>1. /\ x.bytes \in Seq(Byte) /\ h \in Nat /\ l \in Nat /\ x.addr \in Int /\ 0 <= x.addr
      /\ x.origin \in Int /\ x.started \in BOOLEAN /\ Space \in Int
  <2>1. Len(x.bytes) \in Nat /\ Len(b) \in Nat
    BY ContextIs
  <2> QED BY <2>1, ContextIs DEF Space
<1>2. l > 0
  BY <1>1, EmptySeq
<1>3. y.bytes = x.bytes \o b /\ Len(y.bytes) = h + l /\ \A k \in 1..h : y.bytes[k] = x.bytes[k]
  <2>1. y.bytes = x.bytes \o b
    BY DEF Grown
  <2>2. Len(x.bytes \o b) = h + l /\ \A k \in 1..h : (x.bytes \o b)[k] = x.bytes[k]
    BY <1>1, ConcatProperties
  <2> QED BY <2>1, <2>2
<1>4. /\ ~x.wrapped /\ to <= Space /\ y.addr = to % Space /\ (y.wrapped <=> to = Space)
      /\ y.origin = (IF x.started THEN x.origin ELSE x.addr) /\ y.started
  BY DEF Grown
<1>5. x.started => x.origin + h = x.addr
  BY <1>4 DEF Image
<1>6. ~x.started => h = 0
  BY EmptySeq DEF Image
<1> HIDE DEF l, h
<1>7. y.origin + h = x.addr
  BY <1>1, <1>4, <1>5, <1>6
<1>8. to \in Int /\ (to # Space => to \in Addresses) /\ to = y.origin + (h + l)
  <2>1. to \in Int /\ 0 <= to /\ to <= Space /\ y.origin \in Int
    BY <1>1, <1>2, <1>4
  <2> HIDE DEF to
  <2>2. to # Space => to < Space
    BY <1>1, <2>1
  <2>3. to # Space => to \in Addresses
    BY <2>1, <2>2, AddressesAre
  <2>4. to = y.origin + (h + l)
    BY <1>1, <1>7, <2>1 DEF to
  <2> QED BY <2>1, <2>3, <2>4
<1> HIDE DEF to
<1>9. Image(y)
  <2>1. to # Space => y.addr = to
    BY <1>4, <1>8, Wraps
  <2> QED BY <1>3, <1>4, <1>8, <2>1 DEF Image
<1>10. Prefix(x, y)
  <2>1. h <= h + l
    BY <1>1
  <2> QED BY <1>3, <1>4, <2>1 DEF Prefix, h
<1> QED BY <1>3, <1>4, <1>7, <1>9, <1>10 DEF h, l, to

LEMMA ReadImage ==
  ASSUME NEW x \in Context, NEW s \in Lines, x.final, Image(x), Read(x, s).ok
  PROVE  Image(Read(x, s)) /\ Prefix(x, Read(x, s))
<1> DEFINE y == Read(x, s)
<1>1. y \in Context
  BY ReadContext
<1>2. Len(x.bytes) \in Nat
  BY ContextIs
<1>3. CASE s.is \in {"label", "equate"}
  <2>1. Same(x, y)
    BY <1>3, ReadLabel, ReadEquate
  <2> HIDE DEF y
  <2>2. Image(y) /\ Prefix(x, y)
    BY <1>2, <2>1 DEF Same, Image, Prefix
  <2> QED BY <2>2 DEF y
<1>4. ASSUME NEW v, Placed(x, v, y) PROVE Image(y) /\ Prefix(x, y)
  <2> HIDE DEF y
  <2> QED BY <1>4 DEF Placed, Image, Prefix
<1>5. ASSUME NEW b \in Seq(Byte), y = Emit(x, b) PROVE Image(y) /\ Prefix(x, y)
  <2>1. Emit(x, b).ok
    BY <1>5
  <2>2. (b = <<>> => y = x) /\ (b # <<>> => Grown(x, b, y))
    BY <1>5, <2>1, EmitIs
  <2> HIDE DEF y
  <2>3. CASE b = <<>>
    BY <1>2, <2>2, <2>3 DEF Prefix
  <2>4. CASE b # <<>>
    BY <1>1, <2>2, <2>4, GrownImage
  <2> QED BY <2>3, <2>4
<1> QED BY <1>3, <1>4, <1>5, ReadPlaces

LEMMA Images ==
  ASSUME NEW v, NEW m, NEW w, NEW n, Second(v, m, w, n), NEW i \in 0..m
  PROVE  v[i] \in Context /\ Image(v[i])
<1> DEFINE S == {j \in 0..m : Image(v[j])}
<1>1. 0 \in S
  <2>1. Image(v[0])
    BY SecondStart DEF Image
  <2>2. 0 \in 0..m
    BY DEF Second
  <2> QED BY <2>1, <2>2
<1>2. ASSUME NEW j \in 1..i, j - 1 \in S PROVE j \in S
  <2> DEFINE k == j - 1
  <2>1. k = j - 1 /\ j \in 1..m /\ j \in 0..m
    BY DEF Second
  <2>2. Image(v[k])
    BY <1>2
  <2> HIDE DEF k
  <2>3. v[k] \in Context /\ v[k].final /\ program[j] \in Lines /\ v[j] = Read(v[k], program[j]) /\ v[j].ok
    BY <2>1, SecondStep
  <2>4. Image(v[j])
    BY <2>2, <2>3, ReadImage
  <2> QED BY <2>1, <2>4
<1>3. Climbs(S, i)
  BY <1>1, <1>2 DEF Climbs
<1> HIDE DEF S
<1>4. i \in S
  BY <1>3, Climb
<1> QED BY <1>4 DEF S, Second, Walk

LEMMA Prefixes ==
  ASSUME NEW v, NEW m, NEW w, NEW n, Second(v, m, w, n), NEW i \in 0..m
  PROVE  Prefix(v[i], v[m])
<1> DEFINE S == {j \in 0..m : j >= i => Prefix(v[i], v[j])}
<1>0. m \in Nat
  BY DEF Second
<1>1. 0 \in S
  <2>1. Len(v[i].bytes) \in Nat
    BY Images, ContextIs
  <2>2. Prefix(v[i], v[i])
    BY <2>1 DEF Prefix
  <2>3. 0 >= i => i = 0
    BY <1>0
  <2> QED BY <1>0, <2>2, <2>3
<1>2. ASSUME NEW j \in 1..m, j - 1 \in S PROVE j \in S
  <2> DEFINE k == j - 1
  <2>1. k = j - 1 /\ j \in 0..m /\ k \in 0..m /\ (j >= i => k >= i \/ j = i)
    BY <1>0
  <2>2. k >= i => Prefix(v[i], v[k])
    BY <1>2
  <2> HIDE DEF k
  <2>3. v[k].final /\ program[j] \in Lines /\ v[j] = Read(v[k], program[j]) /\ v[j].ok
    BY <2>1, SecondStep
  <2>4. v[k] \in Context /\ Image(v[k]) /\ v[i] \in Context /\ v[j] \in Context
    BY <2>1, Images
  <2>5. Prefix(v[k], v[j])
    BY <2>3, <2>4, ReadImage
  <2>6. Len(v[i].bytes) \in Nat /\ Len(v[k].bytes) \in Nat /\ Len(v[j].bytes) \in Nat
    BY <2>4, ContextIs
  <2>7. Prefix(v[i], v[i])
    BY <2>6 DEF Prefix
  <2>8. Prefix(v[i], v[k]) => Prefix(v[i], v[j])
    BY <2>5, <2>6 DEF Prefix
  <2> QED BY <2>1, <2>2, <2>7, <2>8
<1>3. Climbs(S, m)
  BY <1>1, <1>2 DEF Climbs
<1> HIDE DEF S
<1>4. m \in S
  BY <1>0, <1>3, Climb
<1> QED BY <1>0, <1>4 DEF S

\* The code of an instruction lies at its place to the end of the pass.
LEMMA Laid ==
  ASSUME NEW v, NEW m, NEW w, NEW n, Second(v, m, w, n), NEW i \in 1..m, NEW k, k = i - 1,
         NEW b \in Seq(Byte), b # <<>>, v[i] = Emit(v[k], b)
  PROVE  /\ v[i].addr = (v[k].addr + Len(b)) % Space
         /\ v[k].addr >= v[m].origin /\ v[k].addr + Len(b) <= v[m].origin + Len(v[m].bytes)
         /\ \A j \in 1..Len(b) : v[m].bytes[v[k].addr + (j - 1) - v[m].origin + 1] = b[j]
<1> DEFINE x == v[k]
           y == v[i]
           z == v[m]
           h == Len(x.bytes)
           l == Len(b)
<1>1. x \in Context /\ x.final /\ y \in Context /\ y.ok /\ k \in 0..m /\ i \in 0..m /\ m \in 0..m
  <2>1. m \in 0..m /\ i \in 0..m
    BY DEF Second
  <2> QED BY <2>1, SecondStep
<1>2. Image(x) /\ z \in Context /\ Prefix(y, z)
  BY <1>1, Images, Prefixes
<1>3. Grown(x, b, y)
  <2>1. Emit(x, b).ok
    BY <1>1
  <2> QED BY <1>1, <2>1, EmitIs
<1>4. /\ x.bytes \in Seq(Byte) /\ h \in Nat /\ l \in Nat /\ x.addr \in Int
      /\ y.origin \in Int /\ z.origin \in Int /\ Len(z.bytes) \in Nat
  BY <1>1, <1>2, ContextIs
<1> HIDE DEF x, y, z
<1>5. /\ y.started /\ y.origin + h = x.addr /\ y.bytes = x.bytes \o b
      /\ y.addr = (x.addr + l) % Space
  BY <1>1, <1>2, <1>3, GrownImage
<1>6. /\ z.origin = y.origin /\ Len(y.bytes) <= Len(z.bytes)
      /\ \A j \in 1..Len(y.bytes) : z.bytes[j] = y.bytes[j]
  BY <1>2, <1>5 DEF Prefix
<1>7. Len(y.bytes) = h + l /\ \A j \in 1..(h + l) : y.bytes[j] = IF j <= h THEN x.bytes[j] ELSE b[j - h]
  <2>1. Len(x.bytes \o b) = h + l /\ \A j \in 1..(h + l) : (x.bytes \o b)[j] = IF j <= h THEN x.bytes[j] ELSE b[j - h]
    BY <1>4, ConcatProperties
  <2> QED BY <1>5, <2>1
<1> HIDE DEF h, l
<1>8. ASSUME NEW j \in 1..l PROVE z.bytes[x.addr + (j - 1) - z.origin + 1] = b[j]
  <2> DEFINE p == h + j
  <2>1. x.addr + (j - 1) - z.origin + 1 = p /\ p \in 1..(h + l) /\ ~(p <= h) /\ p - h = j
    BY <1>4, <1>5, <1>6
  <2> HIDE DEF p
  <2> QED BY <1>6, <1>7, <2>1
<1>9. x.addr >= z.origin /\ x.addr + l <= z.origin + Len(z.bytes)
  BY <1>4, <1>5, <1>6, <1>7
<1> QED BY <1>5, <1>8, <1>9 DEF x, y, z, l

-----------------------------------------------------------------------------
(* What the CPU finds at an instruction's place. *)

\* The whole program assembled: v is what pass 2 went through, w what pass 1 did.
Assembled(v, w) ==
  /\ Second(v, line, w, line) /\ v[line] = c
  /\ \A i \in 1..line : places[i] = v[i - 1].addr

LEMMA AtCode ==
  ASSUME NEW v, NEW w, Assembled(v, w), NEW i \in 1..line, NEW k, k = i - 1,
         NEW b \in Seq(Byte), b # <<>>, v[i] = Emit(v[k], b)
  PROVE  /\ InImage(v[k].addr) /\ \A j \in 1..Len(b) : At(v[k].addr + (j - 1)) = b[j]
         /\ v[i].addr = (v[k].addr + Len(b)) % Space
<1> DEFINE p == v[k].addr
           m == line
           l == Len(b)
<1>1. Second(v, m, w, m) /\ v[m] = c /\ i \in 1..m
  BY DEF Assembled
<1> HIDE DEF m
<1>2. /\ v[i].addr = (p + l) % Space /\ p >= c.origin /\ p + l <= c.origin + Len(c.bytes)
      /\ \A j \in 1..l : c.bytes[p + (j - 1) - c.origin + 1] = b[j]
  BY <1>1, Laid
<1>3. v[k] \in Context /\ c \in Context
  <2>1. m \in Nat /\ m \in 0..m
    BY <1>1 DEF Second
  <2> QED BY <1>1, <2>1, SecondStep, Images
<1>4. p \in Int /\ c.origin \in Int /\ Len(c.bytes) \in Nat /\ l \in Nat /\ l > 0
  <2>1. l \in Nat /\ l > 0
    BY EmptySeq
  <2> QED BY <1>3, <2>1, ContextIs
<1> HIDE DEF p, l
<1>5. ASSUME NEW j \in 1..l PROVE InImage(p + (j - 1)) /\ At(p + (j - 1)) = b[j]
  <2> DEFINE q == p + (j - 1)
  <2>1. q >= c.origin /\ q < c.origin + Len(c.bytes)
    BY <1>2, <1>4
  <2>2. c.bytes[q - c.origin + 1] = b[j]
    <3> DEFINE r == p + (j - 1) - c.origin + 1
    <3>1. c.bytes[r] = b[j]
      BY <1>2
    <3>2. r = q - c.origin + 1
      BY <1>4
    <3> HIDE DEF r, q
    <3> QED BY <3>1, <3>2
  <2> HIDE DEF q
  <2>3. InImage(q) /\ At(q) = b[j]
    BY <2>1, <2>2 DEF At, InImage
  <2> QED BY <2>3 DEF q
<1>6. InImage(p)
  <2>1. 1 \in 1..l /\ p + (1 - 1) = p
    BY <1>4
  <2> QED BY <1>5, <2>1
<1> QED BY <1>2, <1>5, <1>6 DEF p, l

\* A signed byte.
LEMMA SignedByte ==
  ASSUME NEW d \in -128..127, NEW byte, byte = d % 256
  PROVE  byte \in Int /\ (IF byte < 128 THEN byte ELSE byte - 256) = d
OBVIOUS

\* The instruction of line s, which was assembled in context x, is at pc.
Fetched(x, s) ==
  LET e == s.expr
  IN  /\ InImage(pc) /\ Mode \in Modes /\ Mode = LineMode(x, s)
      /\ Name = IF s.name = "NOP" THEN "none" ELSE s.name
      /\ Consumed(Op) = Length(Op)
      /\ Mode = "rel" =>
           /\ Length(Op) = 2
           /\ (pc + 2 + (IF At(pc + 1) < 128 THEN At(pc + 1) ELSE At(pc + 1) - 256)) % Space = Value(x, e)
      /\ OperandBytes(Mode) = 2 => Word(pc + 1) = Value(x, e)
      /\ Mode \in {"imm", "zp", "zpx", "zpy", "indx", "indy"} => At(pc + 1) = Value(x, e) % 256
      /\ s.class \notin {"empty", "acc"} => Known(x, e)

LEMMA EntryIs ==
  ASSUME NEW m \in Modes, NEW n, Has(n, m)
  PROVE  LET op == Listed[m][n]
         IN  /\ op \in Byte /\ Executed[op].mode = m
             /\ Executed[op].name = IF n = "NOP" THEN "none" ELSE n
             /\ Consumed(op) = Length(op)
             /\ Length(op) = IF n = "BRK" THEN 2 ELSE 1 + OperandBytes(m)
             /\ m = "rel" => Length(op) = 2
<1> DEFINE op == Listed[m][n]
<1>1. /\ op \in Byte
      /\ n # "NOP" => <<op, n, m>> \in Cases
      /\ n = "NOP" => op = \hEA /\ m = "imp"
      /\ Length(op) = IF n = "BRK" THEN 2 ELSE 1 + OperandBytes(m)
  BY EntriesAgree DEF Has, Agrees
<1>2. n = "BRK" => m = "imp"
  BY DEF Has, Listed, Modes
<1> HIDE DEF op
<1>3. Executed[op].mode = m /\ Executed[op].name = IF n = "NOP" THEN "none" ELSE n
  <2>1. CASE n = "NOP"
    BY <1>1, <2>1, NopIs
  <2>2. CASE n # "NOP"
    <3> DEFINE k == <<op, n, m>>
    <3>1. k \in Cases /\ k[1] = op /\ k[2] = n /\ k[3] = m
      BY <1>1, <2>2
    <3> HIDE DEF k
    <3> QED BY <2>2, <3>1, CaseExecuted
  <2> QED BY <2>1, <2>2
<1>4. n = "none" => FALSE
  BY <1>1, CaseShape
<1>5. Consumed(op) = Length(op)
  BY <1>1, <1>3, <1>4 DEF Consumed
<1>6. m = "rel" => Length(op) = 2
  BY <1>1, <1>2 DEF OperandBytes
<1> QED BY <1>1, <1>3, <1>5, <1>6 DEF op

LEMMA FetchedAt ==
  ASSUME NEW v, NEW w, Assembled(v, w), NEW i \in 1..line, NEW k, k = i - 1,
         program[i].is = "instruction", pc = places[i]
  PROVE  /\ Fetched(v[k], program[i]) /\ v[k] \in Context /\ program[i] \in Lines
         /\ pc = v[k].addr
         /\ v[i].addr = (pc + Length(Op)) % Space
<1> DEFINE x == v[k]
           s == program[i]
           m == LineMode(x, s)
           b == LineCode(x, s)
           e == s.expr
           val == Value(x, e)
<1>1. x \in Context /\ s \in Lines /\ v[i] = Read(x, s) /\ Read(x, s).ok /\ x.final
  <2>1. /\ x \in Context /\ s \in Lines /\ v[i] = Read(x, s) /\ v[i].ok /\ x.final
    BY SecondStep DEF Assembled
  <2> QED BY <2>1
<1>2. pc = x.addr /\ s.is = "instruction"
  BY DEF Assembled
<1> HIDE DEF x, s
<1>3. /\ m \in Modes /\ Has(s.name, m) /\ v[i] = Emit(x, b) /\ Written(e)
      /\ s.class \notin {"empty", "acc"} => ~Fails(x, e)
      /\ m = "rel" => Offset(x, e) \in -128..127
  BY <1>1, <1>2, ReadInstruction, LinesAre
<1> HIDE DEF m
<1>4. /\ b \in Seq(Byte) /\ Len(b) = Length(Listed[m][s.name]) /\ Len(b) \in {1, 2, 3}
      /\ b[1] = Listed[m][s.name]
      /\ m = "rel" => b[2] = Offset(x, e) % 256
      /\ OperandBytes(m) = 2 => b[2] = Value(x, e) % 256 /\ b[3] = Value(x, e) \div 256
      /\ m \in {"imm", "zp", "zpx", "zpy", "indx", "indy"} => b[2] = Value(x, e) % 256
  <2>1. b = Code(x, s.name, m, e)
    BY DEF LineCode, m
  <2> HIDE DEF b
  <2> QED BY <1>1, <1>3, <2>1, CodeIs
<1>5. b # <<>>
  BY <1>4
<1> HIDE DEF b
<1>6. /\ InImage(pc) /\ \A j \in 1..Len(b) : At(pc + (j - 1)) = b[j]
      /\ v[i].addr = (pc + Len(b)) % Space
  <2>1. v[i] = Emit(v[k], b) /\ pc = v[k].addr
    BY <1>2, <1>3 DEF x
  <2> QED BY <1>4, <1>5, <2>1, AtCode
<1>7. pc \in Int /\ val \in Int /\ 0 <= val /\ val < Space
  BY <1>1, <1>2, <1>3, ContextIs, ValueRange
<1>8. /\ At(pc) = b[1] /\ (Len(b) >= 2 => At(pc + 1) = b[2]) /\ (Len(b) >= 3 => At(pc + 2) = b[3])
  <2>1. 1 \in 1..Len(b) /\ (Len(b) >= 2 => 2 \in 1..Len(b)) /\ (Len(b) >= 3 => 3 \in 1..Len(b))
    BY <1>4
  <2>2. pc + (1 - 1) = pc /\ pc + (2 - 1) = pc + 1 /\ pc + (3 - 1) = pc + 2
    BY <1>7
  <2> QED BY <1>6, <2>1, <2>2
<1>9. Op = Listed[m][s.name]
  BY <1>4, <1>8 DEF Op
<1>10. /\ Op \in Byte /\ Mode = m /\ Name = (IF s.name = "NOP" THEN "none" ELSE s.name)
       /\ Consumed(Op) = Length(Op) /\ (m = "rel" => Length(Op) = 2)
  BY <1>3, <1>9, EntryIs DEF Mode, Name
<1>11. Length(Op) = Len(b)
  BY <1>4, <1>9
<1>12. /\ OperandBytes(m) = 2 => Len(b) = 3
       /\ m \in {"imm", "zp", "zpx", "zpy", "indx", "indy"} => Len(b) = 2
  <2>1. Length(Op) = IF s.name = "BRK" THEN 2 ELSE 1 + OperandBytes(m)
    BY <1>3, <1>9, EntryIs
  <2>2. s.name = "BRK" => m = "imp"
    BY <1>3 DEF Has, Listed, Modes
  <2> QED BY <1>11, <2>1, <2>2 DEF OperandBytes
<1>13. m = "rel" =>
         (pc + 2 + (IF At(pc + 1) < 128 THEN At(pc + 1) ELSE At(pc + 1) - 256)) % Space = val
  <2>1. SUFFICES ASSUME m = "rel"
                 PROVE  (pc + 2 + (IF At(pc + 1) < 128 THEN At(pc + 1) ELSE At(pc + 1) - 256)) % Space = val
    OBVIOUS
  <2> DEFINE byte == At(pc + 1)
             d == Offset(x, e)
             signed == IF byte < 128 THEN byte ELSE byte - 256
  <2>2. byte = d % 256 /\ d \in -128..127
    BY <1>3, <1>4, <1>8, <1>10, <1>11, <2>1
  <2>3. d = val - (pc + 2)
    BY <1>2 DEF Offset
  <2> HIDE DEF byte, d
  <2>4. signed = d
    BY <2>2, SignedByte
  <2> HIDE DEF signed, val
  <2>5. pc + 2 + signed = val
    BY <1>7, <2>2, <2>3, <2>4
  <2>6. val % Space = val
    BY <1>7, Wraps, AddressesAre
  <2> QED BY <2>5, <2>6 DEF byte, signed
<1>14. OperandBytes(m) = 2 => Word(pc + 1) = val
  <2>1. SUFFICES ASSUME OperandBytes(m) = 2 PROVE Word(pc + 1) = val
    OBVIOUS
  <2>2. At(pc + 1) = val % 256 /\ At(pc + 2) = val \div 256
    BY <1>4, <1>8, <1>12, <2>1
  <2>3. pc + 1 + 1 = pc + 2
    BY <1>7
  <2>4. Word(pc + 1) = (val % 256) + 256 * (val \div 256)
    BY <2>2, <2>3 DEF Word
  <2> HIDE DEF val
  <2> QED BY <1>7, <2>4
<1>15. m \in {"imm", "zp", "zpx", "zpy", "indx", "indy"} => At(pc + 1) = val % 256
  BY <1>4, <1>8, <1>12
<1>16. s.class \notin {"empty", "acc"} => Known(x, e)
  BY <1>1, <1>3 DEF Fails
<1>17. Fetched(x, s)
  BY <1>3, <1>6, <1>10, <1>13, <1>14, <1>15, <1>16 DEF Fetched, m
<1> QED BY <1>1, <1>2, <1>6, <1>11, <1>17 DEF x, s

\* With every symbol at the value of pass 1, that is what the line means.
LEMMA EncodesAt ==
  ASSUME Typed, NEW v, NEW w, Assembled(v, w), DefinedOnce, Backward,
         NEW i \in 1..line, NEW k, k = i - 1,
         program[i].is = "instruction", pc = places[i]
  PROVE  InImage(pc) /\ Encodes(program[i])
<1> DEFINE x == v[k]
           s == program[i]
           e == s.expr
<1>1. Fetched(x, s) /\ x \in Context /\ s \in Lines /\ pc = x.addr /\ s.is = "instruction"
  BY FetchedAt
<1>2. x.symbols = c.symbols
  <2> DEFINE m == line
  <2>1. Second(v, m, w, m) /\ v[m] = c /\ m \in 0..m /\ i \in 1..m
    BY DEF Assembled, Typed
  <2> HIDE DEF m
  <2>2. k \in 0..m
    BY <2>1, SecondStep
  <2>3. Agreed(v, w, m, k) /\ Agreed(v, w, m, m)
    BY <2>1, <2>2, Agree
  <2> QED BY <2>1, <2>3 DEF Agreed
<1> HIDE DEF x, s
<1>3. s.class \in Classes /\ Written(e)
  BY <1>1, LinesAre
<1>4. Known(x, e) => Meant(e) = Value(x, e)
  <2>1. SUFFICES ASSUME Known(x, e) PROVE Meant(e) = Value(x, e)
    OBVIOUS
  <2> DEFINE t == Term(x, e)
             u == CASE e.sym = Here -> pc [] e.sym = NoSymbol -> 0 [] OTHER -> c.symbols[e.sym]
  <2>2. NoSymbol \notin DOMAIN x.symbols /\ Here \notin DOMAIN x.symbols
    BY <1>1, ContextIs, SymbolsAre, NamesAre
  <2>3. t = u
    BY <1>1, <1>2, <2>1, <2>2 DEF Term, Known, Here, NoSymbol
  <2>4. t \in Int /\ e.add \in Int
    BY <1>1, <1>3, TermRange DEF Written
  <2>5. Meant(e) = Part(e.part, e.add + u) /\ Value(x, e) = Part(e.part, t + e.add)
    BY DEF Meant, Value
  <2> HIDE DEF t, u, e
  <2>6. e.add + u = t + e.add
    BY <2>3, <2>4
  <2> QED BY <2>5, <2>6
<1>5. s.class \in {"empty", "acc"} => Mode \in {"imp", "acc"}
  BY <1>1 DEF Fetched, LineMode, ModeOf
<1>6. Mode \notin {"imp", "acc"} => Meant(e) = Value(x, e)
  BY <1>1, <1>4, <1>5 DEF Fetched
<1>7. Mode \in ClassModes[s.class] /\ (Mode \in {"zp", "zpx", "zpy"} => Zero(x, e))
  <2>1. Mode = ModeOf(x, s.name, s.class, e)
    BY <1>1 DEF Fetched, LineMode
  <2> HIDE DEF e
  <2> QED BY <1>3, <2>1 DEF ModeOf, ClassModes, Classes
<1>8. Mode \in {"zp", "zpx", "zpy"} => Value(x, e) % 256 = Value(x, e)
  <2> DEFINE val == Value(x, e)
  <2>1. val \in Int /\ 0 <= val
    BY <1>1, <1>3, ValueRange
  <2>2. Zero(x, e) => val <= 255
    BY DEF Zero
  <2> HIDE DEF val
  <2>3. val <= 255 => val % 256 = val
    BY <2>1
  <2> QED BY <1>7, <2>2, <2>3 DEF val
<1>9. OperandBytes(Mode) = 2 => Mode \notin {"imp", "acc"}
  BY DEF OperandBytes
<1> HIDE DEF e
<1>10. /\ InImage(pc)
       /\ Name = (IF s.name = "NOP" THEN "none" ELSE s.name)
       /\ Mode \in ClassModes[s.class]
       /\ Consumed(Op) = Length(Op)
       /\ OperandBytes(Mode) = 2 => Word(pc + 1) = Meant(e)
       /\ Mode \in {"zp", "zpx", "zpy"} => At(pc + 1) = Meant(e)
       /\ Mode \in {"imm", "indx", "indy"} => At(pc + 1) = Meant(e) % 256
  BY <1>1, <1>6, <1>7, <1>8, <1>9 DEF Fetched, e
<1>11. Mode = "rel" =>
         Meant(e) = (pc + 2 + (IF At(pc + 1) < 128 THEN At(pc + 1) ELSE At(pc + 1) - 256)) % Space
  <2> DEFINE to == (pc + 2 + (IF At(pc + 1) < 128 THEN At(pc + 1) ELSE At(pc + 1) - 256)) % Space
  <2>1. Mode = "rel" => to = Value(x, e)
    BY <1>1 DEF Fetched, e
  <2> HIDE DEF to
  <2>2. Mode = "rel" => Meant(e) = to
    BY <1>6, <2>1
  <2> QED BY <2>2 DEF to
<1> QED BY <1>10, <1>11, Zenon DEF Encodes, e, s

-----------------------------------------------------------------------------
(* Where a step leads. *)

NoRoom(i, j) == \A k \in (i + 1)..j : program[k].is \in {"label", "equate"}

\* Labels and equates take no room.
LEMMA Level ==
  ASSUME NEW v, NEW m, NEW w, NEW n, Second(v, m, w, n), NEW i \in 0..m, NEW j \in i..m,
         NoRoom(i, j)
  PROVE  v[j].addr = v[i].addr
<1> DEFINE S == {k \in 0..m : k >= i => v[k].addr = v[i].addr}
<1>0. m \in Nat /\ j \in Nat /\ i \in Nat /\ j <= m
  BY DEF Second
<1>1. 0 \in S
  BY <1>0
<1>2. ASSUME NEW k \in 1..j, k - 1 \in S PROVE k \in S
  <2> DEFINE h == k - 1
  <2>1. h = k - 1 /\ k \in 1..m /\ k \in 0..m /\ h \in Int /\ (k >= i => h >= i \/ k = i) /\ (h >= i => k \in (i + 1)..j)
    BY <1>0
  <2>2. h >= i => v[h].addr = v[i].addr
    BY <1>2
  <2> HIDE DEF h
  <2>3. v[h] \in Context /\ program[k] \in Lines /\ v[k] = Read(v[h], program[k]) /\ v[k].ok
    BY <2>1, SecondStep
  <2>4. h >= i => program[k].is \in {"label", "equate"}
    BY <2>1 DEF NoRoom
  <2>5. h >= i => Same(v[h], v[k])
    BY <2>3, <2>4, ReadLabel, ReadEquate
  <2> QED BY <2>1, <2>2, <2>5 DEF Same
<1>3. Climbs(S, j)
  BY <1>1, <1>2 DEF Climbs
<1> HIDE DEF S
<1>4. j \in S
  BY <1>0, <1>3, Climb
<1> QED BY <1>0, <1>4 DEF S

LEMMA LeadPlace ==
  ASSUME Typed, line = Len(program), NEW v, NEW w, Assembled(v, w), NEW i \in 0..line,
         NEW l, l = i + 1, Lead(l) # 0
  PROVE  IsInstruction(Lead(l)) /\ places[Lead(l)] = v[i].addr
<1> DEFINE j == Lead(l)
           m == line
           h == j - 1
<1>1. m \in Nat /\ Second(v, m, w, m) /\ m = Len(program) /\ \A k \in 1..m : places[k] = v[k - 1].addr
  BY DEF Assembled, Typed
<1>2. l \in Nat \ {0}
  BY <1>1
<1>3. j \in l..Len(program) /\ IsInstruction(j) /\ \A k \in l..(j - 1) : program[k].is \in {"label", "equate"}
  BY <1>2, LeadIs
<1> HIDE DEF j, m
<1>4. h \in i..m /\ i \in 0..m /\ j \in 1..m /\ NoRoom(i, h)
  BY <1>1, <1>3 DEF m, NoRoom
<1>5. places[j] = v[h].addr
  BY <1>1, <1>4
<1> HIDE DEF h
<1>6. v[h].addr = v[i].addr
  BY <1>1, <1>4, Level
<1> QED BY <1>3, <1>5, <1>6 DEF j

\* A jump by label reaches the label's line.
LEMMA LinePlace ==
  ASSUME Typed, line = Len(program), NEW v, NEW w, Assembled(v, w), DefinedOnce, Backward,
         NEW i \in 1..line, NEW k, k = i - 1, IsInstruction(i), NEW e, LineOf(i, e) # 0
  PROVE  IsInstruction(LineOf(i, e)) /\ places[LineOf(i, e)] = Value(v[k], e)
<1> DEFINE m == line
           x == v[k]
           to == LineOf(i, e)
<1>1. /\ m \in Nat /\ Second(v, m, w, m) /\ First(w, m) /\ m = Len(program)
      /\ \A j \in 1..m : places[j] = v[j - 1].addr
  BY DEF Assembled, Typed, Second
<1>2. /\ e.add = 0 /\ e.part = "whole"
      /\ \/ e.sym = Here /\ to = i
         \/ \E j \in DOMAIN program : /\ program[j].is = "label" /\ program[j].name = e.sym
                                      /\ e.sym # Here /\ to = Lead(j)
  BY LineOfIs
<1>3. x \in Context /\ Agreed(v, w, m, k)
  <2>1. i \in 1..m
    OBVIOUS
  <2> HIDE DEF m
  <2>2. x \in Context /\ k \in 0..m
    BY <1>1, <2>1, SecondStep
  <2> QED BY <1>1, <2>2, Agree
<1>4. Term(x, e) \in Addresses => Value(x, e) = Term(x, e)
  <2> DEFINE t == Term(x, e)
             t0 == t + e.add
  <2>1. Value(x, e) = t0 % Space
    BY <1>2 DEF Value, Part
  <2>2. t \in Int
    BY <1>3, TermRange
  <2> HIDE DEF t
  <2>3. t0 = t
    BY <1>2, <2>2
  <2> HIDE DEF t0
  <2>4. t \in Addresses => t % Space = t
    BY <2>2, Wraps
  <2> QED BY <2>1, <2>3, <2>4 DEF t
<1>5. CASE e.sym = Here /\ to = i
  <2>1. Term(x, e) = x.addr /\ x.addr \in Addresses
    <3>1. Here \notin DOMAIN x.symbols /\ x.addr \in Addresses
      BY <1>3, ContextIs, SymbolsAre, NamesAre, AddressesAre
    <3> QED BY <1>5, <3>1 DEF Term
  <2>2. places[i] = x.addr
    BY <1>1
  <2> QED BY <1>4, <1>5, <2>1, <2>2
<1>6. ASSUME NEW j \in DOMAIN program, program[j].is = "label", program[j].name = e.sym,
             e.sym # Here, to = Lead(j)
      PROVE  IsInstruction(to) /\ places[to] = Value(x, e)
  <2> DEFINE h == j - 1
             g == w[m].symbols
  <2>1. j \in 1..m /\ h = j - 1 /\ h \in 0..m /\ j \in 0..m /\ j = h + 1 /\ m \in 0..m
    BY <1>1, <1>6 DEF Typed
  <2> HIDE DEF h
  <2>2. IsInstruction(to) /\ places[to] = v[h].addr
    BY <1>6, <2>1, LeadPlace
  <2>3. e.sym \in DOMAIN w[j].symbols /\ w[j].symbols[e.sym] = w[h].addr
    BY <1>1, <1>6, <2>1, FirstKeeps
  <2>4. Keeps(w[j].symbols, g)
    BY <1>1, <2>1, Persist
  <2>5. v[h].addr = w[h].addr /\ v[h] \in Context
    <3> HIDE DEF m
    <3>1. Agreed(v, w, m, h) /\ v[h] \in Context
      BY <1>1, <2>1, Agree, Images
    <3> QED BY <3>1 DEF Agreed, Alike
  <2>6. x.symbols = g
    BY <1>3 DEF Agreed
  <2>7. e.sym \in DOMAIN x.symbols /\ x.symbols[e.sym] = v[h].addr
    BY <2>3, <2>4, <2>5, <2>6 DEF Keeps
  <2>8. Term(x, e) = v[h].addr /\ v[h].addr \in Addresses
    <3>1. v[h].addr \in Addresses
      BY <2>5 DEF Context
    <3> QED BY <1>6, <2>7, <3>1 DEF Term
  <2> QED BY <1>4, <2>2, <2>8
<1> QED BY <1>2, <1>5, <1>6

-----------------------------------------------------------------------------
(* The invariant: there are contexts the passes went through. *)

Passed(v, w) ==
  /\ Second(v, line, w, Len(program)) /\ v[line] = c
  /\ \A i \in 1..line : places[i] = v[i - 1].addr

Walked ==
  /\ phase = "pass1" => \E w : First(w, line) /\ w[line] = c
  /\ phase \in {"pass2", "run"} => \E v, w : Passed(v, w)

Follows == phase = "run" /\ DefinedOnce /\ Backward => pc = places[cursor]

Inv == Typed /\ Walked /\ Follows

Longer(w, q, z) == [i \in 0..q |-> IF i = q THEN z ELSE w[i]]

LEMMA WalkGrow ==
  ASSUME NEW w, NEW n \in Nat, NEW x, Walk(w, n, x), NEW z \in Context, z.ok, NEW q, q = n + 1,
         z = Read(w[n], program'[q]), \A i \in 1..n : program'[i] = program[i]
  PROVE  /\ Walk(Longer(w, q, z), q, x)'
         /\ Longer(w, q, z)[q] = z /\ \A i \in 0..n : Longer(w, q, z)[i] = w[i]
<1> DEFINE u == Longer(w, q, z)
<1>1. /\ w \in [0..n -> Context] /\ w[0] = x
      /\ \A i \in 1..n : w[i] = Read(w[i - 1], program[i]) /\ w[i].ok
  BY DEF Walk
<1>2. /\ u \in [0..q -> Context] /\ u[q] = z /\ u[0] = w[0] /\ \A i \in 0..n : u[i] = w[i]
  BY <1>1 DEF Longer
<1> HIDE DEF u
<1>3. ASSUME NEW i \in 1..q PROVE u[i] = Read(u[i - 1], program'[i]) /\ u[i].ok
  <2>1. CASE i = q
    <3>1. i - 1 = n /\ n \in 0..n
      BY <2>1
    <3>2. u[i - 1] = w[n]
      BY <1>2, <3>1
    <3> QED BY <1>2, <2>1, <3>2
  <2>2. CASE i # q
    <3> DEFINE k == i - 1
    <3>1. i \in 1..n /\ k \in 0..n /\ i \in 0..n
      BY <2>2
    <3>2. w[i] = Read(w[k], program[i]) /\ w[i].ok /\ program'[i] = program[i]
      BY <1>1, <3>1
    <3> HIDE DEF k
    <3>3. u[i] = w[i] /\ u[k] = w[k]
      BY <1>2, <3>1
    <3> QED BY <3>2, <3>3 DEF k
  <2> QED BY <2>1, <2>2
<1> QED BY <1>1, <1>2, <1>3 DEF Walk, u

LEMMA WalkOne ==
  ASSUME NEW x \in Context
  PROVE  LET u == [i \in {0} |-> x] IN Walk(u, 0, x) /\ Walk(u, 0, x)' /\ u[0] = x
BY DEF Walk

LEMMA WalkedInit == Init => Walked
<1>1. SUFFICES ASSUME Init PROVE Walked
  OBVIOUS
<1> DEFINE x == Fresh(NoSymbols, FALSE)
           u == [i \in {0} |-> x]
<1>2. x \in Context
  BY NoSymbolsAre, FreshContext
<1>3. Walk(u, 0, x) /\ u[0] = x
  BY <1>2, WalkOne
<1>4. c = x /\ line = 0 /\ program = <<>> /\ phase = "pass1"
  BY <1>1 DEF Init
<1>5. program \in Seq(Lines) /\ 0 <= Len(program)
  <2>1. <<>> \in Seq(Lines) /\ 0 <= Len(<<>>)
    BY EmptySeq
  <2> QED BY <1>4, <2>1
<1> HIDE DEF u
<1>6. First(u, line) /\ u[line] = c
  BY <1>3, <1>4, <1>5 DEF First
<1> QED BY <1>4, <1>6 DEF Walked

LEMMA WalkedPass1 ==
  ASSUME Typed, Walked, Pass1
  PROVE  Walked'
<1>1. PICK s \in Lines : Takes(s) /\ program' = Append(program, s)
  BY DEF Pass1, Lines
<1>2. /\ phase = "pass1" /\ phase' \in {"pass1", "done"} /\ (phase' = "pass1" => c'.ok)
      /\ c' = Read(c, s) /\ line' = line + 1 /\ line = Len(program)
  BY <1>1 DEF Takes, Pass1, Typed
<1>3. PICK w : First(w, line) /\ w[line] = c
  BY <1>2 DEF Walked
<1>4. PICK n \in Nat : n = line
  BY DEF Typed
<1>5. PICK z : z = c'
  OBVIOUS
<1>6. SUFFICES ASSUME c'.ok PROVE \E u : First(u, line)' /\ u[line'] = c'
  BY <1>2 DEF Walked
<1> DEFINE q == n + 1
           u == Longer(w, q, z)
           x == Fresh(NoSymbols, FALSE)
<1>7. z \in Context /\ z.ok
  BY <1>1, <1>2, <1>5, <1>6, ReadContext DEF Typed
<1>8. /\ program \in Seq(Lines) /\ Len(program) = n /\ program' \in Seq(Lines) /\ Len(program') = q
      /\ program'[q] = s /\ \A i \in 1..n : program'[i] = program[i]
  BY <1>1, <1>2, <1>4 DEF Typed
<1>9. Walk(w, n, x) /\ z = Read(w[n], program'[q])
  BY <1>2, <1>3, <1>4, <1>5, <1>8 DEF First
<1>a. q = n + 1 /\ q \in Nat /\ q = line'
  BY <1>2, <1>4
<1> HIDE DEF q, x, u
<1>10. Walk(Longer(w, q, z), q, x)' /\ Longer(w, q, z)[q] = z
  BY <1>7, <1>8, <1>9, <1>a, WalkGrow
<1>11. First(u, q)' /\ u[q] = z
  <2>1. Walk(u, q, x)' /\ u[q] = z
    BY <1>10 DEF u
  <2>2. program' \in Seq(Lines) /\ q \in Nat /\ q <= Len(program')
    BY <1>8, <1>a
  <2> QED BY <2>1, <2>2 DEF First, x
<1>12. First(u, line)' /\ u[line'] = c'
  BY <1>5, <1>11, <1>a DEF First
<1> QED BY <1>12

LEMMA WalkedStart ==
  ASSUME Typed, Walked, StartPass2
  PROVE  Walked'
<1>1. /\ phase = "pass1" /\ phase' = "pass2" /\ line' = 0 /\ c' = Fresh(c.symbols, TRUE)
      /\ program' = program /\ line = Len(program)
  BY DEF StartPass2, Typed
<1>2. PICK w : First(w, line) /\ w[line] = c
  BY <1>1 DEF Walked
<1>3. PICK n \in Nat : n = line
  BY DEF Typed
<1> DEFINE x == Fresh(w[n].symbols, TRUE)
           u == [i \in {0} |-> x]
<1>4. x \in Context /\ c' = x
  BY <1>1, <1>2, <1>3, ContextIs, FreshContext DEF Typed
<1>5. Walk(u, 0, x)' /\ u[0] = x
  <2> HIDE DEF x
  <2> QED BY <1>4, WalkOne
<1>6. First(w, n)'
  BY <1>1, <1>2, <1>3 DEF First, Walk
<1> HIDE DEF u
<1>7. Second(u, 0, w, n)'
  <2>1. n = Len(program') /\ 0 <= n
    BY <1>1, <1>3
  <2> QED BY <1>5, <1>6, <2>1 DEF Second
<1>8. Passed(u, w)'
  <2>1. line' = 0 /\ n = Len(program') /\ u[line'] = c'
    BY <1>1, <1>3, <1>4, <1>5
  <2>2. 1..0 = {}
    OBVIOUS
  <2>3. Second(u, line, w, Len(program))'
    BY <1>7, <2>1 DEF Second, First
  <2> QED BY <2>1, <2>2, <2>3 DEF Passed
<1> QED BY <1>1, <1>8 DEF Walked

LEMMA WalkedPass2 ==
  ASSUME Typed, Walked, Pass2
  PROVE  Walked'
<1> DEFINE s == program[line + 1]
<1>1. /\ phase = "pass2" /\ phase' \in {"pass2", "done"} /\ (phase' = "pass2" => c'.ok)
      /\ c' = Read(c, s) /\ line' = line + 1 /\ line < Len(program) /\ program' = program
      /\ places' = Append(places, c.addr)
  BY DEF Pass2, Takes
<1>2. PICK v, w : Passed(v, w)
  BY <1>1 DEF Walked
<1>3. PICK m \in Nat : m = line
  BY DEF Typed
<1>4. PICK n \in Nat : n = Len(program)
  BY DEF Typed
<1>5. PICK z : z = c'
  OBVIOUS
<1>6. SUFFICES ASSUME c'.ok PROVE \E u : Passed(u, w)'
  BY <1>1 DEF Walked
<1> DEFINE q == m + 1
           u == Longer(v, q, z)
           x == Fresh(w[n].symbols, TRUE)
<1>7. s \in Lines /\ program \in Seq(Lines) /\ s = program'[q]
  BY <1>1, <1>3 DEF Typed
<1>8. z \in Context /\ z.ok
  BY <1>1, <1>5, <1>6, <1>7, ReadContext DEF Typed
<1>9. Walk(v, m, x) /\ First(w, n) /\ v[m] = c /\ m <= n
  BY <1>2, <1>3, <1>4 DEF Passed, Second
<1>10. z = Read(v[m], program'[q]) /\ \A i \in 1..m : program'[i] = program[i]
  BY <1>1, <1>5, <1>7, <1>9
<1>a. q = m + 1 /\ q \in Nat /\ q = line' /\ q <= n
  BY <1>1, <1>3, <1>4
<1> HIDE DEF q, x, s
<1>11. Walk(Longer(v, q, z), q, x)' /\ Longer(v, q, z)[q] = z /\ \A i \in 0..m : Longer(v, q, z)[i] = v[i]
  BY <1>8, <1>9, <1>10, <1>a, WalkGrow
<1>12. Walk(u, q, x)' /\ u[q] = z /\ \A i \in 0..m : u[i] = v[i]
  BY <1>11
<1> HIDE DEF u
<1>13. First(w, n)'
  BY <1>1, <1>9 DEF First, Walk
<1>14. Second(u, q, w, n)'
  BY <1>1, <1>4, <1>12, <1>13, <1>a DEF Second, x
<1>15. ASSUME NEW i \in 1..q PROVE places'[i] = u[i - 1].addr
  <2> DEFINE k == i - 1
  <2>1. k \in 0..m /\ places \in Seq(Addresses) /\ Len(places) = m
    BY <1>3, <1>a DEF Typed
  <2>2. u[k] = v[k]
    BY <1>12, <2>1
  <2>3. CASE i = q
    <3>1. k = m /\ places'[i] = c.addr
      BY <1>1, <1>a, <2>1, <2>3
    <3> QED BY <1>9, <2>2, <3>1
  <2>4. CASE i # q
    <3>1. i \in 1..m
      BY <1>a, <2>4
    <3>2. places'[i] = places[i]
      BY <1>1, <2>1, <3>1
    <3>3. places[i] = v[k].addr
      BY <1>2, <1>3, <3>1 DEF Passed
    <3> QED BY <2>2, <3>2, <3>3
  <2> QED BY <2>3, <2>4
<1>16. Passed(u, w)'
  <2>1. line' = q /\ Len(program') = n /\ u[line'] = c'
    BY <1>1, <1>4, <1>5, <1>12, <1>a
  <2>2. Second(u, line, w, Len(program))'
    BY <1>14, <2>1 DEF Second, First
  <2> QED BY <1>15, <2>1, <2>2 DEF Passed
<1> QED BY <1>16

LEMMA WalkedKept ==
  ASSUME Walked, UNCHANGED <<program, line, c, places>>,
         phase' \in {"pass2", "run"} => phase \in {"pass2", "run"}, phase' = "pass1" => phase = "pass1"
  PROVE  Walked'
<1>1. \A w : (First(w, line) <=> First(w, line)')
  BY DEF First, Walk
<1>2. \A v, w : Second(v, line, w, Len(program)) => Second(v, line, w, Len(program))'
  BY DEF Second, First, Walk
<1>3. \A v, w : Passed(v, w) => Passed(v, w)'
  BY <1>2 DEF Passed
<1> QED BY <1>1, <1>3 DEF Walked

\* What the running program's source and code have to say of each other.
LEMMA InvRuns ==
  ASSUME Inv, phase = "run", DefinedOnce, Backward
  PROVE  /\ line = Len(program) /\ cursor \in 1..line /\ pc = places[cursor]
         /\ program[cursor].is = "instruction" /\ IsInstruction(cursor)
         /\ \E v, w : Assembled(v, w)
<1>1. line = Len(program) /\ IsInstruction(cursor) /\ program \in Seq(Lines) /\ pc = places[cursor]
  BY DEF Inv, Typed, Follows
<1>2. \E v, w : Passed(v, w)
  BY DEF Inv, Walked
<1>3. ASSUME NEW v, NEW w, Passed(v, w) PROVE Assembled(v, w)
  BY <1>1, <1>3 DEF Passed, Assembled
<1> QED BY <1>1, <1>2, <1>3 DEF IsInstruction

LEMMA InvWritten == Inv => RunsAsWritten
<1>1. SUFFICES ASSUME Inv, phase = "run", DefinedOnce, Backward
               PROVE  pc = places[cursor] /\ InImage(pc) /\ Encodes(program[cursor])
  BY DEF RunsAsWritten
<1>2. /\ cursor \in 1..line /\ pc = places[cursor] /\ program[cursor].is = "instruction"
      /\ \E v, w : Assembled(v, w)
  BY <1>1, InvRuns
<1>3. PICK v, w : Assembled(v, w)
  BY <1>2
<1>4. PICK i \in 1..line : i = cursor
  BY <1>2
<1> DEFINE k == i - 1
<1>5. k = i - 1
  OBVIOUS
<1> HIDE DEF k
<1>6. InImage(pc) /\ Encodes(program[i])
  BY <1>1, <1>2, <1>3, <1>4, <1>5, EncodesAt DEF Inv
<1> QED BY <1>2, <1>4, <1>6

\* The CPU goes where the source goes.
LEMMA StepFollows ==
  ASSUME Inv, Execute, DefinedOnce, Backward, phase' = "run"
  PROVE  pc' = places[cursor']
<1>1. /\ phase = "run" /\ line = Len(program) /\ cursor \in 1..line /\ pc = places[cursor]
      /\ program[cursor].is = "instruction" /\ IsInstruction(cursor)
      /\ \E v, w : Assembled(v, w)
  <2>1. phase = "run"
    BY DEF Execute
  <2> QED BY <2>1, InvRuns
<1>2. PICK v, w : Assembled(v, w)
  BY <1>1
<1>3. PICK i \in 1..line : i = cursor
  BY <1>1
<1> DEFINE k == i - 1
           x == v[k]
           s == program[i]
           e == s.expr
           l == i + 1
<1>4. k = i - 1 /\ l = i + 1 /\ i \in 0..line /\ IsInstruction(i) /\ Typed
  BY <1>1, <1>3 DEF Inv
<1> HIDE DEF k, l
<1>5. Fetched(x, s) /\ v[i].addr = (pc + Length(Op)) % Space
  BY <1>1, <1>2, <1>3, <1>4, FetchedAt
<1>6. Lead(l) # 0 => places[Lead(l)] = (pc + Length(Op)) % Space
  BY <1>1, <1>2, <1>4, <1>5, LeadPlace
<1>7. LineOf(i, e) # 0 => places[LineOf(i, e)] = Value(x, e)
  BY <1>1, <1>2, <1>4, LinePlace
<1>8. program[cursor].expr = e /\ LineOf(cursor, e) = LineOf(i, e) /\ Lead(cursor + 1) = Lead(l)
  BY <1>3 DEF l
<1> HIDE DEF x, s, e
<1>9. ASSUME NEW p, NEW j, NEW cycles, Continues(p, j, cycles) PROVE pc' = p /\ cursor' = j /\ j # 0
  BY <1>9 DEF Continues
<1>10. ASSUME NEW taken \in BOOLEAN, Branch(taken) PROVE pc' = places[cursor']
  <2> DEFINE next == pc + 2
             byte == At(pc + 1)
             target == (next + (IF byte < 128 THEN byte ELSE byte - 256)) % Space
             far == target \div 256 # (next % Space) \div 256
             p == IF taken THEN target ELSE next % Space
             j == IF taken THEN LineOf(cursor, program[cursor].expr) ELSE Lead(cursor + 1)
             cycles == Cycles(Ticks(Op) + BranchPenalty(taken, far), taken, FALSE)
  <2>1. Mode = "rel" /\ Continues(p, j, cycles)
    BY <1>10 DEF Branch
  <2>2. Length(Op) = 2 /\ target = Value(x, e)
    BY <1>5, <2>1 DEF Fetched, e
  <2>3. p = (IF taken THEN Value(x, e) ELSE (pc + Length(Op)) % Space)
    BY <2>2
  <2>4. j = (IF taken THEN LineOf(i, e) ELSE Lead(l))
    BY <1>8
  <2> HIDE DEF p, j, cycles
  <2>5. pc' = p /\ cursor' = j /\ j # 0
    BY <1>9, <2>1
  <2> QED BY <1>6, <1>7, <2>3, <2>4, <2>5
<1>11. CASE Jump
  <2> DEFINE p == Word(pc + 1)
             j == LineOf(cursor, program[cursor].expr)
             cycles == Cycles(Ticks(Op), TRUE, FALSE)
  <2>1. Mode = "abs" /\ Continues(p, j, cycles)
    BY <1>11 DEF Jump
  <2>2. p = Value(x, e)
    BY <1>5, <2>1 DEF Fetched, e, OperandBytes
  <2>3. j = LineOf(i, e)
    BY <1>8
  <2> HIDE DEF p, j, cycles
  <2>4. pc' = p /\ cursor' = j /\ j # 0
    BY <1>9, <2>1
  <2> QED BY <1>7, <2>2, <2>3, <2>4
<1>12. CASE Leave
  BY <1>12 DEF Leave, Continues
<1>13. ASSUME NEW crossed \in BOOLEAN, Straight(crossed) PROVE pc' = places[cursor']
  <2> DEFINE p == (pc + Consumed(Op)) % Space
             j == Lead(cursor + 1)
             cycles == Cycles(Ticks(Op) + Penalty(Op, crossed), FALSE, crossed)
  <2>1. Continues(p, j, cycles)
    BY <1>13 DEF Straight
  <2>2. p = (pc + Length(Op)) % Space
    BY <1>5 DEF Fetched
  <2>3. j = Lead(l)
    BY <1>8
  <2> HIDE DEF p, j, cycles
  <2>4. pc' = p /\ cursor' = j /\ j # 0
    BY <1>9, <2>1
  <2> QED BY <1>6, <2>2, <2>3, <2>4
<1> QED BY <1>10, <1>11, <1>12, <1>13 DEF Execute

LEMMA InvInit == Init => Inv
BY TypedInit, WalkedInit DEF Inv, Follows, Init

LEMMA InvNext == Inv /\ [Next]_vars => Inv'
<1>1. SUFFICES ASSUME Inv, [Next]_vars PROVE Walked' /\ Follows'
  BY TypedNext DEF Inv
<1>2. Typed /\ Walked
  BY <1>1 DEF Inv
<1>3. CASE Pass1
  <2>1. phase' # "run"
    BY <1>3 DEF Pass1, Takes
  <2> QED BY <1>2, <1>3, <2>1, WalkedPass1 DEF Follows
<1>4. CASE StartPass2
  <2>1. phase' # "run"
    BY <1>4 DEF StartPass2
  <2> QED BY <1>2, <1>4, <2>1, WalkedStart DEF Follows
<1>5. CASE Pass2
  <2>1. phase' # "run"
    BY <1>5 DEF Pass2, Takes
  <2> QED BY <1>2, <1>5, <2>1, WalkedPass2 DEF Follows
<1>6. CASE Run
  <2>1. /\ UNCHANGED <<program, line, c, places>> /\ phase = "pass2" /\ phase' = "run"
        /\ pc' = places[cursor']
    BY <1>6 DEF Run
  <2> QED BY <1>2, <2>1, WalkedKept DEF Follows
<1>7. CASE Execute
  <2>1. UNCHANGED <<program, line, c, places>> /\ phase = "run" /\ phase' \in {"run", "done"}
    BY <1>7 DEF Execute, Branch, Jump, Leave, Straight, Continues
  <2>2. Walked'
    BY <1>2, <2>1, WalkedKept
  <2>3. DefinedOnce' /\ Backward' => DefinedOnce /\ Backward
    BY <2>1 DEF DefinedOnce, Backward, Defines
  <2>4. Follows'
    BY <1>1, <1>7, <2>1, <2>3, StepFollows DEF Follows
  <2> QED BY <2>2, <2>4
<1>8. CASE UNCHANGED vars
  <2>1. /\ UNCHANGED <<program, line, c, places>> /\ phase' = phase /\ pc' = pc /\ cursor' = cursor
    BY <1>8 DEF vars
  <2>2. Walked'
    BY <1>2, <2>1, WalkedKept
  <2>3. DefinedOnce' /\ Backward' => DefinedOnce /\ Backward
    BY <2>1 DEF DefinedOnce, Backward, Defines
  <2>4. Follows'
    BY <1>1, <2>1, <2>3 DEF Follows, Inv
  <2> QED BY <2>2, <2>4
<1> QED BY <1>1, <1>3, <1>4, <1>5, <1>6, <1>7, <1>8 DEF Next

\* What the assembler accepts runs as it is written, whatever the lines, the program's length,
\* its gaps and its forward references, if symbols are defined once and no origin names one below it.
THEOREM WrittenRuns == Spec => []RunsAsWritten
<1>1. Inv => RunsAsWritten
  BY InvWritten
<1> QED BY InvInit, InvNext, <1>1, PTL DEF Spec
=============================================================================
