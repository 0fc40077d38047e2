------------------------------- MODULE Opcodes -------------------------------
(***************************************************************************)
(* The two tables of 6502 instructions lib8bit keeps: opcodes.cpp, which   *)
(* the assembler and the disassembler read, and the switch of cpu_exec,    *)
(* which executes (src/src/cpu.cpp), with its cycles.                      *)
(***************************************************************************)
EXTENDS Integers

Byte  == 0..255
Modes == {"imp", "acc", "imm", "zp", "zpx", "zpy", "abs", "absx", "absy",
          "ind", "indx", "indy", "rel"}

-----------------------------------------------------------------------------
(* opcodes.cpp: the documented instructions by addressing mode.  A second  *)
(* SBC, $EB, is listed too; the assembler takes the first.                 *)

Listed == [
  imp  |-> [BRK |-> \h00, PHP |-> \h08, CLC |-> \h18, PLP |-> \h28, SEC |-> \h38,
            RTI |-> \h40, PHA |-> \h48, CLI |-> \h58, RTS |-> \h60, PLA |-> \h68,
            SEI |-> \h78, DEY |-> \h88, TXA |-> \h8A, TYA |-> \h98, TXS |-> \h9A,
            TAY |-> \hA8, TAX |-> \hAA, CLV |-> \hB8, TSX |-> \hBA, INY |-> \hC8,
            DEX |-> \hCA, CLD |-> \hD8, INX |-> \hE8, NOP |-> \hEA, SED |-> \hF8],
  acc  |-> [ASL |-> \h0A, ROL |-> \h2A, LSR |-> \h4A, ROR |-> \h6A],
  imm  |-> [ORA |-> \h09, AND |-> \h29, EOR |-> \h49, ADC |-> \h69, LDY |-> \hA0,
            LDX |-> \hA2, LDA |-> \hA9, CPY |-> \hC0, CMP |-> \hC9, CPX |-> \hE0,
            SBC |-> \hE9],
  zp   |-> [ORA |-> \h05, ASL |-> \h06, BIT |-> \h24, AND |-> \h25, ROL |-> \h26,
            EOR |-> \h45, LSR |-> \h46, ADC |-> \h65, ROR |-> \h66, STY |-> \h84,
            STA |-> \h85, STX |-> \h86, LDY |-> \hA4, LDA |-> \hA5, LDX |-> \hA6,
            CPY |-> \hC4, CMP |-> \hC5, DEC |-> \hC6, CPX |-> \hE4, SBC |-> \hE5,
            INC |-> \hE6],
  zpx  |-> [ORA |-> \h15, ASL |-> \h16, AND |-> \h35, ROL |-> \h36, EOR |-> \h55,
            LSR |-> \h56, ADC |-> \h75, ROR |-> \h76, STY |-> \h94, STA |-> \h95,
            LDY |-> \hB4, LDA |-> \hB5, CMP |-> \hD5, DEC |-> \hD6, SBC |-> \hF5,
            INC |-> \hF6],
  zpy  |-> [STX |-> \h96, LDX |-> \hB6],
  abs  |-> [ORA |-> \h0D, ASL |-> \h0E, JSR |-> \h20, BIT |-> \h2C, AND |-> \h2D,
            ROL |-> \h2E, JMP |-> \h4C, EOR |-> \h4D, LSR |-> \h4E, ADC |-> \h6D,
            ROR |-> \h6E, STY |-> \h8C, STA |-> \h8D, STX |-> \h8E, LDY |-> \hAC,
            LDA |-> \hAD, LDX |-> \hAE, CPY |-> \hCC, CMP |-> \hCD, DEC |-> \hCE,
            CPX |-> \hEC, SBC |-> \hED, INC |-> \hEE],
  absx |-> [ORA |-> \h1D, ASL |-> \h1E, AND |-> \h3D, ROL |-> \h3E, EOR |-> \h5D,
            LSR |-> \h5E, ADC |-> \h7D, ROR |-> \h7E, STA |-> \h9D, LDY |-> \hBC,
            LDA |-> \hBD, CMP |-> \hDD, DEC |-> \hDE, SBC |-> \hFD, INC |-> \hFE],
  absy |-> [ORA |-> \h19, AND |-> \h39, EOR |-> \h59, ADC |-> \h79, STA |-> \h99,
            LDA |-> \hB9, LDX |-> \hBE, CMP |-> \hD9, SBC |-> \hF9],
  ind  |-> [JMP |-> \h6C],
  indx |-> [ORA |-> \h01, AND |-> \h21, EOR |-> \h41, ADC |-> \h61, STA |-> \h81,
            LDA |-> \hA1, CMP |-> \hC1, SBC |-> \hE1],
  indy |-> [ORA |-> \h11, AND |-> \h31, EOR |-> \h51, ADC |-> \h71, STA |-> \h91,
            LDA |-> \hB1, CMP |-> \hD1, SBC |-> \hF1],
  rel  |-> [BPL |-> \h10, BMI |-> \h30, BVC |-> \h50, BVS |-> \h70, BCC |-> \h90,
            BCS |-> \hB0, BNE |-> \hD0, BEQ |-> \hF0]]

\* The length of each of the 256, undocumented ones included; 0 marks a JAM.
LengthRows ==
  << <<2, 2, 0, 2, 2, 2, 2, 2, 1, 2, 1, 2, 3, 3, 3, 3>>,
    <<2, 2, 0, 2, 2, 2, 2, 2, 1, 3, 1, 3, 3, 3, 3, 3>>,
    <<3, 2, 0, 2, 2, 2, 2, 2, 1, 2, 1, 2, 3, 3, 3, 3>>,
    <<2, 2, 0, 2, 2, 2, 2, 2, 1, 3, 1, 3, 3, 3, 3, 3>>,
    <<1, 2, 0, 2, 2, 2, 2, 2, 1, 2, 1, 2, 3, 3, 3, 3>>,
    <<2, 2, 0, 2, 2, 2, 2, 2, 1, 3, 1, 3, 3, 3, 3, 3>>,
    <<1, 2, 0, 2, 2, 2, 2, 2, 1, 2, 1, 2, 3, 3, 3, 3>>,
    <<2, 2, 0, 2, 2, 2, 2, 2, 1, 3, 1, 3, 3, 3, 3, 3>>,
    <<2, 2, 2, 2, 2, 2, 2, 2, 1, 2, 1, 2, 3, 3, 3, 3>>,
    <<2, 2, 0, 2, 2, 2, 2, 2, 1, 3, 1, 3, 3, 3, 3, 3>>,
    <<2, 2, 2, 2, 2, 2, 2, 2, 1, 2, 1, 2, 3, 3, 3, 3>>,
    <<2, 2, 0, 2, 2, 2, 2, 2, 1, 3, 1, 3, 3, 3, 3, 3>>,
    <<2, 2, 2, 2, 2, 2, 2, 2, 1, 2, 1, 2, 3, 3, 3, 3>>,
    <<2, 2, 0, 2, 2, 2, 2, 2, 1, 3, 1, 3, 3, 3, 3, 3>>,
    <<2, 2, 2, 2, 2, 2, 2, 2, 1, 2, 1, 2, 3, 3, 3, 3>>,
    <<2, 2, 0, 2, 2, 2, 2, 2, 1, 3, 1, 3, 3, 3, 3, 3>> >>

Length(op) == LengthRows[op \div 16 + 1][(op % 16) + 1]

-----------------------------------------------------------------------------
(* cpu_exec: the cases of its switch, by what they execute.  NOP is left to *)
(* its default, which goes by Length.                                       *)

Switch00 == {
   <<\h00, "BRK", "imp">>, <<\h01, "ORA", "indx">>, <<\h05, "ORA", "zp">>, <<\h06, "ASL", "zp">>,
   <<\h08, "PHP", "imp">>, <<\h09, "ORA", "imm">>, <<\h0A, "ASL", "acc">>, <<\h0D, "ORA", "abs">>,
   <<\h0E, "ASL", "abs">>, <<\h10, "BPL", "rel">>, <<\h11, "ORA", "indy">>, <<\h15, "ORA", "zpx">>,
   <<\h16, "ASL", "zpx">>, <<\h18, "CLC", "imp">>, <<\h19, "ORA", "absy">>, <<\h1D, "ORA", "absx">>,
   <<\h1E, "ASL", "absx">>, <<\h20, "JSR", "abs">>, <<\h21, "AND", "indx">>, <<\h24, "BIT", "zp">>,
   <<\h25, "AND", "zp">>, <<\h26, "ROL", "zp">>, <<\h28, "PLP", "imp">>, <<\h29, "AND", "imm">>,
   <<\h2A, "ROL", "acc">>, <<\h2C, "BIT", "abs">>, <<\h2D, "AND", "abs">>, <<\h2E, "ROL", "abs">>,
   <<\h30, "BMI", "rel">>, <<\h31, "AND", "indy">>, <<\h35, "AND", "zpx">>, <<\h36, "ROL", "zpx">>,
   <<\h38, "SEC", "imp">>, <<\h39, "AND", "absy">>, <<\h3D, "AND", "absx">>, <<\h3E, "ROL", "absx">>}

Switch40 == {
   <<\h40, "RTI", "imp">>, <<\h41, "EOR", "indx">>, <<\h45, "EOR", "zp">>, <<\h46, "LSR", "zp">>,
   <<\h48, "PHA", "imp">>, <<\h49, "EOR", "imm">>, <<\h4A, "LSR", "acc">>, <<\h4C, "JMP", "abs">>,
   <<\h4D, "EOR", "abs">>, <<\h4E, "LSR", "abs">>, <<\h50, "BVC", "rel">>, <<\h51, "EOR", "indy">>,
   <<\h55, "EOR", "zpx">>, <<\h56, "LSR", "zpx">>, <<\h58, "CLI", "imp">>, <<\h59, "EOR", "absy">>,
   <<\h5D, "EOR", "absx">>, <<\h5E, "LSR", "absx">>, <<\h60, "RTS", "imp">>, <<\h61, "ADC", "indx">>,
   <<\h65, "ADC", "zp">>, <<\h66, "ROR", "zp">>, <<\h68, "PLA", "imp">>, <<\h69, "ADC", "imm">>,
   <<\h6A, "ROR", "acc">>, <<\h6C, "JMP", "ind">>, <<\h6D, "ADC", "abs">>, <<\h6E, "ROR", "abs">>,
   <<\h70, "BVS", "rel">>, <<\h71, "ADC", "indy">>, <<\h75, "ADC", "zpx">>, <<\h76, "ROR", "zpx">>,
   <<\h78, "SEI", "imp">>, <<\h79, "ADC", "absy">>, <<\h7D, "ADC", "absx">>, <<\h7E, "ROR", "absx">>}

Switch80 == {
   <<\h81, "STA", "indx">>, <<\h84, "STY", "zp">>, <<\h85, "STA", "zp">>, <<\h86, "STX", "zp">>,
   <<\h88, "DEY", "imp">>, <<\h8A, "TXA", "imp">>, <<\h8C, "STY", "abs">>, <<\h8D, "STA", "abs">>,
   <<\h8E, "STX", "abs">>, <<\h90, "BCC", "rel">>, <<\h91, "STA", "indy">>, <<\h94, "STY", "zpx">>,
   <<\h95, "STA", "zpx">>, <<\h96, "STX", "zpy">>, <<\h98, "TYA", "imp">>, <<\h99, "STA", "absy">>,
   <<\h9A, "TXS", "imp">>, <<\h9D, "STA", "absx">>, <<\hA0, "LDY", "imm">>, <<\hA1, "LDA", "indx">>,
   <<\hA2, "LDX", "imm">>, <<\hA4, "LDY", "zp">>, <<\hA5, "LDA", "zp">>, <<\hA6, "LDX", "zp">>,
   <<\hA8, "TAY", "imp">>, <<\hA9, "LDA", "imm">>, <<\hAA, "TAX", "imp">>, <<\hAC, "LDY", "abs">>,
   <<\hAD, "LDA", "abs">>, <<\hAE, "LDX", "abs">>, <<\hB0, "BCS", "rel">>, <<\hB1, "LDA", "indy">>,
   <<\hB4, "LDY", "zpx">>, <<\hB5, "LDA", "zpx">>, <<\hB6, "LDX", "zpy">>, <<\hB8, "CLV", "imp">>,
   <<\hB9, "LDA", "absy">>, <<\hBA, "TSX", "imp">>, <<\hBC, "LDY", "absx">>, <<\hBD, "LDA", "absx">>,
   <<\hBE, "LDX", "absy">>}

SwitchC0 == {
   <<\hC0, "CPY", "imm">>, <<\hC1, "CMP", "indx">>, <<\hC4, "CPY", "zp">>, <<\hC5, "CMP", "zp">>,
   <<\hC6, "DEC", "zp">>, <<\hC8, "INY", "imp">>, <<\hC9, "CMP", "imm">>, <<\hCA, "DEX", "imp">>,
   <<\hCC, "CPY", "abs">>, <<\hCD, "CMP", "abs">>, <<\hCE, "DEC", "abs">>, <<\hD0, "BNE", "rel">>,
   <<\hD1, "CMP", "indy">>, <<\hD5, "CMP", "zpx">>, <<\hD6, "DEC", "zpx">>, <<\hD8, "CLD", "imp">>,
   <<\hD9, "CMP", "absy">>, <<\hDD, "CMP", "absx">>, <<\hDE, "DEC", "absx">>, <<\hE0, "CPX", "imm">>,
   <<\hE1, "SBC", "indx">>, <<\hE4, "CPX", "zp">>, <<\hE5, "SBC", "zp">>, <<\hE6, "INC", "zp">>,
   <<\hE8, "INX", "imp">>, <<\hE9, "SBC", "imm">>, <<\hEB, "SBC", "imm">>, <<\hEC, "CPX", "abs">>,
   <<\hED, "SBC", "abs">>, <<\hEE, "INC", "abs">>, <<\hF0, "BEQ", "rel">>, <<\hF1, "SBC", "indy">>,
   <<\hF5, "SBC", "zpx">>, <<\hF6, "INC", "zpx">>, <<\hF8, "SED", "imp">>, <<\hF9, "SBC", "absy">>,
   <<\hFD, "SBC", "absx">>, <<\hFE, "INC", "absx">>}

Cases == Switch00 \cup Switch40 \cup Switch80 \cup SwitchC0

\* What an opcode executes: an operation, and where it finds its operand.
Executed == [op \in Byte |->
  LET found == {k \in Cases : k[1] = op}
  IN  IF found = {} THEN [name |-> "none", mode |-> "imp"]
      ELSE LET k == CHOOSE k \in found : TRUE IN [name |-> k[2], mode |-> k[3]]]

OperandBytes(mode) ==
  CASE mode \in {"imp", "acc"} -> 0
    [] mode \in {"abs", "absx", "absy", "ind"} -> 2
    [] OTHER -> 1

\* How far an instruction that does not jump moves the program counter.
Consumed(op) ==
  CASE Executed[op].name = "BRK"  -> 2
    [] Executed[op].name = "none" -> Length(op)
    [] OTHER -> 1 + OperandBytes(Executed[op].mode)

-----------------------------------------------------------------------------
(* Cycles. *)

TickRows ==
  << <<7, 6, 2, 8, 3, 3, 5, 5, 3, 2, 2, 2, 4, 4, 6, 6>>,
    <<2, 5, 2, 8, 4, 4, 6, 6, 2, 4, 2, 7, 4, 4, 7, 7>>,
    <<6, 6, 2, 8, 3, 3, 5, 5, 4, 2, 2, 2, 4, 4, 6, 6>>,
    <<2, 5, 2, 8, 4, 4, 6, 6, 2, 4, 2, 7, 4, 4, 7, 7>>,
    <<6, 6, 2, 8, 3, 3, 5, 5, 3, 2, 2, 2, 3, 4, 6, 6>>,
    <<2, 5, 2, 8, 4, 4, 6, 6, 2, 4, 2, 7, 4, 4, 7, 7>>,
    <<6, 6, 2, 8, 3, 3, 5, 5, 4, 2, 2, 2, 5, 4, 6, 6>>,
    <<2, 5, 2, 8, 4, 4, 6, 6, 2, 4, 2, 7, 4, 4, 7, 7>>,
    <<2, 6, 2, 6, 3, 3, 3, 3, 2, 2, 2, 2, 4, 4, 4, 4>>,
    <<2, 6, 2, 6, 4, 4, 4, 4, 2, 5, 2, 5, 5, 5, 5, 5>>,
    <<2, 6, 2, 6, 3, 3, 3, 3, 2, 2, 2, 2, 4, 4, 4, 4>>,
    <<2, 5, 2, 5, 4, 4, 4, 4, 2, 4, 2, 4, 4, 4, 4, 4>>,
    <<2, 6, 2, 8, 3, 3, 5, 5, 2, 2, 2, 2, 4, 4, 6, 6>>,
    <<2, 5, 2, 8, 4, 4, 6, 6, 2, 4, 2, 7, 4, 4, 7, 7>>,
    <<2, 6, 2, 8, 3, 3, 5, 5, 2, 2, 2, 2, 4, 4, 6, 6>>,
    <<2, 5, 2, 8, 4, 4, 6, 6, 2, 4, 2, 7, 4, 4, 7, 7>> >>

Ticks(op) == TickRows[op \div 16 + 1][(op % 16) + 1]

\* The reads that pay for an effective address on another page than its base.
PenaltyOps ==
  {\h1D, \h19, \h11, \h3D, \h39, \h31, \h5D, \h59, \h51, \h7D, \h79, \h71,
   \hBD, \hB9, \hB1, \hBE, \hBC, \hDD, \hD9, \hD1, \hFD, \hF9, \hF1}

\* Mutation: whatever crosses a page pays.
Penalty_Ungated(op, crossed) == IF crossed THEN 1 ELSE 0

Penalty(op, crossed) == IF crossed /\ op \in PenaltyOps THEN 1 ELSE 0

\* A branch taken pays one cycle, to another page two.
BranchPenalty(taken, far) == IF ~taken THEN 0 ELSE IF far THEN 2 ELSE 1
=============================================================================
