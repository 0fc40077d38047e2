------------------------------ MODULE Assembler ------------------------------
(***************************************************************************)
(* The two-pass assembler (src/src/assembler.cpp) and the CPU that runs    *)
(* what it made: pass 1 gives labels their addresses, pass 2 emits code,   *)
(* and then the program counter walks through the bytes while `cursor`     *)
(* walks through the source.                                               *)
(*                                                                         *)
(* A source line is a statement, its text already split: what an operand's *)
(* syntax makes it is its class, an expression is a symbol and a distance. *)
(* The bytes are those of the code.  An assembly that fails has no result, *)
(* whatever the message.  max_output is not modelled: the address wraps    *)
(* before more than 64K are emitted.                                       *)
(***************************************************************************)
EXTENDS Opcodes, Sequences

CONSTANTS
  Opener,        \* what a program's first line may be
  Statement,     \* what its other lines may be
  MaxLines       \* bounds the length of a program

NoSymbol == "none"
Here     == "*"
Space    == 65536

Parts   == {"whole", "low", "high"}
Classes == {"empty", "acc", "imm", "indx", "indy", "ind", "idxx", "idxy", "direct"}

\* A name the program gives is an identifier.
Named(s)   == s.name \notin {NoSymbol, Here}
Written(e) == e.add \in Int /\ e.part \in Parts

ASSUME LinesAssumption == MaxLines \in Nat \ {0}

ASSUME ProgramAssumption ==
  \A s \in Opener \cup Statement :
    \/ s.is = "label" /\ Named(s)
    \/ s.is = "equate" /\ Named(s) /\ Written(s.expr)
    \/ s.is \in {"org", "byte", "word"} /\ Written(s.expr)
    \/ s.is = "instruction" /\ s.class \in Classes /\ Written(s.expr)

VARIABLES
  phase,      \* "pass1", "pass2", "run", then "done"
  program,    \* the source lines
  line,       \* how many of them the pass has read
  c,          \* asm_ctx
  places,     \* the address of each line read in this pass
  pc, cursor, \* the running program: in the bytes, and in the source
  spent       \* the cycles of the last instruction, and what they hang on

vars == <<phase, program, line, c, places, pc, cursor, spent>>

-----------------------------------------------------------------------------
(* Expressions: [sym, add, part], in a context x. *)

Known(x, e) == e.sym \in {NoSymbol, Here} \cup DOMAIN x.symbols

\* A symbol that is not defined yet counts as 0 in pass 1.
Term(x, e) ==
  CASE e.sym = Here                 -> x.addr
    [] e.sym \in DOMAIN x.symbols   -> x.symbols[e.sym]
    [] OTHER                        -> 0

Part(part, v) ==
  CASE part = "low"  -> v % 256
    [] part = "high" -> (v \div 256) % 256
    [] OTHER         -> v % Space

Value(x, e) == Part(e.part, Term(x, e) + e.add)

\* An undefined symbol is an error in the final pass only.
Fails(x, e) == x.final /\ ~Known(x, e)

Symbolic(e) == e.sym # NoSymbol

-----------------------------------------------------------------------------
(* Emitting: operators from a context to the next; a failed one has ok FALSE. *)

Failed(x) == [x EXCEPT !.ok = FALSE]

\* The byte at $FFFF is the last; origin is the address of the first.
Emit(x, bytes) ==
  IF bytes = <<>> THEN x
  ELSE IF x.wrapped \/ x.addr + Len(bytes) > Space THEN Failed(x)
  ELSE [x EXCEPT !.addr = (x.addr + Len(bytes)) % Space,
                 !.wrapped = (x.addr + Len(bytes) = Space),
                 !.origin = IF x.started THEN @ ELSE x.addr, !.started = TRUE,
                 !.bytes = IF x.final THEN @ \o bytes ELSE @]

\* set_origin: the first is where the program starts, a later one leaves a gap of zeros.
SetOrigin(x, n) ==
  CASE ~x.started  -> [x EXCEPT !.addr = n]
    [] x.started /\ n < x.addr -> Failed(x)
    [] OTHER       -> Emit(x, [i \in 1..(n - x.addr) |-> 0])

Define(x, name, v) ==
  [x EXCEPT !.symbols = [s \in DOMAIN @ \cup {name} |-> IF s = name THEN v ELSE @[s]]]

-----------------------------------------------------------------------------
(* encode_instruction. *)

Has(name, mode) == name \in DOMAIN Listed[mode]

\* Mutation: a symbol that is small now takes the short form.
Zero_AnySymbol(x, e) == Value(x, e) <= 255

Zero(x, e) == ~Symbolic(e) /\ Value(x, e) <= 255

\* The mode an operand of a class takes, which the instruction may lack.
ModeOf(x, name, class, e) ==
  CASE class = "empty"  -> IF Has(name, "imp") THEN "imp" ELSE "acc"
    [] class \in {"acc", "imm", "indx", "indy", "ind"} -> class
    [] class = "idxx"   -> IF Zero(x, e) /\ Has(name, "zpx") THEN "zpx" ELSE "absx"
    [] class = "idxy"   -> IF Zero(x, e) /\ Has(name, "zpy") THEN "zpy" ELSE "absy"
    [] class = "direct" -> IF Has(name, "rel") THEN "rel"
                           ELSE IF Zero(x, e) /\ Has(name, "zp") THEN "zp" ELSE "abs"

\* A branch counts from the instruction behind it.
Offset(x, e) == Value(x, e) - (x.addr + 2)

Operand(x, name, mode, e) ==
  CASE mode \in {"abs", "absx", "absy", "ind"} -> <<Value(x, e) % 256, Value(x, e) \div 256>>
    [] mode = "rel"            -> <<Offset(x, e) % 256>>
    [] mode = "acc"            -> <<>>
    [] mode = "imp"            -> IF name = "BRK" THEN <<0>> ELSE <<>>   \* the CPU skips it
    [] OTHER                   -> <<Value(x, e) % 256>>

Encode(x, name, class, e) ==
  LET mode == ModeOf(x, name, class, e)
  IN  IF \/ ~Has(name, mode)
         \/ class \notin {"empty", "acc"} /\ Fails(x, e)
         \/ x.final /\ mode = "rel" /\ Offset(x, e) \notin -128..127
      THEN Failed(x)
      ELSE Emit(x, <<Listed[mode][name]>> \o Operand(x, name, mode, e))

-----------------------------------------------------------------------------
(* run_pass. *)

\* Pass 1 alone defines labels; equates are evaluated in both passes.
Labelled(x, name) ==
  IF x.final THEN x
  ELSE IF name \in DOMAIN x.symbols THEN Failed(x) ELSE Define(x, name, x.addr)

Read(x, s) ==
  IF s.is \in {"equate", "org", "byte", "word"} /\ Fails(x, s.expr) THEN Failed(x)
  ELSE CASE s.is = "label"       -> Labelled(x, s.name)
         [] s.is = "instruction" -> Encode(x, s.name, s.class, s.expr)
         [] s.is = "equate"      -> Define(x, s.name, Value(x, s.expr))
         [] s.is = "org"         -> SetOrigin(x, Value(x, s.expr))
         [] s.is = "byte"        -> Emit(x, <<Value(x, s.expr) % 256>>)
         [] s.is = "word"        ->
              Emit(x, <<Value(x, s.expr) % 256, Value(x, s.expr) \div 256>>)

Fresh(symbols, final) ==
  [symbols |-> symbols, addr |-> 49152, origin |-> 49152, started |-> FALSE,
   wrapped |-> FALSE, final |-> final, bytes |-> <<>>, ok |-> TRUE]

NoSymbols == [s \in {} |-> 0]

Cycles(n, taken, crossed) == [cycles |-> n, taken |-> taken, crossed |-> crossed]

Init ==
  /\ phase = "pass1" /\ program = <<>> /\ line = 0 /\ places = <<>>
  /\ c = Fresh(NoSymbols, FALSE)
  /\ pc = 0 /\ cursor = 0 /\ spent = Cycles(0, FALSE, FALSE)

Takes(s) ==
  /\ c' = Read(c, s)
  /\ line' = line + 1 /\ places' = Append(places, c.addr)
  /\ phase' = IF c'.ok THEN phase ELSE "done"
  /\ UNCHANGED <<pc, cursor, spent>>

Pass1 ==
  /\ phase = "pass1" /\ line < MaxLines
  /\ \E s \in IF line = 0 THEN Opener ELSE Statement :
       Takes(s) /\ program' = Append(program, s)

Pass2 ==
  /\ phase = "pass2" /\ line < Len(program)
  /\ Takes(program[line + 1])
  /\ UNCHANGED program

StartPass2 ==
  /\ phase = "pass1" /\ line > 0
  /\ phase' = "pass2" /\ line' = 0 /\ places' = <<>> /\ c' = Fresh(c.symbols, TRUE)
  /\ UNCHANGED <<program, pc, cursor, spent>>

-----------------------------------------------------------------------------
(* Running what was assembled. *)

InImage(p) == p >= c.origin /\ p < c.origin + Len(c.bytes)
At(p)      == IF InImage(p) THEN c.bytes[p - c.origin + 1] ELSE 0
Word(p)    == At(p) + 256 * At(p + 1)

IsInstruction(i) == i \in DOMAIN program /\ program[i].is = "instruction"

\* The instruction a line leads to, across lines that emit nothing; 0 if there is none.
Lead(i) ==
  LET reached == {j \in i..Len(program) :
                    /\ IsInstruction(j)
                    /\ \A k \in i..(j - 1) : program[k].is \in {"label", "equate"}}
  IN  IF reached = {} THEN 0 ELSE CHOOSE j \in reached : TRUE

\* Where the source says a jump goes, if it says so by label.
LineOf(i, e) ==
  LET named == {j \in DOMAIN program : program[j].is = "label" /\ program[j].name = e.sym}
  IN  IF e.add # 0 \/ e.part # "whole" THEN 0
      ELSE IF e.sym = Here THEN i
      ELSE IF named = {} THEN 0 ELSE Lead(CHOOSE j \in named : TRUE)

\* A program may be entered at any of its instructions.
Run ==
  /\ phase = "pass2" /\ line = Len(program)
  /\ \E i \in DOMAIN program :
       /\ IsInstruction(i)
       /\ phase' = "run" /\ cursor' = i /\ pc' = places[i]
  /\ UNCHANGED <<program, line, c, places, spent>>

\* Continues at p, where the source is at line i; elsewhere nothing is said of it.
Continues(p, i, cycles) ==
  /\ spent' = cycles
  /\ phase' = IF i = 0 THEN "done" ELSE "run"
  /\ pc' = p /\ cursor' = i

Op   == At(pc)
Mode == Executed[Op].mode
Name == Executed[Op].name

Leaves == Name \in {"BRK", "RTS", "RTI"} \/ Mode = "ind"

Branch(taken) ==
  LET next   == pc + 2
      byte   == At(pc + 1)
      target == (next + (IF byte < 128 THEN byte ELSE byte - 256)) % Space
      far    == target \div 256 # (next % Space) \div 256
  IN  /\ Mode = "rel"
      /\ Continues(IF taken THEN target ELSE next % Space,
                   IF taken THEN LineOf(cursor, program[cursor].expr) ELSE Lead(cursor + 1),
                   Cycles(Ticks(Op) + BranchPenalty(taken, far), taken, FALSE))

Jump ==
  /\ Name \in {"JMP", "JSR"} /\ Mode = "abs"
  /\ Continues(Word(pc + 1), LineOf(cursor, program[cursor].expr),
               Cycles(Ticks(Op), TRUE, FALSE))

\* BRK, RTS, RTI and an indirect jump go where the source does not say.
Leave ==
  /\ Leaves
  /\ Continues(pc, 0, Cycles(Ticks(Op), TRUE, FALSE))

Straight(crossed) ==
  /\ Mode # "rel" /\ Name \notin {"JMP", "JSR"} /\ ~Leaves
  /\ crossed => Mode \in {"absx", "absy", "indy"}
  /\ Continues((pc + Consumed(Op)) % Space, Lead(cursor + 1),
               Cycles(Ticks(Op) + Penalty(Op, crossed), FALSE, crossed))

Execute ==
  /\ phase = "run" /\ InImage(pc)
  /\ \/ \E taken \in BOOLEAN : Branch(taken)
     \/ Jump
     \/ Leave
     \/ \E crossed \in BOOLEAN : Straight(crossed)
  /\ UNCHANGED <<program, line, c, places>>

Next == Pass1 \/ StartPass2 \/ Pass2 \/ Run \/ Execute

Spec == Init /\ [][Next]_vars

-----------------------------------------------------------------------------
(* Properties. *)

\* Every symbol is defined once, and origins and equates use those defined above them.
Defines(i) == program[i].is \in {"label", "equate"}
DefinedOnce ==
  \A i, j \in DOMAIN program :
    Defines(i) /\ Defines(j) /\ program[i].name = program[j].name => i = j
Backward ==
  \A i \in DOMAIN program : program[i].is \in {"equate", "org"} =>
    \/ program[i].expr.sym \in {NoSymbol, Here}
    \/ \E j \in 1..(i - 1) : Defines(j) /\ program[j].name = program[i].expr.sym

\* What an expression on the running line means, once every symbol has its value.
Meant(e) ==
  Part(e.part, e.add + CASE e.sym = Here     -> pc
                         [] e.sym = NoSymbol -> 0
                         [] OTHER            -> c.symbols[e.sym])

ClassModes ==
  [empty |-> {"imp", "acc"}, acc |-> {"acc"}, imm |-> {"imm"}, indx |-> {"indx"},
   indy |-> {"indy"}, ind |-> {"ind"}, idxx |-> {"zpx", "absx"}, idxy |-> {"zpy", "absy"},
   direct |-> {"rel", "zp", "abs"}]

\* The instruction at p is the one on the line, with the operand the line means.
Encodes(s) ==
  LET e == s.expr
  IN  /\ Name = IF s.name = "NOP" THEN "none" ELSE s.name
      /\ Mode \in ClassModes[s.class]
      /\ Consumed(Op) = Length(Op)
      /\ Mode = "rel" =>
           Meant(e) = (pc + 2 + (IF At(pc + 1) < 128 THEN At(pc + 1) ELSE At(pc + 1) - 256)) % Space
      /\ OperandBytes(Mode) = 2 => Word(pc + 1) = Meant(e)
      /\ Mode \in {"zp", "zpx", "zpy"} => At(pc + 1) = Meant(e)
      /\ Mode \in {"imm", "indx", "indy"} => At(pc + 1) = Meant(e) % 256

\* What the assembler accepts runs as it is written: the two passes agree on every address,
\* so that through gaps, forward references and branches the CPU is always at the byte of
\* the line the source is at, and finds there that instruction with that operand, as long
\* as the table the assembler reads and the switch the CPU runs agree.
RunsAsWritten ==
  phase = "run" /\ DefinedOnce /\ Backward =>
    pc = places[cursor] /\ InImage(pc) /\ Encodes(program[cursor])

\* The 6510 spends a cycle on every bus access: the bytes of the instruction, the pointer,
\* the dummy read behind an index, and the data, which a read-modify-write reads and writes
\* twice.
Rmw    == {"ASL", "LSR", "ROL", "ROR", "INC", "DEC"}
Stores == {"STA", "STX", "STY"}
BusCycles(name, mode, crossed, taken, far) ==
  LET fixup == IF crossed \/ name \in Rmw \cup Stores THEN 1 ELSE 0
      data  == IF name \in Rmw THEN 3 ELSE 1
  IN  CASE mode \in {"imp", "acc"} ->
             CASE name = "BRK" -> 7
               [] name \in {"RTI", "RTS"} -> 6
               [] name \in {"PLA", "PLP"} -> 4
               [] name \in {"PHA", "PHP"} -> 3
               [] OTHER -> 2
        [] mode = "rel"  -> IF ~taken THEN 2 ELSE IF far THEN 4 ELSE 3
        [] mode = "ind"  -> 5
        [] mode = "imm"  -> 2
        [] mode = "zp"   -> 2 + data
        [] mode \in {"zpx", "zpy"} -> 3 + data
        [] mode = "abs"  -> IF name = "JMP" THEN 3 ELSE IF name = "JSR" THEN 6 ELSE 3 + data
        [] mode \in {"absx", "absy"} -> 3 + fixup + data
        [] mode = "indx" -> 5 + data
        [] mode = "indy" -> 4 + fixup + data

\* The cycle table, with the penalties for crossing a page and for branches, is that of the
\* bus: a write and a read-modify-write pay for no crossing, a taken branch to another page two.
CyclesExact ==
  [][phase = "run" /\ (Name # "none" \/ Op = \hEA) =>
       spent'.cycles = BusCycles(Name, Mode, spent'.crossed, spent'.taken,
                                 ((pc + 2) % Space) \div 256 # pc' \div 256)]_vars
=============================================================================
