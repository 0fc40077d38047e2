----------------------------- MODULE MCAssembler -----------------------------
(* Programs of three lines.  The first may be any instruction with any class *)
(* of operand, or open the program at another origin; the others are what    *)
(* moves addresses or refers to them.                                        *)
EXTENDS Assembler

Number(n)  == [sym |-> NoSymbol, add |-> n, part |-> "whole"]
Symbol(s)  == [sym |-> s, add |-> 0, part |-> "whole"]
Low(s)     == [sym |-> s, add |-> 1, part |-> "low"]

Label(s)          == [is |-> "label", name |-> s]
Equate(s, e)      == [is |-> "equate", name |-> s, expr |-> e]
Org(e)            == [is |-> "org", expr |-> e]
Ins(n, class, e)  == [is |-> "instruction", name |-> n, class |-> class, expr |-> e]

Names == UNION {DOMAIN Listed[m] : m \in Modes}

MCStatement ==
  {Label("l"), Equate("b", Number(5)), Equate("b", Symbol("l")),
   Org(Number(49400)), Org(Number(65533)), Org(Symbol("b")),
   [is |-> "byte", expr |-> Number(7)], [is |-> "word", expr |-> Symbol("l")],
   Ins("JMP", "direct", Symbol("l")), Ins("BNE", "direct", Symbol("l")),
   Ins("BNE", "direct", Symbol(Here)), Ins("LDA", "direct", Symbol("b")),
   Ins("LDA", "direct", Symbol("l")),
   Ins("STX", "idxy", Symbol("b")), Ins("LDX", "imm", Low("l")), Ins("BRK", "empty", Number(0))}

MCOpener ==
  MCStatement \cup {Ins(n, class, e) : n \in Names, class \in Classes,
                                        e \in {Number(16), Number(4660)}}
=============================================================================
