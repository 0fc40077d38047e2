----------------------------- MODULE MCCpuStack -----------------------------
(* Four addresses, and a page of five bytes: a context and a subroutine fill *)
(* it, and either may be split by the wrap of the pointer.  Before it starts *)
(* TLC evaluates what module CpuAlu says its operators come to.              *)
EXTENDS CpuStack

Alu == INSTANCE CpuAlu

\* Every accumulator and operand, in both modes, with the carry clear and set.
ASSUME ArithmeticAssumption ==
  \A flags \in {{}, {"carry"}, {"decimal"}, {"carry", "decimal"}} :
    \A x, v \in Alu!Operands(flags) :
      LET c == [a |-> x, status |-> flags]
      IN  /\ Alu!Adds(c, v) /\ Alu!Subtracts(c, v)
          /\ Alu!OverflowTells(c, v) /\ Alu!ComparesAsSbc(c, v)
          /\ Alu!SignedOrder(c, v) /\ Alu!BranchesAsOrdered(flags, x, v)

\* The bits of every byte, its rotations, and every index and branch at the edges.
ASSUME BytesAssumption ==
  \A v \in Alu!Byte :
    /\ Alu!FromBits(Alu!Bits(v)) = v
    /\ \A flags \in {{}, {"carry"}} : Alu!RotatesBack(flags, v)
    /\ \A base \in (0..255) \cup (65280..65535) : Alu!PageCarries(base, v) /\ Alu!BranchReaches(base, v)
=============================================================================
