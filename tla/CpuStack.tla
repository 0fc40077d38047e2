------------------------------- MODULE CpuStack -------------------------------
(***************************************************************************)
(* The 6510's stack as cpu_exec drives it (src/src/cpu.cpp): subroutines,  *)
(* BRK, IRQ and NMI, and the registers a program saves, in a page whose    *)
(* pointer wraps.  A program of any length runs: each step is one          *)
(* instruction, or an interrupt at its boundary.  When an interrupt is     *)
(* pending is module Interrupts.                                           *)
(*                                                                         *)
(* The programs modelled are those that pull what they pushed: `frames`    *)
(* remembers it.  What an instruction reads from elsewhere is any value.   *)
(***************************************************************************)
EXTENDS Integers, Sequences

CONSTANTS
  Base,        \* 256, the values of a byte of an address
  PageSize,    \* 256, the bytes of the stack page
  Flags,       \* the flags of the status register beside BREAK and CONSTANT
  Vector       \* where the IRQ, BRK and NMI vectors lead

ASSUME StackAssumption ==
  /\ Base \in Nat \ {0, 1} /\ PageSize \in Nat \ {0}
  /\ "interrupt" \in Flags /\ "break" \notin Flags /\ "constant" \notin Flags
  /\ Vector \in 0..(Base * Base - 1)

VARIABLES
  pc, sp, a, status,
  page,       \* RAM at BASE_STACK
  frames,     \* what the program has pushed and not pulled, and where
  depth       \* how many bytes that takes

cpu  == <<pc, sp, a, status>>
vars == <<cpu, page, frames, depth>>

Bytes     == 0..(Base - 1)
Addresses == Base * Base
Address   == 0..(Addresses - 1)
Statuses  == SUBSET (Flags \cup {"break", "constant"})
Pointer   == 0..(PageSize - 1)

Size(what) == CASE "returnTo" \in DOMAIN what -> 2
                [] "brk" \in DOMAIN what -> 3
                [] OTHER -> 1

\* The registers as a program sees them: BREAK and CONSTANT are no flags of its own.
Own(s) == s \ {"break", "constant"}

-----------------------------------------------------------------------------
(* The stack and the bytes on it. *)

At(p) == p % PageSize

\* A byte is a number, or the flags it encodes.
Number(n) == [n |-> n]
Packed(s) == [flags |-> s]
Cells     == [n : Bytes] \cup [flags : Statuses]

Push8(m, p, byte) == [m EXCEPT ![p] = byte]

\* High byte first; the pointer wraps between the two.
Push16(m, p, word) ==
  [m EXCEPT ![p] = Number(word \div Base), ![At(p - 1)] = Number(word % Base)]

Pull8(p)  == page[At(p + 1)]
Pull16(p) == page[At(p + 1)].n + Base * page[At(p + 2)].n

Next8(n) == (pc + n) % Addresses

-----------------------------------------------------------------------------
(* What the program pushed. *)

Pushes(what) ==
  /\ depth + Size(what) <= PageSize      \* a deeper stack overwrites itself
  /\ depth' = depth + Size(what)
  /\ sp' = At(sp - Size(what))
  /\ frames' = Append(frames, [at |-> sp, what |-> what])

Top == frames[Len(frames)].what

\* The program pulls what it pushed last.
Pulls(field) ==
  /\ frames # <<>> /\ field \in DOMAIN Top
  /\ depth' = depth - Size(Top)
  /\ sp' = At(sp + Size(Top))
  /\ frames' = SubSeq(frames, 1, Len(frames) - 1)
  /\ UNCHANGED page

-----------------------------------------------------------------------------
(* Instructions.  Fetching the opcode sets CONSTANT. *)

Fetched == status \cup {"constant"}

Init ==
  /\ pc \in Address /\ sp = At(PageSize - 3) /\ a = 0
  /\ status = {"constant", "interrupt"}
  /\ page = [p \in Pointer |-> Number(0)]
  /\ frames = <<>> /\ depth = 0

\* Loads and arithmetic.
Compute(value, flags) ==
  /\ a' = value /\ pc' = Next8(1)
  /\ status' = flags \cup (Fetched \cap {"break", "constant"})
  /\ UNCHANGED <<sp, page, frames, depth>>

\* Jumps and branches taken.
Jmp(target) ==
  /\ pc' = target /\ status' = Fetched
  /\ UNCHANGED <<sp, a, page, frames, depth>>

\* TXS, in a program that has nothing on the stack.
Txs(p) ==
  /\ frames = <<>>
  /\ sp' = p /\ pc' = Next8(1) /\ status' = Fetched
  /\ UNCHANGED <<a, page, frames, depth>>

\* JSR pushes the address of its last byte ...
Jsr(target) ==
  /\ Pushes([returnTo |-> Next8(3)])
  /\ page' = Push16(page, sp, Next8(2))
  /\ pc' = target /\ status' = Fetched
  /\ UNCHANGED a

\* Mutation: RTS goes where the pushed address points.
Rts_Exact ==
  /\ Pulls("returnTo")
  /\ pc' = Pull16(sp) /\ status' = Fetched
  /\ UNCHANGED a

\* ... which RTS steps over.
Rts ==
  /\ Pulls("returnTo")
  /\ pc' = (Pull16(sp) + 1) % Addresses /\ status' = Fetched
  /\ UNCHANGED a

Pha ==
  /\ Pushes([a |-> a])
  /\ page' = Push8(page, sp, Number(a))
  /\ pc' = Next8(1) /\ status' = Fetched
  /\ UNCHANGED a

\* PLA sets the zero and sign flags.
Pla(flags) ==
  /\ Pulls("a")
  /\ a' = Pull8(sp).n
  /\ pc' = Next8(1)
  /\ status' = (Fetched \cap {"break", "constant", "interrupt"}) \cup (flags \ {"interrupt"})

Php ==
  /\ Pushes([flags |-> Own(status)])
  /\ page' = Push8(page, sp, Packed(Fetched \cup {"break"}))
  /\ pc' = Next8(1) /\ status' = Fetched
  /\ UNCHANGED a

\* PLP leaves BREAK set in the register.
Plp ==
  /\ Pulls("flags") /\ ~("brk" \in DOMAIN Top)
  /\ status' = Pull8(sp).flags \cup {"constant"}
  /\ pc' = Next8(1)
  /\ UNCHANGED a

\* A context is pushed and its handler entered with IRQ masked.
Enters(resume, pushed, brk) ==
  /\ Pushes([pc |-> resume, flags |-> Own(status), brk |-> brk])
  /\ page' = Push8(Push16(page, sp, resume), At(sp - 2), Packed(pushed))
  /\ pc' = Vector
  /\ UNCHANGED a

Brk ==
  /\ Enters(Next8(2), Fetched \cup {"break"}, TRUE)
  /\ status' = Fetched \cup {"interrupt"}

\* Mutation: the status is pushed as it is.
Hardware_KeepsBreak ==
  /\ Enters(pc, status \cup {"constant"}, FALSE)
  /\ status' = status \cup {"interrupt"}

\* cpu_irq and nmi6502: BREAK is cleared in what is pushed, whatever PLP left.
Hardware ==
  /\ Enters(pc, (status \cup {"constant"}) \ {"break"}, FALSE)
  /\ status' = status \cup {"interrupt"}

Nmi == Hardware
Irq == "interrupt" \notin status /\ Hardware

Rti ==
  /\ Pulls("brk")
  /\ status' = (Pull8(sp).flags \ {"break"}) \cup {"constant"}
  /\ pc' = Pull16(At(sp + 1))
  /\ UNCHANGED a

Next ==
  \/ \E value \in Bytes, flags \in SUBSET Flags : Compute(value, flags)
  \/ \E p \in Pointer : Txs(p)
  \/ \E target \in Address : Jmp(target) \/ Jsr(target)
  \/ \E flags \in SUBSET Flags : Pla(flags)
  \/ Rts \/ Pha \/ Php \/ Plp \/ Brk \/ Nmi \/ Irq \/ Rti

Spec == Init /\ [][Next]_vars

-----------------------------------------------------------------------------
(* Properties. *)

Saved == [returnTo : Address] \cup [a : Bytes] \cup [flags : SUBSET Flags]
           \cup [pc : Address, flags : SUBSET Flags, brk : BOOLEAN]

\* The bytes of a frame, from where it was pushed.
Holds(frame) ==
  LET what == frame.what
      word(w) == /\ page[frame.at] = Number(w \div Base)
                 /\ page[At(frame.at - 1)] = Number(w % Base)
  IN  CASE "returnTo" \in DOMAIN what -> word((what.returnTo - 1) % Addresses)
        [] "a" \in DOMAIN what -> page[frame.at] = Number(what.a)
        [] "brk" \in DOMAIN what ->
             /\ word(what.pc)
             /\ page[At(frame.at - 2)] =
                  Packed(what.flags \cup {"constant"} \cup (IF what.brk THEN {"break"} ELSE {}))
        [] OTHER -> page[frame.at] = Packed(what.flags \cup {"constant", "break"})

\* The page holds every frame, wherever the pointer wrapped, until it is pulled; a handler
\* that looks at the status on its stack finds BREAK set exactly if BRK brought it there,
\* even after a PLP that left BREAK in the register.
StackHolds == \A i \in 1..Len(frames) : Holds(frames[i])

\* Subroutines, interrupts and saved registers nest: each is left for where it was
\* entered, with the flags it was entered with.
Program == INSTANCE CallStack WITH
  flags <- Own(status), saved <- [i \in DOMAIN frames |-> frames[i].what]

ImplementsCallStack == Program!Spec
=============================================================================
