------------------------------ MODULE CallStack ------------------------------
(* What a program may rely on when subroutines, interrupts and saved        *)
(* registers nest: whatever is saved last is restored first, unchanged.      *)
EXTENDS Naturals, Sequences

CONSTANTS Addresses,      \* 0..(Addresses - 1)
          Bytes, Flags, Vector

VARIABLES pc, a, flags, saved

vars == <<pc, a, flags, saved>>

After(n) == (pc + n) % Addresses

Init == pc \in 0..(Addresses - 1) /\ a \in Bytes /\ flags \in SUBSET Flags /\ saved = <<>>

Save(what)    == saved' = Append(saved, what)
Restored      == saved[Len(saved)]
Restores(set) == saved # <<>> /\ Restored \in set
                   /\ saved' = SubSeq(saved, 1, Len(saved) - 1)

Returns  == [returnTo : 0..(Addresses - 1)]
Contexts == [pc : 0..(Addresses - 1), flags : SUBSET Flags, brk : BOOLEAN]

\* Anything but a call, a return and their like.
Compute == UNCHANGED saved

Call   == Save([returnTo |-> After(3)]) /\ UNCHANGED <<a, flags>>
Return == Restores(Returns) /\ pc' = Restored.returnTo /\ UNCHANGED <<a, flags>>

SaveA    == Save([a |-> a]) /\ pc' = After(1) /\ UNCHANGED <<a, flags>>
RestoreA == Restores([a : Bytes]) /\ a' = Restored.a /\ pc' = After(1)

SaveFlags    == Save([flags |-> flags]) /\ pc' = After(1) /\ UNCHANGED <<a, flags>>
RestoreFlags == Restores([flags : SUBSET Flags]) /\ flags' = Restored.flags
                  /\ pc' = After(1) /\ UNCHANGED a

Enter == pc' = Vector /\ flags' = flags \cup {"interrupt"} /\ UNCHANGED a

\* BRK is resumed behind the byte that follows it, an interrupt where it struck.
Break     == Save([pc |-> After(2), flags |-> flags, brk |-> TRUE]) /\ Enter
Interrupt == Save([pc |-> pc, flags |-> flags, brk |-> FALSE]) /\ Enter

Resume == Restores(Contexts) /\ pc' = Restored.pc /\ flags' = Restored.flags /\ UNCHANGED a

Next == Compute \/ Call \/ Return \/ SaveA \/ RestoreA \/ SaveFlags \/ RestoreFlags
          \/ Break \/ Interrupt \/ Resume

Spec == Init /\ [][Next]_vars
=============================================================================
