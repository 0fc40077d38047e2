----------------------------- MODULE KeyChannel -----------------------------
(***************************************************************************)
(* What machine::queue_key promises one key (src/src/machine.h 387-395):   *)
(* its changes form a channel of their own, and each exec() that touches   *)
(* the key applies exactly the oldest one, so a press and its release are  *)
(* never both made in the same exec().  Only the host can hurry a channel: *)
(* by flushing it, by queueing so much that the queue is flushed, by       *)
(* setting the key itself or by releasing everything.  A SID tune's player *)
(* may open the switch in the exec() that closes it.                       *)
(***************************************************************************)
EXTENDS Sequences, Naturals

VARIABLES
  chan,   \* the key's queued changes, oldest first: TRUE is a press
  down,   \* the key's switch in the matrix
  playing \* a SID tune is loaded

cvars == <<chan, down, playing>>

Level == IF chan = <<>> THEN down ELSE chan[Len(chan)]

Init == chan = <<>> /\ down = FALSE /\ playing = FALSE

Post(p)     == chan' = Append(chan, p) /\ UNCHANGED <<down, playing>>
Frame       == chan # <<>> /\ down' = Head(chan) /\ chan' = Tail(chan) /\ UNCHANGED playing
Rush        == chan # <<>> /\ down' = Level /\ chan' = <<>> /\ UNCHANGED playing
RushPost(p) == down' = Level /\ chan' = <<p>> /\ UNCHANGED playing
Set(p)      == down' = p /\ UNCHANGED <<chan, playing>>
Clear       == down' = FALSE /\ chan' = <<>> /\ playing' \in {playing, FALSE}

\* A reset of the machine under the queue, which starts or ends a tune.
Unplug      == down' = FALSE /\ chan' = chan /\ playing' \in BOOLEAN

\* The player of a tune resets the machine right after the change was made.
Swallowed   == /\ playing /\ chan # <<>>
               /\ down' = FALSE /\ chan' = Tail(chan) /\ playing' \in BOOLEAN

Next == \/ Frame \/ Rush \/ Clear \/ Unplug \/ Swallowed
        \/ \E p \in BOOLEAN : Post(p) \/ RushPost(p) \/ Set(p)

\* A waiting change does not wait for ever.
Served == chan # <<>> /\ (Frame \/ Swallowed \/ Rush \/ Clear \/ \E p \in BOOLEAN : RushPost(p))

Spec == Init /\ [][Next]_cvars /\ WF_cvars(Served)
=============================================================================
