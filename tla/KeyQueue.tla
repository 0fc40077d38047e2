------------------------------ MODULE KeyQueue ------------------------------
(***************************************************************************)
(* The keyboard of machine: the matrix the CPU scans, the queue of changes *)
(* the host fills between two exec() calls, and RESTORE, which is queued   *)
(* with the keys but pulses the NMI line instead of closing a switch       *)
(* (src/src/machine.cpp 754-768 and 846-918).                              *)
(*                                                                         *)
(* While a SID tune plays, its front end reads the matrix too, in exec()   *)
(* after the changes are made and before the CPU runs: X ends the tune and *)
(* a number key starts another of its songs, and either resets the machine *)
(* (src/src/machine.cpp 1410-1440 and 1606-1621).                          *)
(***************************************************************************)
EXTENDS Integers, Sequences

CONSTANTS
  Key,           \* the switches of the matrix; "stop" is RUN/STOP
  DigitKey,      \* SID_DIGIT_KEYS: the keys 1, 2, ... that select a song
  MaxSongs,      \* bounds the songs of a tune
  MaxQueuedKeys  \* max_queued_keys, 512 in the code

RESTORE == "restore"

ASSUME KeyAssumption   == {"stop", "X"} \subseteq Key /\ RESTORE \notin Key
ASSUME SongAssumption  == DigitKey \in Seq(Key) /\ MaxSongs \in Nat
ASSUME QueueAssumption == MaxQueuedKeys \in Nat \ {0}

VARIABLES
  queue,         \* _key_queue
  matrix,        \* the keys whose bit in key_matrix is 0
  nmi_line,      \* cia2.nmi_line: TRUE while CIA2 does not pull NMI low
  nmi_pending,
  entry,         \* what the CPU of the last exec() started from
  player         \* sid_player: the tune's songs, the one playing, prev_keys

vars == <<queue, matrix, nmi_line, nmi_pending, entry, player>>

Change == [key : Key \cup {RESTORE}, pressed : BOOLEAN]

-----------------------------------------------------------------------------
(* Applying changes. *)

\* Key k is down once the first n changes of q are made to matrix m.
DownAfter(q, m, n, k) ==
  \/ k \in m /\ \A i \in 1..n : q[i].key # k
  \/ \E i \in 1..n : /\ q[i].key = k /\ q[i].pressed
                     /\ \A j \in (i + 1)..n : q[j].key # k

MatrixAfter(q, m, n) == {k \in Key : DownAfter(q, m, n, k)}

\* Mutation: the line's polarity read the wrong way round.
NmiAfter_Inverted(q, n) ==
  nmi_pending \/ (~nmi_line /\ \E i \in 1..n : q[i].key = RESTORE)

\* The RESTORE edge: none while CIA2 already holds the line low.
NmiAfter(q, n) ==
  nmi_pending \/ (nmi_line /\ \E i \in 1..n : q[i].key = RESTORE)

\* No key changes twice in the first n changes.
Distinct(q, n) == \A i, j \in 1..n : q[i].key = q[j].key => i = j

\* Mutation: a burst takes the whole queue, as writing the matrix directly would.
Used_All(q) == Len(q)

\* apply_queued_keys stops at the first change for a key that already changed.
Used(q) ==
  CHOOSE n \in 0..Len(q) :
    Distinct(q, n) /\ (n < Len(q) => ~Distinct(q, n + 1))

\* Mutation: the changes after a blocked one are dropped with it.
Rest_Drops(q, n) == SubSeq(q, n + 2, Len(q))

Rest(q, n) == SubSeq(q, n + 1, Len(q))

-----------------------------------------------------------------------------
(* The front end of a tune. *)

\* A tune just loaded has seen no key; the player a reset leaves is not active.
Tune(songs, song) == [songs |-> songs, song |-> song, prev |-> {}]
NoTune            == Tune(0, 0)

Playing == player.song # 0

\* sid_key_pressed_now, in a matrix with the keys of m down.
PressedNow(m, k) == k \in m \ player.prev

\* Of the number keys that went down the highest selects.
Asks(m, i)    == i <= player.songs /\ PressedNow(m, DigitKey[i])
Selects(m, i) == Asks(m, i) /\ \A j \in DOMAIN DigitKey : Asks(m, j) => j <= i

Stops(m)   == PressedNow(m, "X")
Changes(m) == \E i \in DOMAIN DigitKey : Selects(m, i) /\ i # player.song

\* sid_player_step resets the machine, through stop_sid or through load_sid.
PlayerResets(m) == Playing /\ (Stops(m) \/ Changes(m))

PlayerAfter(m) ==
  CASE ~Playing                               -> player
    [] Playing /\ Stops(m)                    -> NoTune
    [] Playing /\ ~Stops(m) /\ Changes(m)     ->
         Tune(player.songs, CHOOSE i \in DOMAIN DigitKey : Selects(m, i))
    [] Playing /\ ~Stops(m) /\ ~Changes(m)    -> [player EXCEPT !.prev = m]

-----------------------------------------------------------------------------
(* The operations. *)

Init ==
  /\ queue = <<>> /\ matrix = {}
  /\ nmi_line = TRUE /\ nmi_pending = FALSE
  /\ entry = [keys |-> {}, nmi |-> FALSE]
  /\ player = NoTune

\* push_queued_key: a full queue is flushed before the change is queued.
Push(c) ==
  IF Len(queue) >= MaxQueuedKeys
  THEN /\ queue' = <<c>>
       /\ matrix' = MatrixAfter(queue, matrix, Len(queue))
       /\ nmi_pending' = NmiAfter(queue, Len(queue))
  ELSE queue' = Append(queue, c) /\ UNCHANGED <<matrix, nmi_pending>>

QueueKey(k, p) ==
  Push([key |-> k, pressed |-> p]) /\ UNCHANGED <<nmi_line, entry, player>>

PressRestore ==
  Push([key |-> RESTORE, pressed |-> TRUE]) /\ UNCHANGED <<nmi_line, entry, player>>

\* set_key, with which a paused host writes the matrix itself.
SetKey(k, p) ==
  /\ matrix' = IF p THEN matrix \cup {k} ELSE matrix \ {k}
  /\ UNCHANGED <<queue, nmi_line, nmi_pending, entry, player>>

FlushKeys ==
  /\ queue' = <<>>
  /\ matrix' = MatrixAfter(queue, matrix, Len(queue))
  /\ nmi_pending' = NmiAfter(queue, Len(queue))
  /\ UNCHANGED <<nmi_line, entry, player>>

ClearKeys ==
  /\ queue' = <<>> /\ matrix' = {}
  /\ UNCHANGED <<nmi_line, nmi_pending, entry, player>>

\* machine::reset: clear_keys, then machine_state::reset.
Reset ==
  /\ queue' = <<>> /\ matrix' = {}
  /\ nmi_line' = TRUE /\ nmi_pending' = FALSE
  /\ player' = NoTune
  /\ UNCHANGED entry

\* load_crt, eject_crt, load_sid and stop_sid reset the machine_state alone: the
\* matrix opens, the queue stays.
OpenMatrix ==
  /\ matrix' = {} /\ nmi_line' = TRUE /\ nmi_pending' = FALSE
  /\ UNCHANGED <<queue, entry>>

StateReset == OpenMatrix /\ player' = NoTune

\* load_sid, by the host or by sid_select_song.
LoadTune(songs, song) ==
  song <= songs /\ OpenMatrix /\ player' = Tune(songs, song)

\* The matrix once exec() has made its changes.
MatrixOfBurst == MatrixAfter(queue, matrix, Used(queue))

\* exec: the burst of changes, the step of a tune's player, then the CPU, which takes
\* a pending NMI at its first boundary and may leave CIA2 with the line in any state.
Exec ==
  LET resets == PlayerResets(MatrixOfBurst)
  IN  /\ queue' = Rest(queue, Used(queue))
      /\ matrix' = IF resets THEN {} ELSE MatrixOfBurst
      /\ entry' = [keys |-> matrix', nmi |-> ~resets /\ NmiAfter(queue, Used(queue))]
      /\ player' = PlayerAfter(MatrixOfBurst)
      /\ nmi_line' \in BOOLEAN
      /\ nmi_pending' \in BOOLEAN

Next ==
  \/ \E k \in Key, p \in BOOLEAN : QueueKey(k, p) \/ SetKey(k, p)
  \/ PressRestore \/ FlushKeys \/ ClearKeys \/ Reset \/ StateReset
  \/ \E songs, song \in 1..MaxSongs : LoadTune(songs, song)
  \/ Exec

\* The worker calls exec() once a frame while the host is not paused.
Spec     == Init /\ [][Next]_vars
FairSpec == Spec /\ WF_vars(Exec)

-----------------------------------------------------------------------------
(* Properties. *)

\* The queue never holds more than max_queued_keys changes, and the matrix only keys.
TypeOK ==
  /\ queue \in Seq(Change) /\ Len(queue) <= MaxQueuedKeys
  /\ matrix \in SUBSET Key
  /\ nmi_line \in BOOLEAN /\ nmi_pending \in BOOLEAN
  /\ entry \in [keys : SUBSET Key, nmi : BOOLEAN]
  /\ player \in [songs : Nat, song : Nat, prev : SUBSET Key]

\* The changes of one key in a queue, oldest first: those among the first n, for each n.
ChannelIn(q, k) ==
  LET own[n \in 0..Len(q)] ==
        IF n = 0 THEN <<>>
        ELSE IF q[n].key = k THEN Append(own[n - 1], q[n].pressed) ELSE own[n - 1]
  IN  own[Len(q)]

ChannelOf(k) == ChannelIn(queue, k)

StopChannel ==
  INSTANCE KeyChannel WITH
    chan <- ChannelOf("stop"), down <- "stop" \in matrix, playing <- Playing

\* One queue serves every key as if it had a queue of its own: its changes are made in
\* order, one an exec(), none is lost or doubled, and, while the worker keeps calling
\* exec(), none waits for ever behind the changes of other keys.  Only a tune's player
\* may open the switch in the same exec() that closes it.  Stated of RUN/STOP: no
\* operation treats one key of the matrix unlike another but for the player's keys.
ImplementsKeyChannel == StopChannel!Spec

\* No exec() but one in which a tune's player resets the machine changes its song.
SongGoesOn == player'.song = player.song

\* "Every press and every release lasts a whole exec() call": in one exec() a key takes
\* no change or exactly its oldest one, whatever the other keys do, and the CPU starts
\* from the level that leaves.  When a tune's player resets the machine the change is
\* consumed all the same, and no key is down.
OneChangePerExec ==
  [][Exec =>
       /\ entry'.keys = matrix'
       /\ \A k \in Key :
            \/ /\ ChannelOf(k)' = ChannelOf(k)
               /\ k \in matrix' <=> SongGoesOn /\ k \in matrix
            \/ /\ ChannelOf(k) # <<>>
               /\ ChannelOf(k)' = Tail(ChannelOf(k))
               /\ k \in matrix' <=> SongGoesOn /\ Head(ChannelOf(k))]_vars

\* exec() takes at least one waiting change, and takes a RESTORE only with everything
\* that was queued before it: the order between a key and RESTORE is kept.  The CPU of
\* that exec() takes the NMI, unless a key of the same burst makes a tune's player reset
\* the machine first.
BurstIsPrefix ==
  [][Exec /\ queue # <<>> =>
       \E n \in 1..Len(queue) :
         /\ queue' = SubSeq(queue, n + 1, Len(queue))
         /\ (\E i \in 1..n : queue[i].key = RESTORE) /\ nmi_line /\ SongGoesOn
            => entry'.nmi]_vars

\* A RUN/STOP press still in the queue when RESTORE is queued behind it is held when the
\* CPU takes the NMI, even if its release is already queued too, and unless the burst
\* makes a tune's player reset the machine.
StopThenRestore ==
  [][Exec /\ SongGoesOn =>
       \A i, j \in 1..Len(queue) :
         /\ i < j /\ queue[i] = [key |-> "stop", pressed |-> TRUE]
         /\ queue[j].key = RESTORE
         /\ Len(queue') <= Len(queue) - j
         => "stop" \in entry'.keys]_vars

=============================================================================
