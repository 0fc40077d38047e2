----------------------------- MODULE HostInput -----------------------------
(***************************************************************************)
(* How lib8bit's host turns the keys of a PC keyboard into switches of the *)
(* C64's matrix and into joystick directions (src/app/app.cpp 375-497 and  *)
(* 1285-1336), over the machine's keyboard queue (module KeyQueue).        *)
(*                                                                         *)
(* Two threads: the UI thread, which handles one key message, menu command *)
(* or focus change after the other, and the emulation worker, which reads  *)
(* the joystick words at the start of a frame.  g_machine_mutex guards the *)
(* machine; the joystick words and the modes are atomics read and written  *)
(* outside it, so each access of one is a step of its own.                 *)
(*                                                                         *)
(* A switch is named after the host key that closes it alone; RESTORE is   *)
(* left to KeyQueue.                                                       *)
(***************************************************************************)
EXTENDS KeyQueue

CONSTANTS
  HostKey,        \* the PC keys a user presses
  MaxMessages     \* bounds the messages the UI thread handles

Port == {"joystick1", "joystick2"}
Mode == {"cursor"} \cup Port

VARIABLES
  ports,                  \* port -> the directions (and fire) it holds low
  arrow_mode,             \* g_arrow_mode
  joystick, taps,         \* g_joystick, g_joystick_taps
  paused,                 \* g_paused
  todo,                   \* what the UI thread's message still has to do
  worker,                 \* what the worker has read in apply_joystick
  held,                   \* the PC keys down since the window took the focus
  sent,                   \* history: keys whose press went to the matrix
  spent,                  \* history: directions not pressed since a frame took their tap
  gone,                   \* history: of these, the ones up when the last frame began
  due,                    \* history: presses no frame has shown yet
  mixed,                  \* history: shifted keys whose pair may have been parted
  messages

nmi      == <<nmi_line, nmi_pending>>      \* which none of these keys pulls
machine  == <<queue, matrix, entry, nmi, player>>
modes    == <<arrow_mode, paused>>
words    == <<joystick, taps>>
history  == <<sent, spent, gone, due, mixed>>
hostVars == <<machine, ports, modes, words, todo, worker, held, history, messages>>

-----------------------------------------------------------------------------
(* The key map. *)

\* The keys a C64 has only as the shifted half of another.
Shifted == [Up |-> "Down", Left |-> "Right", F2 |-> "F1", F4 |-> "F3", F6 |-> "F5", F8 |-> "F7"]

\* Mutation: the key is closed before the shift it needs.
map_key_KeyFirst(h) ==
  IF h \in DOMAIN Shifted THEN <<Shifted[h], "Shift">> ELSE <<h>>

\* map_key: the switches of a PC key, in the order they are sent.
map_key(h) ==
  IF h \in DOMAIN Shifted THEN <<"Shift", Shifted[h]>> ELSE <<h>>

SwitchesOf(h) == {map_key(h)[i] : i \in DOMAIN map_key(h)}

ASSUME SwitchAssumption == \A h \in HostKey : SwitchesOf(h) \subseteq Key
ASSUME MessagesAssumption == MaxMessages \in Nat

Arrows  == {"Up", "Down", "Left", "Right"}
JoyKeys == Arrows \cup {"Space"}

\* What the UI thread still does for a message: change a switch, latch a tap,
\* or clear a joystick word.
Latch(h)     == [op |-> "tap", key |-> h, locked |-> FALSE]
ClearWord(w) == [op |-> w, locked |-> FALSE]

\* send_keys: the changes of a key, which one lock of the machine covers.
SendKeys(h, p) ==
  [i \in DOMAIN map_key(h) |->
     [op |-> "key", key |-> map_key(h)[i], pressed |-> p, locked |-> i > 1]]

\* The level of switch k once everything queued is made.
LevelOf(k) == DownAfter(queue, matrix, Len(queue), k)

-----------------------------------------------------------------------------
HostInit ==
  /\ Init
  /\ ports = [p \in Port |-> {}]
  /\ arrow_mode = "cursor" /\ paused = FALSE
  /\ joystick = {} /\ taps = {}
  /\ todo = <<>> /\ worker = [port |-> "cursor", left |-> {}, bits |-> {}, busy |-> FALSE]
  /\ held = {} /\ sent = {} /\ spent = {} /\ gone = {} /\ due = {} /\ mixed = {}
  /\ messages = 0

\* The UI thread takes its next message.
NextMessage == todo = <<>> /\ messages < MaxMessages /\ messages' = messages + 1

\* A key change takes the machine's mutex; the lock covers all of a key's switches.
MachineFree == ~worker.busy

\* The keys of which h alone closes the half that is no shift, and those still down
\* that share a switch with h: h, pressed or released, leaves half of such a key.
Alone(h)  == {g \in DOMAIN Shifted : Shifted[g] = h}
Shares(h) == {g \in (DOMAIN Shifted \cap sent) \ {h} : SwitchesOf(g) \cap SwitchesOf(h) # {}}

\* Mutation: a press only sets the level, as if every press outlasted a frame.
LatchOf_None(h) == <<>>

\* A press is latched too, unless the machine is paused.
LatchOf(h) == IF paused THEN <<>> ELSE <<Latch(h)>>

\* handle_keyboard, key_down, which the operating system repeats while a key is held.
KeyDown(h) ==
  /\ NextMessage
  /\ held' = held \cup {h}
  /\ IF arrow_mode # "cursor" /\ h \in JoyKeys
     THEN /\ joystick' = joystick \cup {h}
          /\ todo' = LatchOf(h) \o (IF h = "Space" THEN SendKeys(h, TRUE) ELSE <<>>)
          /\ spent' = spent \ {h} /\ gone' = gone \ {h}
          /\ due' = IF paused THEN due ELSE due \cup {h}
     ELSE todo' = SendKeys(h, TRUE) /\ UNCHANGED <<joystick, spent, gone, due>>
  /\ sent' = IF arrow_mode = "cursor" \/ h \notin Arrows THEN sent \cup {h} ELSE sent
  /\ mixed' = mixed \cup Alone(h)
  /\ UNCHANGED <<machine, ports, modes, taps, worker>>

\* Mutation: in a joystick mode the fire key's release goes to the joystick alone.
KeyUpSends_NotSpace(h) == arrow_mode = "cursor" \/ h \notin JoyKeys

\* An arrow released in a joystick mode goes to the joystick alone, wherever its
\* key_down went.
KeyUpSends(h) == arrow_mode = "cursor" \/ h \notin Arrows

\* handle_keyboard, key_up.
KeyUp(h) ==
  /\ h \in held
  /\ NextMessage
  /\ held' = held \ {h}
  /\ joystick' = IF arrow_mode # "cursor" THEN joystick \ {h} ELSE joystick
  /\ todo' = IF KeyUpSends(h) THEN SendKeys(h, FALSE) ELSE <<>>
  /\ sent' = IF arrow_mode # "cursor" /\ h \in Arrows THEN sent ELSE sent \ {h}
  /\ mixed' = mixed \cup Shares(h)
  /\ UNCHANGED <<machine, ports, modes, taps, worker, spent, gone, due>>

\* set_arrow_mode, from the Input menu.
SetArrowMode(m) ==
  /\ NextMessage
  /\ arrow_mode' = m
  /\ todo' = IF m = "cursor" THEN <<ClearWord("joystick"), ClearWord("taps")>> ELSE <<>>
  /\ due' = IF m = "cursor" THEN {} ELSE due
  /\ UNCHANGED <<machine, ports, paused, words, worker, held, sent, spent, gone, mixed>>

TogglePause ==
  /\ NextMessage
  /\ paused' = ~paused
  /\ UNCHANGED <<machine, ports, arrow_mode, words, todo, worker, held, history>>

\* release_all_keys, when the window loses the focus: no key_up follows.
KillFocus ==
  /\ NextMessage /\ MachineFree /\ UNCHANGED nmi
  /\ joystick' = {} /\ taps' = {}
  /\ ClearKeys
  /\ held' = {} /\ sent' = {} /\ due' = {}
  /\ UNCHANGED <<ports, modes, todo, worker, spent, gone, mixed>>

\* A cartridge is loaded or ejected, or a tune loaded: the matrix opens under keys still
\* held.
LoadMedia ==
  /\ NextMessage /\ MachineFree /\ UNCHANGED nmi
  /\ StateReset \/ \E songs, song \in 1..MaxSongs : LoadTune(songs, song)
  /\ ports' = [p \in Port |-> {}]
  /\ UNCHANGED <<modes, words, todo, worker, held, history>>

\* File > Reset.
ResetMachine ==
  /\ NextMessage /\ MachineFree /\ UNCHANGED nmi
  /\ Reset
  /\ ports' = [p \in Port |-> {}]
  /\ UNCHANGED <<modes, words, todo, worker, held, history>>

-----------------------------------------------------------------------------
(* The rest of a message. *)

TakeTodo(op) == todo # <<>> /\ todo[1].op = op /\ todo' = Tail(todo)

\* send_keys: one change of the key it sends.  A paused host makes it at once, after
\* whatever was still queued.
SendKey ==
  /\ TakeTodo("key") /\ MachineFree /\ UNCHANGED nmi
  /\ LET c == todo[1] IN
     IF paused
     THEN /\ queue' = <<>>
          /\ matrix' = LET m == MatrixAfter(queue, matrix, Len(queue))
                       IN  IF c.pressed THEN m \cup {c.key} ELSE m \ {c.key}
          /\ UNCHANGED <<entry, player>>
     ELSE QueueKey(c.key, c.pressed)
  /\ mixed' = IF Len(queue) = MaxQueuedKeys THEN DOMAIN Shifted ELSE mixed
  /\ UNCHANGED <<ports, modes, words, worker, held, sent, spent, gone, due, messages>>

LatchTap ==
  /\ TakeTodo("tap")
  /\ taps' = taps \cup {todo[1].key}
  /\ UNCHANGED <<machine, ports, modes, joystick, worker, held, history, messages>>

ClearJoystick ==
  /\ TakeTodo("joystick")
  /\ joystick' = {}
  /\ UNCHANGED <<machine, ports, modes, taps, worker, held, history, messages>>

ClearTaps ==
  /\ TakeTodo("taps")
  /\ taps' = {}
  /\ UNCHANGED <<machine, ports, modes, joystick, worker, held, history, messages>>

-----------------------------------------------------------------------------
(* The worker's frame: apply_joystick, then exec. *)

\* The UI thread is between two changes one lock covers.
UiHasLock == todo # <<>> /\ todo[1].locked

\* The mutex is taken and the mode loaded.
FrameStarts ==
  /\ MachineFree /\ ~UiHasLock /\ ~paused
  /\ worker' = [port |-> arrow_mode, bits |-> {}, busy |-> TRUE,
                left |-> IF arrow_mode = "cursor" THEN {} ELSE {"joystick", "taps"}]
  /\ gone' = spent \ joystick
  /\ UNCHANGED <<machine, ports, modes, words, todo, held, sent, spent, due, mixed, messages>>

ReadsJoystick ==
  /\ "joystick" \in worker.left
  /\ worker' = [worker EXCEPT !.left = @ \ {"joystick"}, !.bits = @ \cup joystick]
  /\ UNCHANGED <<machine, ports, modes, words, todo, held, history, messages>>

\* Mutation: the taps are read and left for the next frame.
TapsLeft_Kept == taps

TapsLeft == {}

\* Presses whose latch is still to come.
InFlight == {todo[i].key : i \in {j \in DOMAIN todo : todo[j].op = "tap"}}

\* The exchange.  C++ leaves open which operand of the | is evaluated first.
TakesTaps ==
  /\ "taps" \in worker.left
  /\ worker' = [worker EXCEPT !.left = @ \ {"taps"}, !.bits = @ \cup taps]
  /\ taps' = TapsLeft
  /\ spent' = spent \cup (taps \ InFlight)
  /\ UNCHANGED <<machine, ports, modes, joystick, todo, held, sent, gone, due, mixed, messages>>

\* What the CPU of the frame finds on the ports: what set_joystick left there, unless a
\* tune's player resets the machine.
PortsOf ==
  [p \in Port |-> IF p = worker.port /\ ~PlayerResets(MatrixOfBurst) THEN worker.bits ELSE {}]

\* set_joystick on both ports, then exec and the release of the mutex.
FrameRuns ==
  /\ worker.busy /\ worker.left = {} /\ UNCHANGED nmi
  /\ ports' = PortsOf
  /\ Exec
  /\ worker' = [worker EXCEPT !.busy = FALSE, !.bits = {}]
  /\ due' = IF worker.port = "cursor" THEN due ELSE due \cap (taps \cup InFlight)
  /\ UNCHANGED <<modes, words, todo, held, sent, spent, gone, mixed, messages>>

HostNext ==
  \/ \E h \in HostKey : KeyDown(h) \/ KeyUp(h)
  \/ \E m \in Mode : SetArrowMode(m)
  \/ TogglePause \/ KillFocus \/ LoadMedia \/ ResetMachine
  \/ SendKey \/ LatchTap \/ ClearJoystick \/ ClearTaps
  \/ FrameStarts \/ ReadsJoystick \/ TakesTaps \/ FrameRuns

HostSpec == HostInit /\ [][HostNext]_hostVars

-----------------------------------------------------------------------------
(* Properties. *)

\* No switch stays closed, and no direction held, without a PC key that holds it: every
\* release finds its way to where the press went, whatever the modes, pauses, full queues
\* and losses of focus in between.  The exception the code makes is in the history `sent`:
\* an arrow pressed as a cursor key and released in a joystick mode.
NothingStuck ==
  todo = <<>> =>
    /\ \A k \in Key : LevelOf(k) => \E h \in sent : k \in SwitchesOf(h)
    /\ sent \subseteq held \cup Arrows
    /\ joystick \subseteq held

\* "Joystick taps are latched until the next frame": a direction pressed while the machine
\* runs is on a port in the next frame, or still latched for the one after, however short
\* the press and wherever the worker was in apply_joystick.  The taps of a frame in which
\* a tune's player resets the machine go with the reset.
NoTapLost ==
  [][FrameRuns /\ worker.port # "cursor" /\ SongGoesOn =>
       due \subseteq taps \cup InFlight \cup (UNION {ports'[p] : p \in Port})]_hostVars

\* The frame that takes a tap uses it up: no later frame shows the direction, unless it was
\* down when that frame began or has been pressed again.  (A press whose level a frame
\* reads before the UI thread latches it is shown by two frames: it is latched, not taken.)
NoTapTwice == worker.bits \cap gone = {}

\* A frame that sees the switch of a shifted cursor or function key closed sees the shift
\* closed too, unless the unshifted key was pressed as well, another key that shares the
\* shift was released meanwhile, or the queue was full between the two changes.
ShiftedTogether ==
  \A h \in (HostKey \cap DOMAIN Shifted) \ mixed :
    Shifted[h] \in entry.keys => "Shift" \in entry.keys
=============================================================================
