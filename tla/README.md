# TLA+ models of lib8bit

lib8bit emulates a Commodore 64: a machine (CPU, CIAs, VIC-II, SID, memory banking, cartridges,
disk images, a SID tune player) in `src/src`, and a host application in `src/app/app.cpp` that
runs the machine on a worker thread and shows it from a UI thread. This directory holds TLA+
modules that model those parts, TLC configurations that check them on small instances, and
proofs that TLAPS checks for every value of the constants.

- [The system](#the-system): components, state, operations, interactions, what is hard
- [The modules](#the-modules): which models what, and how it corresponds to the code
- [The runs](#the-runs): what each shows, bounds, fairness
- [The proofs](#the-proofs)
- [Disagreements found](#disagreements-found)
- [What is only model-checked, and what is not modelled](#what-is-only-model-checked-and-what-is-not-modelled)
- [Plan](#plan)

To repeat the checks: `tlc -config MCBanking.cfg MCBanking.tla` for a run, `tlapm
Machine_proofs.tla` for a proof. `PROJECT.json` lists the runs, for every definition the source
lines it models, for every property a mutation of the code's model that violates it, and the
hazards the properties are for.

## The system

| Component | State | Operations | Correct when |
|---|---|---|---|
| Interrupt logic (`machine.cpp` 374-558, `cpu.cpp` 762-823) | `$D019/$D01A`, two ICRs with their masks and cached timer enables, `ext_irq`, `nmi_line`, the cached `irq_pending` and `nmi_pending` | register reads, writes and read-modify-writes, events of the chips, service at an instruction boundary, host IRQ, RESTORE, reset | the cached lines equal the registers they summarise; an NMI is an edge and none is swallowed |
| CIA timers, raster (`machine.cpp` 560-670) | latches, counts, start and one-shot bits; line, cycle, compare | register writes, `step_hardware` after each instruction | counting an instruction at once is counting its cycles one by one |
| Memory banking, cartridge (`machine.cpp` 33-260, `cartridge.cpp`) | processor port, the cartridge's bank, lines and enable, chip indices, two page tables behind `memory_map_key` | port writes, reads and writes of `$DE00-$DFFF`, insert, eject, reset, a tune's start, a program loaded over the port | the tables are never stale; an ejected or disabled cartridge is gone |
| CPU stack (`cpu.cpp` 24-47, 317-324, 486-490, 541-600, 694-715) | PC, SP, A, status, the page at `$0100` | calls, returns, pushes, pulls, BRK, IRQ, NMI, RTI | contexts nest wherever the pointer wraps |
| Other CPU instructions (`cpu.cpp`, `opcodes.cpp`) | registers, flags, cycles | 151 opcodes, page-cross penalties | the tables agree; sums, flags, decimal mode and cycles are the 6510's |
| VIC-II rendering (`vic.cpp`) | the line's pixels, foreground mask and sprite buffer; the collision registers | one line per raster line | all sprites that meet are in `$D01E`, those over the graphics in `$D01F`, and a line latches each source once; every fetch is in the bank |
| SID register queue and audio clock (`sid.cpp` 747-978, `machine.cpp` 511-522, 1101-1129) | a bounded queue of timestamped writes, registers, the audio clock, phase accumulators and the time of their next restart | a CPU write, `generate_audio`, reset, audio on and off | every write takes effect once, at its cycle; the cached restart is never stale |
| SID envelopes (`sid.cpp` 366-532) | level, rate counter, divider, three pipelines a voice | gate and ADSR writes, one cycle | a released note dies, a held one rests at its sustain |
| SID waveforms, filter, resampling (`sid.cpp`) | filter and resampler state | one sample | signal processing |
| Keyboard (`machine.cpp` 754-768, 846-918) | the matrix, a queue of changes, RESTORE among them | `queue_key`, `set_key`, `press_restore`, flush, clear, `exec` | each key's changes are seen in turn; order with RESTORE is kept; only a tune's reset within `exec` takes one away |
| Disk images, LOAD trap (`disk.cpp`, `machine.cpp` 780-820, 956-1082) | a D64, D71 or D81 image | directory walk, file chain walk, the trap at `$F4A5`, the start of a disk's first program | walks end; the trap leaves what the KERNAL's routine would |
| SID player (`machine.cpp` 1148-1621) | the tune, its sub-song, a driver in RAM | load, keys that select or stop, a step a frame | a stop leaves no trace of the tune |
| Assembler (`assembler.cpp`) | labels, origin, two passes | assemble a source text | both passes agree on every address |
| Disassembler, debug capture (`debug.cpp`) | none | format a copy of the state | - |
| Host: worker, frame exchange, UI tick (`app.cpp` 997-1190) | three snapshots and three indices, `fresh`, tick and notice flags, pause and shutdown flags | run a frame, publish, request a tick; tick, compose, pause, close | no torn, lost or reordered frame; no lost notice; closing ends |
| Host: media (`app.cpp` 280-365, 590-640, 1040-1060) | what the window says is inserted and playing, the media generation | open, reset, eject, the stop notice | the window and the machine agree |
| Host: input (`app.cpp` 375-497, 1285-1336) | arrow mode, the joystick's level and taps, keys held | key events, mode changes, focus loss | a released key is up in the machine; a tap is in a frame, and in none after the one that took it |
| Host: window, menus, settings | layout | drawing | - |
| libdesktop | external: window, UI task queue, executor, audio stream | posted tasks run in turn on the UI thread; `stop()` joins | - |

**Interaction.** The CPU loop (`cpu_exec`) takes one instruction or one interrupt, then
`step_hardware` advances timers and raster by its cycles, which raise the events the interrupt
logic latches. Every bus access goes through the page tables. The host calls `exec()` once a
frame with `g_machine_mutex` held; `exec()` first applies the key queue, then lets the front end of
a playing tune look at the matrix, which may reset the machine, and then runs the CPU. The worker copies the
picture to a snapshot, publishes it under `g_frame_mutex` and posts a coalesced UI tick; the UI
thread takes the tick, the notices that travel with it, and the newest snapshot. The UI thread
changes the machine itself (open, reset, eject, keys) under `g_machine_mutex`, while atomics
outside any mutex carry the rest: `g_sid_playing`, the notice flags, the media generation.

**What is hard.** Two threads that share some state under one of two mutexes and some under none
(frame exchange, media, the joystick words). Values that cache others and must follow them
through every path that changes those: the interrupt lines, bit 7 of the interrupt registers,
the cached timer enables, `memory_map_key`, the chip indices, `g_cart_inserted`, the start bit
of a timer, the time of the next hard-sync restart. Orders of register accesses nobody wrote a
test for. Repairing loops at numeric edges, and counters compared with `==`. Damaged disk
images. A key queue whose order and rate are a promise, and a queue of SID writes that drops its
oldest half. A stack pointer that wraps. There is no persistence and no network: crash recovery
and message loss do not arise. `PROJECT.json` lists each hazard at its line with the properties
that cover it, or says why none does.

## The modules

A register byte is the set of its flags; ROM contents, colours' values and file bytes are left out.
In the machine's modules a method of `machine_state` is an operator from a state to a state, so
that an action composes the calls as the code does, trailing `update_*` calls included. In the
host's modules, a section under a mutex is one step; each atomic access outside it is another.

### Interrupts (MCInterrupts, Machine_proofs)

`m` is the interrupt state of `machine_state`; `phase` says whether `cpu_exec` is at the head of
its loop or owes the hardware an instruction's cycles. `ServiceNmi` and `ServiceIrq` are
`cpu_service_interrupts`; `CpuReadIcr`, `CpuWriteIcr`, `CpuRmwIcr` and the VIC's counterparts are
the accesses one instruction makes, the read-modify-write with its dummy write; `StepHardware` is
`step_hardware`, with any set of underflows and VIC events; `HostIrq`, `HostRestore` and
`HostReset` arrive between two `exec()` calls. Which event happens when is free here and computed
in Clocks.

### Clocks (MCClocks, Clocks_proofs)

One CIA's timers and the raster. `TickCia` and `TickVic` are the code's counting, with the
reload loop modelled by its result; `StepHardware(n)` counts an instruction of `n` cycles.
The register writes are `WriteLow`, `WriteHigh`, `WriteControl` and `WriteCompare`. The property
`StepIsCycles` compares them with counting one cycle at a time, over every reachable
state.

### VicLine (MCClocks, Clocks_proofs)

What `vic_render_scanline` draws on one line, as operators without state of their own: `Shows`
and `CharRow` are its early returns and the row of characters, `VicBank` to `SpriteByte` the
addresses it fetches, `Foreground` and `Colour` the renderer of each mode, `Paint` the pixels of one
sprite (expanded, multicoloured, clipped), `DrawSprite` its part of the walk from sprite 7 down to 0,
which marks collisions through a buffer that has only the last sprite drawn at each pixel, and
`Latched` the comparison of `$D01E/$D01F` at the line's end. `RenderScanline` composes them. `Drawn`
and `Layered` say what the walk should come to whatever its order: who meets whom, and who shows.
Clocks says when a line is drawn, Interrupts what the latched sources do.

### Banking (MCBanking, Machine_proofs)

The port's three lines, the cartridge (`cart`: bank, lines, enable, the two chip indices), the
page tables as a function on seven regions with the key they were cached under (`map`), and where
the last reset found its vector. `ColdStart` is `machine_state::reset` in the code's order (map,
cartridge, vector); `InsertCrt`, `EjectCrt`, `LoadSid`, `LoadOverPort`, `WriteDdr`, `WriteLatch`,
`ReadExpansion` and `WriteExpansion` are the paths that change port or cartridge. `WriteIo`
follows every hardware type of `cartridge.cpp`.

### CpuStack over CallStack (MCCpuStack, Cpu_proofs)

`CpuStack` is the stack page with a pointer that wraps, one action per instruction that moves it,
BRK, IRQ, NMI and RTI. Programs of any length run; they pull what they pushed, and the history
variable `frames` remembers what that is. Loads and jumps change the registers freely. `CallStack`
is the promise: what was saved last is restored first, unchanged.

### CpuAlu (MCCpuStack, Cpu_proofs)

What one instruction computes, as operators: `Adc` and `Sbc` in both modes with the code's nybble
fix-ups (`LowSum`, `HighSum`, `Digit`), `Compare`, shifts, logic on the set of a byte's bits,
the flag each branch tests, and the effective addresses with their wraps (`InPage` is the pointer
that never leaves its page). The last section states what they should come to on numbers.

### Opcodes and Assembler (MCAssembler, Assembler_proofs)

`Opcodes` holds the two tables the code keeps of the instructions: `Listed` and `Length` from
`opcodes.cpp`, which the assembler reads, and the switch of `cpu_exec` by quarters (`Switch00` to
`SwitchC0`: operation and addressing call of each case), with its cycle table and penalties.
`Assembler` reads a program of statements twice (`Pass1`, `StartPass2`, `Pass2`): `c` is
`asm_ctx`, an operator per routine leads from one context to the next, and a failed context ends
the assembly. Then `Run` enters the program at any instruction and `Execute` moves the program
counter through the bytes by the switch's table, while `cursor` moves through the source by what
the source says; `RunsAsWritten` compares the two. Whether a branch is taken and whether an index
crosses a page is free.

### SidVoices and SidAudio (MCSidAudio, SidAudio_proofs)

`SidVoices` is the three accumulators with the cached time of the next restart (`next`,
`next_voice_sync`): `RunCycles` runs a span, `ApplyWrite` changes a register and works `next` out
anew, and `OneCycle` is the reference that looks for restarts at every cycle. `SidAudio` adds the
queue (`SidWrite`, `Bounded`), the audio clock (`GenerateAudio`, `SetAudioEnabled`, `Reset`), and
`sid_chip::clock` in two actions that alternate as its loop does: `ClockApplies` makes one write
that is due, `ClockRuns` runs to the next event.

### SidEnvelope (MCSidEnvelope)

One voice's envelope generator; `Clock` is its `clock()` in the code's order (state pipeline, level
pipeline, divider pipeline, rate counter), each part an operator; `GateOn`, `GateOff`,
`WriteAttackDecay` and `WriteSustainRelease` may come between any two cycles. Histories
(`overtaken`, `resustained`) mark the two cases the properties except.

### DiskLoad and DiskGeometry (MCDiskLoad, Media_proofs)

`DiskGeometry` holds the sizes and zones of every format and the mark of a visited sector;
MCDiskLoad evaluates that sectors tile the image and that no two share a mark. In `DiskLoad` an
image is its links, the use of its last sectors and its directory. A program calls LOAD through
`$F4A5` (`CallLoad`); `TrapStarts` takes the guards of `cpu_exec` and `kernal_load` in their
order, `ReadDirectorySector` and `ReadFileSector` walk a sector at a time, and `TrapReturns` pops
the address, copies the file and stores the results. `HostStarts` reads the same way.

### HostInput over KeyQueue (MCHostInput, Keyboard_proofs)

The UI thread handles one message at a time: a handler's accesses of mutex-guarded and of
atomic state are steps of their own, kept in `todo`; the worker reads the two joystick words
in either order (`ReadsJoystick`, `TakesTaps`) and runs a frame (`FrameRuns`: KeyQueue's
`Exec`, with the joystick words the worker read on the ports unless a tune's player opens them,
`PortsOf`). HostInput extends KeyQueue, whose queue and
matrix it uses. The histories are `sent` (the keys whose press went to the matrix), `spent` (the directions
whose tap a frame took and that were not pressed since), `gone` (those of them that were up when the last
frame began), `due` (the presses no frame has shown yet) and `mixed` (the shifted keys whose pair
something may have parted). `NoTapTwice` is about taps a frame took: a press makes two stores, the level and
then the latch (`app.cpp:1322-1323`), and a frame that reads between them shows the level while the latch
stays for the next frame.

### KeyQueue over KeyChannel (MCKeyQueue, Keyboard_proofs)

`queue` and `matrix` are `_key_queue` and `key_matrix`; `Exec` makes the burst `apply_queued_keys`
makes (the longest prefix with no key twice), then `sid_player_step` (`PlayerResets`,
`PlayerAfter`: X ends the tune, a number key starts another of its songs, and either resets the machine),
and `entry` remembers what the CPU then started from. `player` is the tune's songs, the song that plays and the
keys the last step saw; `LoadTune` is `load_sid` from outside. `KeyChannel` states what `queue_key` promises
one key, its eventual service included; the other keys, RESTORE and the queue's bound disappear in it,
and of a tune only that it plays remains: in a frame it resets, the oldest change is spent on a switch
that is open when the CPU starts (`Swallowed`).

### FrameExchange over LatestFrame (MCFrameExchange, FrameExchange_proofs)

The worker's loop and the UI thread as two processes with program counters (`worker`, `ui`); a
snapshot is the number of the frame it shows. `LatestFrame` is a register with the newest frame.
`posted` counts UI tasks, `notices` are the flags a tick delivers. A repaint is `compose()` as far as its
mutex (`UiSwaps`) or, without a client area (`sized` is FALSE, a minimised window), its early return
(`UiPaintsNothing`), which uses the repaint up and leaves the frame; `UiResizes` is `handle_size`, which
asks for another.

### HostMedia (MCHostMedia, Media_proofs)

What the machine holds (`machine`) against what the window says (`media`, `inserted`), the
generation that stamps the stop notice, and the two halves of `load_file` (`UiLoads` with the
mutex, `UiNames` after it). A tune may stop in any `WorkerFrame` once X was pressed. MCHostMedia adds
a history, `raced`: the generation was renewed between a tune's stop and the tick that tells of it.

## The runs

| Run | Instance | Shows |
|---|---|---|
| `interrupts` | two VIC sources, two timers a CIA | the cached lines are exact in every order of accesses and events; NMI pending rises by an edge or RESTORE and by every edge; a read-modify-write acknowledges |
| `clocks` | latch bytes of one bit, lines of 4 cycles, 2 lines, compare values 0..2, instructions of 2 or 3 cycles | an instruction's cycles at once equal the cycles one by one; start bits agree; VicLine's assumptions: lines, modes, fetches, sprites and collisions |
| `banking` | 16 images, 5 registers, 9 values, the whole port | the page tables follow every change; chip indices name the current bank; an ejected or self-disabled cartridge stays out; a new cartridge boots |
| `cpu_stack` | bytes of one bit, a page of 5 bytes, the interrupt flag; the operators of CpuAlu over all bytes | each context is left for where and with what it was entered; a handler finds BREAK on its stack exactly after BRK |
| `keys` | RUN/STOP, X, RESTORE, a tune of one song, a queue of 4 | every key sees a channel of its own; RESTORE keeps its place; a press in front of RESTORE is held when the NMI is taken; nothing waits for ever; only a tune's reset takes a change from the CPU |
| `frames` | 4 frames, a window that may lose its client area | no torn, lost or reordered frame, no lost wake-up or notice; a close always ends |
| `media` | 2 tunes, a cartridge, a disk, a program; 4 changes of media | a late notice never clears a newer tune's name; the name of a stopped tune goes; Eject is offered exactly when something is in |
| `input` | a shifted arrow, its plain key, Shift, fire, a number key and tunes of 1 or 2 songs; 6 messages, a queue of 4 | nothing stays pressed without a key that holds it; a tap is in a frame, and in none after the one that took it; a shifted key is never seen without its shift |
| `sid` | accumulators of 3 bits, a queue of 3, spans of up to 3 cycles, 4 writes of 5 | the queue stays in order and ends with the chip where the program put it; every write takes effect at its cycle; spans between cached restarts give what looking at each cycle would |
| `envelope` | 5 levels, three of them sustain levels, a divider of 2 at one, a rate counter of 11 positions, 2 rates | a released note dies away, a held one rises to the top and comes to rest at its sustain, but for the named cases |
| `disk` | 4 sectors linked in every way, 1 call of LOAD with one pushed address, a RAM of 16 cells | every LOAD ends; what is read is the file; what it leaves is what the ROM's routine would, over the zero page, the stack and the end of memory too |
| `assembler` | 3 lines of 16 statements, the first also any instruction with any class of operand | both passes agree on every address; the CPU meets each instruction with its operand, at the bus's cost in cycles |

**Why the bounds are enough.** *Interrupts*: the registers are symmetric in their bits, so a
source that is masked beside one that is not shows every case. *Clocks*: an instruction can
underflow a timer three times, end a line and end the frame; compare 2 is a line no frame has,
latch 0 is the longest period. The ratio that matters, no instruction as long as a line, is an assumption
of the module that the real 63 cycles satisfy. *VicLine* is evaluated over every line of a frame, every
control bit and scroll, every byte of a cell and every value of `$D018`, and over every set of pixels of three
sprites on three pixels: three may meet at a pixel, or two of them elsewhere than with the third. *Banking*: one image per way of switching, with an
Ultimax, a 4K chip at `$F000`, a header byte other than 0 or 1, and EasyFlash's three line
settings; the values reach every branch of every type. *CpuStack*: a context and a return address
fill the page, each may be split at any byte by the wrap, and the stale bytes of earlier contents
are all there; more addresses or flags would only be copies. *KeyQueue*: four changes hold two
presses and two releases of a key, or one key's pair around RESTORE, with X among them, and a full queue.
*FrameExchange*: with four frames the worker publishes twice while one snapshot is drawn and every
index visits every snapshot. *Assembler*: bytes and addresses are the real ones. Every
instruction occurs with every class of operand, small and large; a reference, what moves addresses
and the label it may name need three lines, and origins put the code in front of `$FFFF`, behind a
gap and across a page. *HostMedia*: a notice meets two further changes of media; the
generation is the only counter, and the proofs hold for any bound. *HostInput*: two keys share the
shift and one shares the arrow's switch; six messages press, repeat, release and change the mode
around any frame; the queue of four fills. *SidAudio*: three writes fill the queue and a fourth
drops half of it; with three bits an accumulator passes its half within a span, in the cycle of a
write and behind it; a span longer than the cap leaves writes to the next. *SidEnvelope*: the
real chip's 256 levels differ only in which of six dividers they use and its rate counter in its
length; two rates are one the counter has passed and one it has not. The faster is the code's fastest,
nine cycles: with a rate shorter than the pipelines, as no register value gives, an attack would step on
before its peak took effect. The sustain levels are the bottom, the top and one below it. *DiskLoad*: the three
sectors beside the header give every chain that ends, loops, leaves the image or joins another, the directory's
own included; longer ones only repeat these.

**Fairness.** `frames`: the worker's thread is scheduled (`WF_vars(Worker)`), and so is a UI
handler that has begun (`WF` of the steps within the tick, the draw and the join). Beginning a
posted task and repainting an invalid window compete, and each is assumed strongly fair, because
every pass of libdesktop's frame loop pumps both the messages and the posted tasks. A repaint may find no
client area and draw nothing, and nothing obliges the user to restore a minimised window: `FrameShown`
speaks of a window that in the end keeps one (`<>[]sized`). The user is
not fair: nothing assumes that the window is closed or a pause ended. The run stops when the
window is closed, or when the frame bound is reached, so deadlock is not checked there.
`keys`: `WF_vars(Exec)`, because the worker calls `exec()` each frame while it is not paused.
`envelope`: `WF_vars(Clock)`, since the host asks for sound for as long as it has audio on.
`disk`: `WF_vars(Runs)`: the worker goes on calling `exec()`, and the host finishes what it has
begun; a program need not call LOAD. The other modules state safety only and need none. In `input`
and `sid` the bounds on messages, ticks and writes end a run. An assembly and the walk through its
result come to an end; none of these three checks deadlock.

## The proofs

Each `*_proofs` module proves that its inductive invariant holds initially, is preserved by each
action, and implies the properties; assumptions are the named ASSUMEs of the module proved about.

- **Machine_proofs**: of Interrupts, for any sets of sources: `Good` conjoins the four exact lines: none is inductive
  alone, since `WriteIcr` computes bit 7 from the enables the last mask write cached. One lemma per
  method: from a good machine it returns one. `NmiOnEdge` follows from lemmas that say which
  methods let the line fall. `RmwAcknowledged`: the dummy write of a read-modify-write clears what its
  read saw.
  Of Banking, for any images and registers: the page tables are the rebuild of *some* bank and
  cartridge (`IInv`), and the invariant says what of it the tables still share with the present
  one; reset, which builds them before it resets the cartridge, is why equality is not invariant.
  `RemapCorrect` shows that every other operation restores it: the key tells apart all that the
  tables are built from. `UltimaxBoots` follows the tables through the reset in the code's order.
- **Clocks_proofs**: any byte width, line, frame and instruction lengths. `ReloadRange` says where the
  reload loop ends (within one period above its floor), for which the period must be positive even
  with a zero latch. `TypeOK /\ StartBitExact` is inductive. `StepCorrect` is `StepIsCycles`: an
  event after `n` cycles and one more cycle is what `n + 1` cycles give, for which a line in progress must
  already have been compared (`Seen`). The reference it is compared with is a recursive
  function: a closed form is shown to satisfy its equation, and followed upwards over the
  set of numbers where the claim holds (`Climb`). Of VicLine, for any number of sprites and any pixels:
  the whole walk from the highest sprite down gives `Drawn` and `Layered`, since the
  buffer's lowest sprite stands for all that are at a pixel; `LineInBank` and `SpritesInBank` bound
  every fetch.
- **Keyboard_proofs**: any keys, any songs, any bound. The burst's properties follow
  from its being the longest prefix without a repetition, which exists by a greatest-element lemma. A
  channel is followed change by change (`Grows`); a burst holds one of a key at most, so `exec()` serves
  a key not at all or with its oldest change, and every step of the queue is one of `KeyChannel`. What a
  tune's player does in between is one of two cases, told apart by whether the song goes on (`ExecType`).
  Of the host above it, `HostInv`: the level each key will have once the queue is empty is the one the
  UI thread sent last; each press of the joystick is latched, on its way, or in what the worker read; no
  latched tap is of a direction whose tap was taken and that was not pressed since;
  a shifted key's change and its shift's stay side by side in the queue, so no burst ends between
  them, and a matrix that opens under the queue opens under both (`OpenPair`).
  `NothingStuck`, `NoTapTwice`, `NoTapLost` and `ShiftedTogether` follow.
- **FrameExchange_proofs**: any number of frames. The indices are a permutation (`Distinct`); what is
  copied, offered, taken and drawn is ordered (`Ordered`); at most one tick is on its way
  (`Coalesced`); and a fresh frame or a notice has one coming (`Delivered`). From these also the
  refinement of `LatestFrame`: a publication and a swap map to its steps, all else stutters.
- **SidAudio_proofs**: any width, queue size, cap and program. `TypeOK` needs that the least of a set of
  cycle counts exists (by well-foundedness), that it is at least one cycle, and that it passes no
  event: then `clock` runs whole spans. With `QueueInOrder` and `InSpan` (past the start of a span
  no queued write is late) it is inductive, and gives `CycleAccurate`. `ChipInv` adds that a register
  the bound lost has nothing left in the queue and that a queue exists only with audio on; the case
  split is on whether the last write to a register is queued, dropped or just made. This last needs
  a host that does not switch audio off and on again (`~HostDisables`), as lib8bit's does not.
  `SpansCorrect`: before the cached restart no source passes its half (`Calm`), so spans between such
  times and single cycles give the same.
- **Cpu_proofs**: any page, any number of byte values, for the stack. The frames lie one below
  another under the pointer (`Laid`), together no longer than the page, so no push reaches one;
  `StackHolds` and the refinement of `CallStack`, step by step, follow. Of CpuAlu, for
  all bytes and statuses, both modes: a byte is split into its digits once; each
  fix-up is then a case of linear arithmetic on digits. `ADC` and `SBC` are sums and differences with
  carry, in decimal on operands that are digits; overflow, comparisons and the signed and unsigned
  branches follow the order of the numbers; an index crosses a page exactly if its low byte carries.
- **Media_proofs**: any files, any images, any bound. Without mutual exclusion between the notice and
  the UI the key is `Stamp`: a pending or forming notice whose stamp equals the generation is of a tune
  that no longer plays. `Lag` says by which file the window is behind between the halves of
  `load_file`, `Told` that a title without its tune has a notice coming (`NoticeComes`). Of DiskLoad, for
  any links, damaged or not: a walk is the first so many sectors of a way that meets none twice
  (`Way`); one that cannot go on is the longest, and the only one (`WayIs`), so what was read is the
  file. `CopyIs` is memory after the trap, over every overlap of program, zero page and stack.
- **Assembler_proofs**: any statements whose names are identifiers, any length of program. The three
  tables are compared case by case: `CaseUnique` (no opcode has two cases), `EntriesAgree` (the
  assembler's length is what the switch consumes), `PlainCost` and `PenaltyCost` for `CyclesExact`. Of a
  pass the invariant keeps the contexts it went through, one a line (`Walk`), and what holds of each
  of them is an induction over the lines (`Climb`). What pass 1 has defined stays, since a symbol is
  defined once; so at each line pass 2 is at the address pass 1 had there (`Agree`), for which an
  instruction must be as long with its symbols unknown as with them known (`ModeAlike`), and an origin
  must name nothing below it (`Backward`). The bytes of a line stay as laid (`Laid`), since
  addresses only rise; so the CPU finds the code of the line the source is at (`FetchedAt`, `EncodesAt`), and
  goes where the source goes (`StepFollows`). The walks are said to exist, over no bounded set, so TLC
  checks what the invariant implies, `RunsAsWritten`, and not the invariant itself.

## Disagreements found

Five places do otherwise than a comment or document of the repository says. Each is an exception in
the property that is otherwise kept, so that dropping the exception shows the trace.

1. `NewCartBoots`: `reset()` builds the page tables before `cart.reset()` restores the lines they
   depend on, so an EasyFlash switched away from Ultimax boots from the KERNAL (`machine.cpp:45`
   against its comment at 62). The property speaks of a reset only if the cartridge is as its header
   has it.
2. `TitleCurrent`: a reset between a tune's last frame and the tick that tells of it makes the
   notice stale without forgetting the tune: the title names it on (`app.cpp:602`, `README.md:79`).
   Opening a file has the same race at `app.cpp:357`. The history `raced` marks these.
3. `StopThenRestore`: a RUN/STOP held since an earlier frame and released right behind RESTORE is
   up when the NMI is taken (`machine.cpp:896`, `machine.h:399`). The property speaks of a press that
   is still queued.
4. `RunsAsWritten`: an origin that names a symbol defined below it is 0 in pass 1 and the
   symbol's value in pass 2, so the labels behind it are wrong and no error is reported
   (`assembler.cpp:403`, against its lines 3-4). An equate that names one has the two values as well, and what
   uses it in between, an origin or a choice of mode, inherits them. `Backward` excludes both.
5. `OneChangePerExec`, `BurstIsPrefix`, `StopThenRestore`, `NoTapLost`: while a tune plays, an X or another
   song's number key resets the machine within `exec()`, behind the burst and in front of the CPU
   (`machine.cpp:757`). What came in the same frame is spent unseen: a RESTORE, every other key, the
   joystick's directions with the tap among them. `machine.h:389-393` promises that every press lasts a
   whole `exec()` and that a host which runs a frame per `exec()` loses no key. The properties speak of
   frames in which the song goes on (`SongGoesOn`).

Smaller ones, met while modelling:

- Enabling an already latched CIA2 flag pulls the NMI line but leaves bit 7 of `$DD0D` clear
  (`machine.cpp:488`, against `machine.h:126`; CIA1's write recomputes it).
- Operands too wide for their mode (`LDA #$1234`, `LDA ($1234),Y`) are cut to a byte without an error;
  `STX symbol,Y` is refused, because a symbol takes the absolute form that STX lacks;
  `docs/design.md` counts seventeen reads with a page penalty where `penalty_op` lists 23.
- The LOAD trap pops its return address before it copies the file (`machine.cpp:1049-1071`), so a
  program that loads over the stack to start itself, as the ROM's `RTS` at the end would let it, returns to
  its caller instead (`covered` in `RoutineLeft`). And when a stack holds nothing but the trap's
  own address, each LOAD is followed by the next without a cycle charged: `exec()` does not
  return (`cpu.cpp:818`, the exception of `LoadReturns`).
- A voice put under test in the cycle its accumulator passed its half keeps `msb_rising`, and the next
  restart of any voice restarts its follower too (`StaleRise`).
- Switching audio off and on again replays the writes queued before over those made directly in
  between (`machine.cpp:1103`). lib8bit's host switches it off once, at its end; with
  `HostDisables = TRUE` in MCSidAudio, `ChipFollows` shows the trace.
- A lower-numbered sprite that is behind the graphics lets a higher one in front of them show where
  all three are (`vic.cpp:370`, against its comment at 300 that the lower ones are on top): `Layered`.
- A release whose state change is pending when the attack reaches its peak is overwritten by the
  change to decay (`sid.cpp:406`), and a divider whose period is shortened below its count hangs
  the note (`sid.cpp:432`): the two exceptions of `ReleaseEnds`.

## What is only model-checked, and what is not modelled

Liveness (`FrameShown`, `NoticeTaken`, `ShutdownEnds`, `ReleaseEnds`, `HeldRests`, `LoadReturns`, the
service part of `ImplementsKeyChannel`) is beyond the prover and stays with TLC. Every
other property of the runs, invariant or action property, is proved. Logic (`And`, `Ora`, `Eor`, `Bit`)
is built from a fold, and TLC evaluates that a byte is its bits.

Not modelled: waveforms, filter and resampling (signal data, no
discrete property beyond the queue, the accumulators and the envelopes), the
disassembler and debug capture (they format a copy), window layout, menus and settings (presentation;
one file written on close), ROM tables, build scripts and tests. EasyFlash's RAM, the bytes of ROMs
and the contents of snapshots are data no property tells apart, as are the palette and the glyphs. VicLine
leaves out that colour RAM and the registers are bytes of the same array as the RAM under I/O.

Of the SID tune player, its keys and the reset they make are in KeyQueue, the memory map at its start in
Banking, what the window says of it in HostMedia. Loading is taken to succeed. The driver it writes into
RAM and its screen are not modelled; a tune started with an Ultimax cartridge inserted finds the cartridge's
vectors in place of the driver's (`machine.cpp:1470`), a hazard without a property.

In CpuStack a program pulls what it pushed, so code that manipulates its own return addresses is
outside it, as is a reset in the middle of a program. Which operator of CpuAlu each opcode calls is
the dispatch of Opcodes by name, not joined to it. HostMedia leaves pause out. SidVoices is the 8580's:
on a 6581 a combined waveform with the sawtooth may clear the top bit of its own accumulator
(`sid.cpp:266-270`). Assembler leaves out the text (comments, quotes, number syntax): `.text` and
lists are sequences of single values, and an expression is one symbol, a distance and `<` or `>`;
an instruction that jumps where only data says ends the run. Enabling a masked CIA2 flag is covered
by `NmiLineExact`; bit 7 of its register is unconstrained. DiskLoad leaves out the listing's text, the
free blocks and the case of names.

## Plan

The components above with discrete behaviour are modelled. What is left, in this order:

1. **SidPlayer**: HostMedia over KeyQueue's player: which X or number key stops which tune, the driver's frames.
2. A CPU that joins Opcodes, CpuAlu and CpuStack, against the same programs Assembler runs.
