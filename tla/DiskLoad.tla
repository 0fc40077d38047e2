------------------------------ MODULE DiskLoad ------------------------------
(***************************************************************************)
(* Files read from a disk image (src/src/disk.cpp) by the two that read    *)
(* them: the KERNAL LOAD trap of cpu_exec (src/src/cpu.cpp 811-817,        *)
(* src/src/machine.cpp 999-1082) and the host that starts the first        *)
(* program of a disk (src/app/app.cpp 307-321, machine.cpp 780-820).       *)
(*                                                                         *)
(* An image is what its sectors say: which sector follows which, how much  *)
(* of the last one is used, and the directory entries in it.  A directory  *)
(* or file chain may be damaged in any way.  A cell of RAM is what a       *)
(* program tells apart: two bytes where they are an address.               *)
(***************************************************************************)
EXTENDS Integers, FiniteSets, Sequences, SequencesExt

CONSTANTS
  Images,         \* the disks
  Blocks, Header, \* their sectors; track 18 or 40, sector 0
  Outside,        \* a track and sector the geometry does not have
  Cells,          \* how much a sector holds
  LoadAt,         \* the address in the first cell of a sector
  Size,           \* of RAM
  Trap,           \* KERNAL_LOAD_TRAP, $F4A5
  Basic,          \* $0801
  Stack, Slots,   \* the stack's first cell and its size in return addresses
  VERIFY, STATUS, END_ADDR, VARTAB, NDX,    \* cells of the zero page
  Callers,        \* where a program may call LOAD from
  Requests,       \* what it may ask for
  Bound           \* of the model: how many disks, calls and pushes

End      == 0     \* track 0
NotFound == 4     \* KERNAL_FILE_NOT_FOUND
Eoi      == 64
NoDisk   == [none |-> TRUE]

Ram == 0..(Size - 1)

\* Where a chain may lead, an entry of a directory, and an image.
Link  == Blocks \cup {End, Outside}
File  == [type : STRING, first : Link, name : Seq(STRING)]
Image == [next : [Blocks -> Link], used : [Blocks -> 0..Cells], slots : [Blocks -> Seq(File)]]

ASSUME DiskAssumption ==
  /\ IsFiniteSet(Blocks) /\ Blocks \subseteq Nat
  /\ Header \in Blocks /\ End \notin Blocks /\ Outside \notin Blocks \cup {End}
  /\ Cells \in Nat \ {0} /\ LoadAt \in [Blocks -> Ram]
ASSUME ImageAssumption == Images \subseteq Image
ASSUME RamAssumption ==
  /\ Size \in Nat \ {0} /\ Stack \in Nat /\ Slots \in Nat \ {0}
  /\ {Trap, Basic, VERIFY, STATUS, END_ADDR, VARTAB, NDX} \subseteq Ram
  /\ Stack..(Stack + Slots - 1) \subseteq Ram \ {STATUS, END_ADDR}
  /\ STATUS # END_ADDR /\ Callers \subseteq Ram
ASSUME RequestAssumption ==
  Requests \subseteq
    [name : Seq(STRING), device : Nat, verify : Nat, secondary : Nat, address : Ram]

VARIABLES
  disk, kernal_on,        \* the image in the drive; the KERNAL ROM is seen at $F4A5
  pc, a, carry, xy, sp,   \* registers of the CPU
  RAM,
  request,                \* the name, device and addresses the program left for LOAD
  walk,                   \* where the reading of the image is
  spent                   \* of the model's bound

cpu  == <<pc, a, carry, xy, sp>>
diskVars == <<disk, kernal_on, cpu, RAM, request, walk, spent>>

Idle == [phase |-> "idle", for |-> "load", at |-> End, visited |-> {}, files |-> <<>>, prg |-> <<>>]

NoRequest == [name |-> <<>>, device |-> 8, verify |-> 0, secondary |-> 0, address |-> Basic]

DiskInit ==
  /\ disk = NoDisk /\ kernal_on = TRUE
  /\ pc \in Callers /\ a = 0 /\ carry = FALSE /\ xy = 0 /\ sp = Slots - 1
  /\ RAM = [x \in Ram |-> 0]
  /\ request = NoRequest /\ walk = Idle
  /\ spent = [disks |-> 0, calls |-> 0, pushes |-> 0]

\* Counts one more against the bound.
Spend(what) == spent[what] < Bound[what] /\ spent' = [spent EXCEPT ![what] = @ + 1]

-----------------------------------------------------------------------------
(* Names.  A name is a sequence of characters. *)

\* What comes before the first c.
Before(n, c) == SubSeq(n, 1, Cardinality({i \in DOMAIN n : \A j \in 1..i : n[j] # c}))

\* '*' stands for the rest of the name, '?' for any character.
name_matches(p, n) ==
  LET plain == Before(p, "*")
  IN  /\ \A i \in DOMAIN plain : i <= Len(n) /\ plain[i] \in {"?", n[i]}
      /\ plain = p => Len(n) = Len(p)

IsAny(p)       == p = <<>> \/ p = <<"*">>
IsDirectory(p) == p # <<>> /\ p[1] = "$"

\* load_file_name: the part between a drive prefix and a type suffix.
load_file_name(n) ==
  LET drive == Len(Before(n, ":"))
  IN  Before(IF drive = Len(n) THEN n ELSE SubSeq(n, drive + 2, Len(n)), ",")

-----------------------------------------------------------------------------
(* The image. *)

\* The cells of a sector: an address, and data told from any other's.
Cell(b, i) == IF i = 1 THEN LoadAt[b] ELSE 100 * b + i

CellsOf(b, n) == [i \in 1..n |-> Cell(b, i)]

\* The entries of a sector, but for the scratched and the unused.
Listed(slots) ==
  LET kept == {i \in DOMAIN slots : slots[i].type # "DEL"}
  IN  [n \in 1..Cardinality(kept) |->
         slots[CHOOSE i \in kept : Cardinality({j \in kept : j <= i}) = n]]

\* The first entry that fits, of those with a first sector: the first program for "*", or
\* the first file if there is none.
Fitting(files, p) ==
  LET some == {i \in DOMAIN files : files[i].first # End}
      prgs == {i \in some : files[i].type = "PRG"}
  IN  IF ~IsAny(p) THEN {i \in some : name_matches(p, files[i].name)}
      ELSE IF prgs # {} THEN prgs ELSE some

First(S) == CHOOSE i \in S : \A j \in S : i <= j

\* directory_listing: a BASIC program with a line for the name, each entry and what is free.
Listing(files) == <<Basic>> \o [i \in 1..(Len(files) + 2) |-> 1]

-----------------------------------------------------------------------------
(* Reading, one sector a step. *)

Start(for, img) ==
  [phase |-> "directory", for |-> for, at |-> img.next[Header], visited |-> {},
   files |-> <<>>, prg |-> <<>>]

Pattern == IF walk.for = "load" THEN load_file_name(request.name) ELSE <<"*">>

\* A sector of a chain: each is read once, in the image, and a track of 0 ends the chain.
Unread == walk.at \in Blocks \ walk.visited

ReadDirectorySector ==
  /\ walk.phase = "directory" /\ Unread
  /\ walk' = [walk EXCEPT !.visited = @ \cup {walk.at}, !.at = disk.next[walk.at],
                !.files = @ \o Listed(disk.slots[walk.at])]
  /\ UNCHANGED <<disk, kernal_on, cpu, RAM, request, spent>>

\* The directory's chain ends, or is damaged: what was listed so far is the directory.
DirectoryEnds ==
  /\ walk.phase = "directory" /\ ~Unread
  /\ LET fit == Fitting(walk.files, Pattern)
     IN  walk' = IF IsDirectory(Pattern)
                 THEN [walk EXCEPT !.phase = "done", !.prg = Listing(walk.files)]
                 ELSE IF fit = {} THEN [walk EXCEPT !.phase = "done"]
                 ELSE [walk EXCEPT !.phase = "chain", !.at = walk.files[First(fit)].first,
                         !.visited = {}]
  /\ UNCHANGED <<disk, kernal_on, cpu, RAM, request, spent>>

\* Mutation: the last sector is taken whole.
Used_All(b) == Cells

\* How much of a sector belongs to the file.
Used(b) == IF disk.next[b] = End THEN disk.used[b] ELSE Cells

ReadFileSector ==
  /\ walk.phase = "chain" /\ Unread
  /\ walk' = [walk EXCEPT !.visited = @ \cup {walk.at}, !.at = disk.next[walk.at],
                !.prg = @ \o CellsOf(walk.at, Used(walk.at))]
  /\ UNCHANGED <<disk, kernal_on, cpu, RAM, request, spent>>

ChainEnds ==
  /\ walk.phase = "chain" /\ ~Unread
  /\ walk' = [walk EXCEPT !.phase = "done"]
  /\ UNCHANGED <<disk, kernal_on, cpu, RAM, request, spent>>

-----------------------------------------------------------------------------
(* LOAD. *)

\* A program asks for a file and calls LOAD, from a routine or by a pushed address.
CallLoad(caller, r) ==
  /\ walk = Idle /\ pc # Trap /\ Spend("calls")
  /\ request' = r /\ a' = r.verify
  /\ pc' = Trap
  /\ RAM' = [RAM EXCEPT ![Stack + sp] = caller]
  /\ sp' = (sp + Slots - 1) % Slots
  /\ UNCHANGED <<disk, kernal_on, carry, xy, walk>>

\* A return address pushed for a later RTS.
Push(caller) ==
  /\ walk = Idle /\ pc # Trap /\ Spend("pushes")
  /\ RAM' = [RAM EXCEPT ![Stack + sp] = caller]
  /\ sp' = (sp + Slots - 1) % Slots
  /\ UNCHANGED <<disk, kernal_on, pc, a, carry, xy, request, walk>>

Accepts == a = 0 /\ request.device = 8 /\ request.name # <<>>

Trapped == pc = Trap /\ disk # NoDisk /\ kernal_on

\* The trap takes the call: kernal_load, as far as the first sector of the directory.
TrapStarts ==
  /\ walk = Idle /\ Trapped /\ Accepts
  /\ RAM' = [RAM EXCEPT ![VERIFY] = 0, ![STATUS] = 0]
  /\ walk' = Start("load", disk)
  /\ UNCHANGED <<disk, kernal_on, cpu, request, spent>>

Popped == (sp + 1) % Slots

\* Whatever else is at $F4A5, the ROM's routine or a program's, runs and returns.
Untrapped ==
  /\ walk = Idle /\ pc = Trap /\ ~(Trapped /\ Accepts)
  /\ sp' = Popped /\ pc' = (RAM[Stack + Popped] + 1) % Size
  /\ a' \in {0, NotFound} /\ carry' = TRUE
  /\ UNCHANGED <<disk, kernal_on, xy, RAM, request, walk, spent>>

\* A program copied to RAM, which wraps: of two cells for one address the later stays.
Copied(prg, load) ==
  [x \in Ram |->
     LET at == {i \in 2..Len(prg) : (load + i - 2) % Size = x}
     IN  IF at = {} THEN RAM[x] ELSE prg[CHOOSE i \in at : \A j \in at : j <= i]]

After(prg, load) == (load + Len(prg) - 1) % Size

LoadAddress == IF request.secondary # 0 THEN walk.prg[1] ELSE request.address

\* Mutation: the results are stored before the program.
Results_First(load) ==
  [x \in Ram |-> IF x \in {(load + i - 2) % Size : i \in 2..Len(walk.prg)} THEN Copied(walk.prg, load)[x]
                 ELSE IF x = END_ADDR THEN After(walk.prg, load) ELSE IF x = STATUS THEN Eoi ELSE RAM[x]]

\* RAM once the program is loaded and the results are stored.
Results(load) ==
  [Copied(walk.prg, load) EXCEPT ![END_ADDR] = After(walk.prg, load), ![STATUS] = Eoi]

\* Mutation: the return address is read and left on the stack.
TrapReturns_KeepsStack ==
  /\ walk.phase = "done" /\ walk.for = "load"
  /\ sp' = sp /\ pc' = (RAM[Stack + Popped] + 1) % Size
  /\ IF Len(walk.prg) < 2
     THEN a' = NotFound /\ carry' = TRUE /\ UNCHANGED <<xy, RAM>>
     ELSE /\ a' = 0 /\ carry' = FALSE
          /\ RAM' = Results(LoadAddress)
          /\ xy' = After(walk.prg, LoadAddress)
  /\ walk' = Idle
  /\ UNCHANGED <<disk, kernal_on, request, spent>>

\* The rest of kernal_load: the return address is popped before the program is copied.
TrapReturns ==
  /\ walk.phase = "done" /\ walk.for = "load"
  /\ sp' = Popped /\ pc' = (RAM[Stack + Popped] + 1) % Size
  /\ IF Len(walk.prg) < 2
     THEN a' = NotFound /\ carry' = TRUE /\ UNCHANGED <<xy, RAM>>
     ELSE /\ a' = 0 /\ carry' = FALSE
          /\ RAM' = Results(LoadAddress)
          /\ xy' = After(walk.prg, LoadAddress)
  /\ walk' = Idle
  /\ UNCHANGED <<disk, kernal_on, request, spent>>

-----------------------------------------------------------------------------
(* The host, between two calls of exec, and the program's memory configuration. *)

\* load_file of a disk image: insert_disk, a reset, the boot, and read_disk_file.
HostStarts(img) ==
  /\ walk = Idle /\ Spend("disks")
  /\ disk' = img /\ kernal_on' = TRUE
  /\ pc' \in Callers /\ a' = 0 /\ carry' = FALSE /\ xy' = 0 /\ sp' = Slots - 1
  /\ RAM' = [x \in Ram |-> 0] /\ request' = NoRequest
  /\ walk' = Start("start", img)

\* machine::load_prg: a program that would wrap is refused; BASIC's gets its pointers and
\* a RUN in the keyboard buffer.
HostLoadsPrg ==
  /\ walk.phase = "done" /\ walk.for = "start"
  /\ RAM' = IF Len(walk.prg) < 2 \/ walk.prg[1] + Len(walk.prg) - 1 > Size THEN RAM
            ELSE IF walk.prg[1] # Basic THEN Copied(walk.prg, walk.prg[1])
            ELSE [Copied(walk.prg, Basic) EXCEPT ![VARTAB] = After(walk.prg, Basic), ![NDX] = 4]
  /\ walk' = Idle
  /\ UNCHANGED <<disk, kernal_on, cpu, request, spent>>

EjectDisk ==
  /\ walk = Idle /\ disk # NoDisk /\ disk' = NoDisk
  /\ UNCHANGED <<kernal_on, cpu, RAM, request, walk, spent>>

SwitchKernal ==
  /\ walk = Idle /\ pc # Trap /\ kernal_on' = ~kernal_on
  /\ UNCHANGED <<disk, cpu, RAM, request, walk, spent>>

Runs ==
  \/ TrapStarts \/ Untrapped \/ TrapReturns \/ HostLoadsPrg
  \/ ReadDirectorySector \/ DirectoryEnds \/ ReadFileSector \/ ChainEnds

DiskNext ==
  \/ Runs
  \/ \E caller \in Callers, r \in Requests : CallLoad(caller, r)
  \/ \E caller \in Callers : Push(caller)
  \/ \E img \in Images : HostStarts(img)
  \/ EjectDisk \/ SwitchKernal

\* exec() and the host's own calls go on once begun.
DiskSpec == DiskInit /\ [][DiskNext]_diskVars /\ WF_diskVars(Runs)

-----------------------------------------------------------------------------
(* Properties. *)

\* Every call of LOAD comes to an end, however the directory or the file is damaged - but
\* for a stack with nothing on it but the trap's own address: a LOAD that succeeds there
\* is followed by the next one, and no cycle is charged for any of them.
LoadReturns ==
  pc = Trap ~> \/ pc # Trap
               \/ \A i \in 0..(Slots - 1) : RAM[Stack + i] = Trap - 1

\* The longest way along a chain of img that meets no sector twice.
WayFrom(img, b) ==
  LET ways == {p \in UNION {[1..n -> Blocks] : n \in 0..Cardinality(Blocks)} :
                 /\ Len(p) > 0 => p[1] = b
                 /\ \A i \in 1..(Len(p) - 1) : p[i + 1] = img.next[p[i]]
                 /\ \A i, j \in DOMAIN p : p[i] = p[j] => i = j}
  IN  CHOOSE p \in ways : \A q \in ways : Len(q) <= Len(p)

Entries(img) ==
  LET way == WayFrom(img, img.next[Header])
  IN  FlattenSeq([i \in DOMAIN way |-> Listed(img.slots[way[i]])])

\* The bytes of the file that starts at sector b.
Contents(img, b) ==
  LET way == WayFrom(img, b)
  IN  FlattenSeq([i \in DOMAIN way |->
        CellsOf(way[i], IF img.next[way[i]] = End THEN img.used[way[i]] ELSE Cells)])

\* What is read is the file: the first entry that fits, all of its chain that the image
\* has, in order, each sector once, and of the last one what is used.
FileRead ==
  walk.phase = "done" =>
    walk.prg = IF IsDirectory(Pattern) THEN Listing(Entries(disk))
               ELSE LET fit == Fitting(Entries(disk), Pattern)
                    IN  IF fit = {} THEN <<>> ELSE Contents(disk, Entries(disk)[First(fit)].first)

\* What the routine leaves behind a program of n cells from LoadAddress on.
RoutineLeft ==
  LET n       == Len(walk.prg) - 1
      At(i)   == (LoadAddress + i - 1) % Size
      covered == \E i \in 1..n : At(i) = Stack + sp'
  IN  IF n < 1 THEN carry' /\ a' = NotFound /\ RAM' = RAM
      ELSE /\ ~carry' /\ xy' = RAM'[END_ADDR] /\ RAM'[STATUS] = Eoi
           /\ xy' = (At(n) + 1) % Size
           /\ \A i \in 1..n : \/ At(i) \in {END_ADDR, STATUS}
                              \/ \E j \in (i + 1)..n : At(j) = At(i)
                              \/ RAM'[At(i)] = walk.prg[i + 1]
           /\ ~covered => pc' = (RAM'[Stack + sp'] + 1) % Size

\* What the routine at $F4A5 would have left: the program in RAM, whatever it covers, but
\* for the two results stored after it and what a program longer than RAM puts over its
\* own beginning; the end address in X/Y and in RAM; and a return to the address on the stack - unless the program was loaded over it, which the trap
\* takes no notice of.
LoadsAsRoutine == [][TrapReturns => RoutineLeft]_diskVars
=============================================================================
