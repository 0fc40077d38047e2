------------------------------ MODULE Banking ------------------------------
(***************************************************************************)
(* Memory banking: the processor port at $00/$01, the inserted cartridge   *)
(* with its bank registers in $DE00-$DFFF, and the page tables that        *)
(* machine_state::update_memory_map derives from both and caches behind    *)
(* memory_map_key (src/src/machine.cpp, src/src/cartridge.cpp).            *)
(*                                                                         *)
(* The 256 entries of read_map take one value on each of seven regions, so *)
(* the table is a function on regions.  A port register is the set of its  *)
(* three banking lines.  ROM contents are left out: what matters is which  *)
(* chip a page shows.                                                      *)
(***************************************************************************)
EXTENDS Integers, Sequences

CONSTANTS
  Image,       \* the cartridge images a user may insert (parsed .CRT files)
  IoAddress,   \* addresses of $DE00-$DFFF a program touches
  IoValue      \* bytes it writes there

Lines   == {"loram", "hiram", "charen"}
Regions == {"$0000", "$1000", "$8000", "$A000", "$C000", "$D000", "$E000"}
Shown   == {"ram", "basic", "kernal", "char", "io", "roml", "romh"}

\* The hardware types of cart_type; parse() keeps the others too, and they switch no banks.
CartTypes ==
  {"normal", "action_replay", "final_cartridge_iii", "simons_basic", "ocean", "fun_play",
   "super_games", "atomic_power", "c64_game_system", "warpspeed", "dinamic",
   "magic_desk", "comal_80", "ross", "easyflash", "other"}

ChipPacket == [bank : Nat, load : Nat, size : Nat]

\* An image parse() accepts: at least one CHIP packet, two line bytes.
ASSUME ImagesParsed ==
  \A i \in Image : /\ i.type \in CartTypes
                   /\ i.exrom \in Nat /\ i.game \in Nat
                   /\ i.chips \in Seq(ChipPacket) /\ i.chips # <<>>

ASSUME IoIsBytes == IoAddress \subseteq Nat /\ IoValue \subseteq 0..255

VARIABLES
  ddr, latch,   \* RAM[0], RAM[1]: the banking lines that are 1
  cart,         \* the cartridge
  map,          \* the page tables, the is_*_on flags and memory_map_key
  vector        \* where the last reset found $FFFC/$FFFD

bankVars == <<ddr, latch, cart, map, vector>>

-----------------------------------------------------------------------------
(* The cartridge. *)

NoCart == [type |-> "normal", exrom |-> 1, game |-> 1, header_exrom |-> 1,
           header_game |-> 1, chips |-> <<>>, bank |-> 0, roml |-> 0, romh |-> 0,
           enabled |-> FALSE]

Cart == [type : CartTypes, exrom : Nat, game : Nat, header_exrom : Nat,
         header_game : Nat, chips : Seq(ChipPacket), bank : Nat, roml : Nat, romh : Nat,
         enabled : BOOLEAN]

IsRoml(chip) == chip.load = 32768                         \* $8000
IsRomh(chip) == \/ chip.load = 32768 /\ chip.size = 16384
                \/ chip.load \in {40960, 57344, 61440}    \* $A000, $E000, $F000

\* The last of the chips that belongs to the bank and passes the test, 0 if none.
RomlOf(chips, bank) ==
  LET found == {i \in DOMAIN chips : chips[i].bank = bank /\ IsRoml(chips[i])}
  IN  IF found = {} THEN 0 ELSE CHOOSE i \in found : \A j \in found : j <= i
RomhOf(chips, bank) ==
  LET found == {i \in DOMAIN chips : chips[i].bank = bank /\ IsRomh(chips[i])}
  IN  IF found = {} THEN 0 ELSE CHOOSE i \in found : \A j \in found : j <= i

UpdateBankMapping(c) ==
  [c EXCEPT !.roml = RomlOf(c.chips, c.bank), !.romh = RomhOf(c.chips, c.bank)]

\* load() adopts a parsed image whole.
Inserted(i) ==
  UpdateBankMapping([NoCart EXCEPT
    !.type = i.type, !.exrom = i.exrom, !.game = i.game, !.header_exrom = i.exrom,
    !.header_game = i.game, !.chips = i.chips, !.enabled = TRUE])

\* eject() does not clear the header's copy of the lines.
Ejected(c) == [NoCart EXCEPT !.header_exrom = c.header_exrom,
                            !.header_game = c.header_game]

\* Mutation: a reset that enables whatever is in the slot.
CartReset_AlwaysOn(c) ==
  UpdateBankMapping([c EXCEPT !.bank = 0, !.enabled = TRUE,
                              !.exrom = c.header_exrom, !.game = c.header_game])

CartReset(c) ==
  UpdateBankMapping([c EXCEPT !.bank = 0, !.enabled = (c.chips # <<>>),
                              !.exrom = c.header_exrom, !.game = c.header_game])

Off(c) == [c EXCEPT !.enabled = FALSE]

\* Mutation of a bank register: the chip indices are not refreshed.
Select_NoRefresh(c, n) == [c EXCEPT !.bank = n]
Select(c, n) == UpdateBankMapping([c EXCEPT !.bank = n])

InPage(a, page) == a \div 256 = page
DE == 222
DF == 223

\* cartridge::read_io: the effect of a read of $DE00-$DFFF.
ReadIo(c, a) ==
  IF ~c.enabled THEN c ELSE
  CASE c.type \in {"c64_game_system", "dinamic"} /\ InPage(a, DE) -> Select(c, a % 64)
    [] c.type = "ross" /\ InPage(a, DE) -> Select(c, 1)
    [] c.type = "ross" /\ InPage(a, DF) -> Off(c)
    [] OTHER -> c

\* The registers that do more than select a bank.
FunPlayRegister(c, v) ==
  IF v = 134 THEN Off(c) ELSE Select(c, ((v \div 8) % 8) + 8 * (v % 2))

SuperGamesRegister(c, v) ==
  IF (v \div 4) % 4 = 3 THEN Off(Select(c, v % 4)) ELSE Select(c, v % 4)

MagicDeskRegister(c, v) == IF v >= 128 THEN Off(c) ELSE Select(c, v % 64)

SimonsLine(c, v) == UpdateBankMapping([c EXCEPT !.game = IF v = 1 THEN 0 ELSE 1])

\* Bit 2 says whether bits 0 and 1 drive the lines.
EasyFlashLines(c, v) ==
  LET driven == (v \div 4) % 2 = 1
  IN  UpdateBankMapping([c EXCEPT
        !.game  = IF driven /\ v % 2 = 0 THEN 1 ELSE 0,
        !.exrom = IF driven /\ (v \div 2) % 2 = 0 THEN 1 ELSE 0])

On(c) == [c EXCEPT !.enabled = TRUE]

\* cartridge::write_io: bank registers, disable bits and line registers by type.
WriteIo(c, a, v) ==
  IF ~c.enabled THEN c ELSE
  CASE c.type = "ocean" /\ a = 256 * DE -> Select(c, v % 64)
    [] c.type = "fun_play" /\ a = 256 * DE -> FunPlayRegister(c, v)
    [] c.type = "super_games" /\ a = 256 * DF -> SuperGamesRegister(c, v)
    [] c.type = "c64_game_system" /\ InPage(a, DE) -> Select(c, a % 64)
    [] c.type = "dinamic" /\ InPage(a, DE) -> Select(c, a % 16)
    [] c.type = "magic_desk" /\ a = 256 * DE -> MagicDeskRegister(c, v)
    [] c.type = "final_cartridge_iii" /\ a = 256 * DF + 255 -> Select(c, v % 4)
    [] c.type \in {"action_replay", "atomic_power", "comal_80"} /\ a = 256 * DE ->
         Select(c, v % 4)
    [] c.type = "simons_basic" /\ a = 256 * DE -> SimonsLine(c, v)
    [] c.type \in {"warpspeed", "ross"} /\ InPage(a, DF) -> Off(c)
    [] c.type = "warpspeed" /\ InPage(a, DE) -> On(c)
    [] c.type = "ross" /\ InPage(a, DE) -> Select(c, 1)
    [] c.type = "easyflash" /\ a = 256 * DE -> Select(c, v % 64)
    [] c.type = "easyflash" /\ a = 256 * DE + 2 -> EasyFlashLines(c, v)
    [] OTHER -> c

-----------------------------------------------------------------------------
(* The page tables. *)

\* Lines configured as inputs float high.
Bank(d, l) == (l \cap d) \cup (Lines \ d)

Ultimax(c) == c.enabled /\ c.game = 0 /\ c.exrom # 0

AnyRom(b) == "loram" \in b \/ "hiram" \in b

BasePage(b, r) ==
  CASE r = "$A000" /\ {"loram", "hiram"} \subseteq b -> "basic"
    [] r = "$E000" /\ "hiram" \in b -> "kernal"
    [] r = "$D000" /\ AnyRom(b) -> IF "charen" \in b THEN "io" ELSE "char"
    [] OTHER -> "ram"

CartPage(b, c, r) ==
  CASE r = "$8000" /\ c.roml # 0 /\ {"loram", "hiram"} \subseteq b -> "roml"
    [] r = "$A000" /\ c.romh # 0 /\ c.game = 0 /\ "hiram" \in b -> "romh"
    [] OTHER -> BasePage(b, r)

UltimaxPage(c, r) ==
  CASE r = "$8000" /\ c.roml # 0 -> "roml"
    [] r = "$E000" /\ c.romh # 0 -> "romh"
    [] r = "$D000" -> "io"
    [] OTHER -> "ram"

\* What each region shows to a read.
Pages(b, c) ==
  [r \in Regions |->
     IF Ultimax(c) THEN UltimaxPage(c, r)
     ELSE IF c.enabled /\ c.exrom = 0 THEN CartPage(b, c, r)
     ELSE BasePage(b, r)]

\* Mutation: a key that forgets the /GAME line.
Key_NoGame(b, c) ==
  <<b, c.enabled, c.exrom # 0, c.roml # 0, c.romh # 0>>

Key(b, c) == <<b, c.enabled, c.exrom # 0, c.game # 0, c.roml # 0, c.romh # 0>>

IoOn(b, c) == Ultimax(c) \/ (AnyRom(b) /\ "charen" \in b)

Rebuilt(b, c) ==
  [key |-> Key(b, c), read |-> Pages(b, c),
   write_io  |-> IoOn(b, c),                       \* write_map on $D0-$DF
   is_io_on  |-> IoOn(b, c),
   is_kernal_on |-> "hiram" \in b /\ ~Ultimax(c)]

UpdateMemoryMap(d, l, c, old) ==
  IF Key(Bank(d, l), c) = old.key THEN old ELSE Rebuilt(Bank(d, l), c)

\* ram_read($FFFC): the map decides, then the cartridge may decline the address.
\* It serves only when both lines read exactly as Ultimax and the chip is long enough.
CartServesVector(c) ==
  c.enabled /\ c.romh # 0 /\ c.exrom = 1 /\ c.game = 0 /\ c.chips[c.romh].size > 8188

VectorFrom(x, c) ==
  IF x.read["$E000"] # "romh" THEN x.read["$E000"]
  ELSE IF CartServesVector(c) THEN "romh"
  ELSE IF x.is_kernal_on THEN "kernal" ELSE "ram"

-----------------------------------------------------------------------------
(* The operations.  BankInit is the constructed machine: a reset with no   *)
(* cartridge.                                                              *)

PortOnes == Lines    \* the banking bits of $2F and $07 in reset()

BankInit ==
  /\ ddr = PortOnes /\ latch = PortOnes
  /\ cart = NoCart
  /\ map = Rebuilt(PortOnes, NoCart)
  /\ vector = VectorFrom(Rebuilt(PortOnes, NoCart), NoCart)

\* machine_state::reset with cartridge c in the slot: the port, the map rebuilt
\* for c as it stands, then the cartridge's own reset, then the vector fetch.
ColdStart(c) ==
  /\ ddr' = PortOnes /\ latch' = PortOnes
  /\ map' = Rebuilt(PortOnes, c)
  /\ cart' = CartReset(c)
  /\ vector' = VectorFrom(map', cart')

Reset == ColdStart(cart)

\* Mutation: the machine starts before the new cartridge is adopted.
InsertCrt_StartsFirst(i) ==
  /\ ddr' = PortOnes /\ latch' = PortOnes
  /\ map' = Rebuilt(PortOnes, cart)
  /\ cart' = Inserted(i)
  /\ vector' = VectorFrom(map', cart')

InsertCrt(i) == ColdStart(Inserted(i))

EjectCrt == ColdStart(Ejected(cart))

\* load_sid: a reset, the tune image (which may cover $00), then $35 to $01.
LoadSid(d) ==
  /\ cart' = CartReset(cart)
  /\ ddr' = d /\ latch' = {"loram", "charen"}
  /\ map' = UpdateMemoryMap(ddr', latch', cart', Rebuilt(PortOnes, cart))
  /\ vector' = VectorFrom(Rebuilt(PortOnes, cart), cart')

\* ram_write to $00 or $01: page 0 is RAM in every map.
WriteDdr(d) ==
  /\ ddr' = d
  /\ map' = UpdateMemoryMap(d, latch, cart, map)
  /\ UNCHANGED <<latch, cart, vector>>

WriteLatch(l) ==
  /\ latch' = l
  /\ map' = UpdateMemoryMap(ddr, l, cart, map)
  /\ UNCHANGED <<ddr, cart, vector>>

\* load_prg and the KERNAL LOAD trap copy a program straight into RAM, which
\* may cover $00/$01, and then remap.
LoadOverPort(d, l) ==
  /\ ddr' = d /\ latch' = l
  /\ map' = UpdateMemoryMap(d, l, cart, map)
  /\ UNCHANGED <<cart, vector>>

\* A CPU read of $DE00-$DFFF.
ReadExpansion(a) ==
  /\ map.read["$D000"] = "io"
  /\ cart.enabled
  /\ cart' = ReadIo(cart, a)
  /\ map' = UpdateMemoryMap(ddr, latch, cart', map)
  /\ UNCHANGED <<ddr, latch, vector>>

\* A CPU write of $DE00-$DFFF.
WriteExpansion(a, v) ==
  /\ map.write_io /\ map.is_io_on
  /\ cart.enabled
  /\ cart' = WriteIo(cart, a, v)
  /\ map' = UpdateMemoryMap(ddr, latch, cart', map)
  /\ UNCHANGED <<ddr, latch, vector>>

BankNext ==
  \/ Reset
  \/ \E i \in Image : InsertCrt(i)
  \/ EjectCrt
  \/ \E d \in SUBSET Lines : LoadSid(d)
  \/ \E d \in SUBSET Lines : WriteDdr(d)
  \/ \E l \in SUBSET Lines : WriteLatch(l)
  \/ \E d \in SUBSET Lines, l \in SUBSET Lines : LoadOverPort(d, l)
  \/ \E a \in IoAddress : ReadExpansion(a)
  \/ \E a \in IoAddress, v \in IoValue : WriteExpansion(a, v)

BankSpec == BankInit /\ [][BankNext]_bankVars

-----------------------------------------------------------------------------
(* Properties. *)

MapKey == (SUBSET Lines) \X BOOLEAN \X BOOLEAN \X BOOLEAN \X BOOLEAN \X BOOLEAN

Map == [key : MapKey, read : [Regions -> Shown], write_io : BOOLEAN,
        is_io_on : BOOLEAN, is_kernal_on : BOOLEAN]

\* Every variable has its type; in particular a bank register never selects a negative
\* bank and the page tables hold one of the seven types (machine.cpp 97-153).
BankTypeOK ==
  /\ ddr \in SUBSET Lines /\ latch \in SUBSET Lines
  /\ cart \in Cart
  /\ map \in Map
  /\ vector \in Shown

\* The cached chip indices name the chips of the selected bank, over every insert, eject,
\* reset and bank switch: no handler changes current_bank and leaves roml_index or
\* romh_index behind (cartridge.cpp 140-165).
IndexExact ==
  /\ cart.roml = RomlOf(cart.chips, cart.bank)
  /\ cart.romh = RomhOf(cart.chips, cart.bank)

\* Reads and writes of $D000-$DFFF agree on whether I/O is there, in every map the code
\* builds, Ultimax included: no write can reach the RAM under an I/O page the CPU reads,
\* and the fallback "banked I/O out mid-access" of ram_write is never taken.
WindowAgrees ==
  /\ map.write_io <=> map.read["$D000"] = "io"
  /\ map.is_io_on <=> map.write_io

\* Once ejected a cartridge is gone: although reset() re-applies the old header's lines,
\* it never comes back enabled and no page shows its ROM.
EjectedIsGone ==
  cart.chips = <<>> =>
    /\ ~cart.enabled
    /\ \A r \in Regions : map.read[r] \notin {"roml", "romh"}

MapCurrent ==
  LET now == Rebuilt(Bank(ddr, latch), cart)
  IN  /\ map.read = now.read
      /\ map.write_io = now.write_io
      /\ map.is_io_on = now.is_io_on
      /\ map.is_kernal_on = now.is_kernal_on

\* Whatever changes the processor port or the cartridge, other than a reset, leaves the
\* page tables as a full rebuild would make them: the early return on memory_map_key
\* never hides a change, whether it comes from $00/$01, from a program loaded over them,
\* from a bank register read or written, or from an insert or eject.
EveryChangeRemaps ==
  [][<<ddr, latch, cart>>' # <<ddr, latch, cart>> /\ ~Reset => MapCurrent']_bankVars

\* A machine that starts with an Ultimax cartridge whose ROM covers the vectors starts
\* from it (machine::load_crt: "cold-start so the machine boots from the cartridge";
\* machine_state::reset: "Reset the cartridge before reading the reset vector so an
\* Ultimax cart can supply $FFFC/$FFFD").  A reset keeps that promise only of a cartridge
\* whose lines, bank and enable are still as its header has them: the page tables are
\* built before CartReset puts those back.
NewCartBoots ==
  [][(\E i \in Image : InsertCrt(i)) \/ (Reset /\ cart = CartReset(cart)) =>
       (Ultimax(cart') /\ CartServesVector(cart') => vector' = "romh")]_bankVars
=============================================================================
