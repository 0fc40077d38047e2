------------------------------- MODULE VicLine -------------------------------
(***************************************************************************)
(* What vic_render_scanline draws for one raster line and what the drawing *)
(* latches (src/src/vic.cpp): which lines show, where the line's bytes are *)
(* fetched, which pixels each mode counts as foreground, and the walk over *)
(* the sprites, from 7 down to 0, through a buffer that remembers for each *)
(* pixel the sprite drawn there last.  Clocks says when a line is drawn,   *)
(* Interrupts what the latched sources do.                                 *)
(*                                                                         *)
(* A byte of pixels is the set of those that are on, counted from the      *)
(* left; a colour is named by where its number comes from.                 *)
(***************************************************************************)
EXTENDS Integers

CONSTANTS
  Width,         \* VIC_FB_WIDTH, 384
  BorderX,       \* BORDER_X, 32
  SpriteWidth,   \* 24, unexpanded
  Sprites        \* how many there are, 8

Pixel  == 0..(Width - 1)
Sprite == 0..(Sprites - 1)

-----------------------------------------------------------------------------
(* Which lines show, and which row of characters is on them. *)

\* graphics_mode: of $D011 and $D016.
Mode(r) ==
  CASE r.ecm /\ (r.bmm \/ r.mcm) -> "invalid"
    [] ~r.ecm /\ r.bmm /\ r.mcm  -> "multicolor bitmap"
    [] ~r.ecm /\ r.bmm /\ ~r.mcm -> "bitmap"
    [] r.ecm /\ ~r.bmm /\ ~r.mcm -> "extended background"
    [] ~r.ecm /\ ~r.bmm /\ r.mcm -> "multicolor character"
    [] OTHER                     -> "character"

\* The window starts at raster 51; three is the neutral scroll.
ScreenY(line)     == line - 51
AdjustedY(r, line) == ScreenY(line) - (r.yscroll - 3)

\* Neither graphics nor sprites are drawn on any other line.
Shows(r, line) ==
  /\ r.den /\ ScreenY(line) \in 0..199
  /\ Mode(r) # "invalid"
  /\ r.rsel \/ ScreenY(line) \in 4..195
  /\ AdjustedY(r, line) \in 0..199

CharRow(r, line) == AdjustedY(r, line) \div 8
CharY(r, line)   == AdjustedY(r, line) % 8

-----------------------------------------------------------------------------
(* Where its bytes are. *)

\* get_mem_addrs: bits 0 and 1 of CIA2's port A, inverted; a line set to input is high.
VicBank(port, ddr) ==
  16384 * ((IF 0 \in ddr \ port THEN 1 ELSE 0) + (IF 1 \in ddr \ port THEN 2 ELSE 0))

ScreenAddr(bank, memory) == bank + (memory \div 16) * 1024
CharOffset(memory)       == ((memory \div 2) % 8) * 2048
BitmapAddr(bank, memory) == bank + (IF (memory \div 8) % 2 = 1 THEN 8192 ELSE 0)

\* The character ROM shows in two banks.
UseCharRom(bank, memory) == bank \in {0, 32768} /\ CharOffset(memory) \in {4096, 6144}

ScreenCell(bank, memory, row, column) == ScreenAddr(bank, memory) + row * 40 + column
ColourCell(row, column)               == 55296 + row * 40 + column

GlyphByte(bank, memory, code, y)         == bank + CharOffset(memory) + code * 8 + y
RomByte(memory, code, y)                 == (CharOffset(memory) % 4096) + code * 8 + y
BitmapByte(bank, memory, row, column, y) == BitmapAddr(bank, memory) + (row * 40 + column) * 8 + y

SpritePointer(bank, memory, s)        == ScreenAddr(bank, memory) + 1016 + s
SpriteByte(bank, pointer, row, third) == bank + pointer * 64 + row * 3 + third

-----------------------------------------------------------------------------
(* The graphics. *)

\* The two bits of the pair a pixel is in, where pixels are twice as wide.
Pair(bits, i) ==
  LET left == 2 * (i \div 2)
  IN  (IF left \in bits THEN 2 ELSE 0) + (IF left + 1 \in bits THEN 1 ELSE 0)

\* A character of the multicolour mode is so only with bit 3 of its colour.
Wide(mode, cell) ==
  mode = "multicolor bitmap" \/ (mode = "multicolor character" /\ cell.multi)

\* What fgmask gets of a cell: of wide pixels the pairs 10 and 11.
Foreground(mode, cell) ==
  {i \in 0..7 : IF Wide(mode, cell) THEN Pair(cell.bits, i) >= 2 ELSE i \in cell.bits}

\* The colour of each pixel, a renderer for each mode; a character is drawn over what is
\* under it.
StandardCharacter(cell, i, under) == IF i \in cell.bits THEN "cell" ELSE under

MulticolorCharacter(cell, i, under) ==
  IF cell.multi THEN <<"bg0", "bg1", "bg2", "cell">>[Pair(cell.bits, i) + 1]
  ELSE StandardCharacter(cell, i, under)

StandardBitmap(cell, i)     == IF i \in cell.bits THEN "high" ELSE "low"
MulticolorBitmap(cell, i)   == <<"bg0", "high", "low", "cell">>[Pair(cell.bits, i) + 1]
ExtendedBackground(cell, i) ==
  IF i \in cell.bits THEN "cell" ELSE <<"bg0", "bg1", "bg2", "bg3">>[cell.code \div 64 + 1]

Colour(mode, cell, i, under) ==
  CASE mode = "character"            -> StandardCharacter(cell, i, under)
    [] mode = "multicolor character" -> MulticolorCharacter(cell, i, under)
    [] mode = "bitmap"               -> StandardBitmap(cell, i)
    [] mode = "multicolor bitmap"    -> MulticolorBitmap(cell, i)
    [] mode = "extended background"  -> ExtendedBackground(cell, i)

\* Where a pixel of a cell is drawn.
At(r, column, i) == BorderX + column * 8 + i + r.xscroll

\* What a line is filled with before anything is drawn on it.
Background(r, line) ==
  [px \in Pixel |-> IF px - BorderX \in 0..319 /\ r.den /\ ScreenY(line) \in 0..199
                    THEN "bg0" ELSE "border"]

\* The line's foreground mask, and its picture without the sprites.
FgMask(r, cells) ==
  {px \in Pixel : \E c \in DOMAIN cells : \E i \in Foreground(Mode(r), cells[c]) : px = At(r, c, i)}

Graphics(r, cells, line) ==
  [px \in Pixel |->
    LET cell == (px - BorderX - r.xscroll) \div 8
    IN  IF cell \in DOMAIN cells
        THEN Colour(Mode(r), cells[cell], px - At(r, cell, 0), Background(r, line)[px])
        ELSE Background(r, line)[px]]

-----------------------------------------------------------------------------
(* The sprites. *)

\* The row of a sprite that is on a line: the line less its y, less the one it lands low.
SpriteLine(sp, line) == line - sp.y - 1

OnLine(sp, line) == sp.on /\ SpriteLine(sp, line) \in 0..(IF sp.yexpand THEN 41 ELSE 20)

SpriteRow(sp, line) == IF sp.yexpand THEN SpriteLine(sp, line) \div 2 ELSE SpriteLine(sp, line)

\* Which of its bits a pixel shows: counted from its left edge, twice each if expanded.
BitAt(sp, px) == (px - (sp.x - 24 + BorderX)) \div (IF sp.xexpand THEN 2 ELSE 1)

Opaque(sp, bits, i) == IF sp.multi THEN Pair(bits, i) # 0 ELSE i \in bits

SpriteColour(sp, s, bits, i) ==
  IF sp.multi THEN <<"mc0", s, "mc1">>[Pair(bits, i)] ELSE s

\* What a sprite puts on the line, within the frame buffer: a colour for each pixel it has.
Paint(sp, s, bits) ==
  [px \in {p \in Pixel : BitAt(sp, p) \in 0..(SpriteWidth - 1) /\ Opaque(sp, bits, BitAt(sp, p))} |->
    SpriteColour(sp, s, bits, BitAt(sp, px))]

None == -1

\* A line as the walk starts: the registers $D01E and $D01F are kept from earlier lines.
Blank(ss, sb, picture) ==
  [collision |-> [px \in Pixel |-> None], ss |-> ss, sb |-> sb, picture |-> picture]

\* One sprite.  A pixel another has drawn marks the two that meet there; a sprite behind
\* the graphics collides where it does not show.
DrawSprite(l, fg, s, paint, behind) ==
  LET pixels == DOMAIN paint
      met    == {l.collision[px] : px \in pixels} \ {None}
  IN  [collision |-> [px \in Pixel |-> IF px \in pixels THEN s ELSE l.collision[px]],
       ss        |-> l.ss \cup met \cup (IF met # {} THEN {s} ELSE {}),
       sb        |-> l.sb \cup (IF pixels \cap fg # {} THEN {s} ELSE {}),
       picture   |-> [px \in Pixel |-> IF px \in pixels /\ ~(behind /\ px \in fg)
                                       THEN paint[px] ELSE l.picture[px]]]

\* All of them, the lowest last: paints has what each puts on this line, if anything.
DrawSprites(l, fg, paints, behind) ==
  LET drawn[k \in 0..Sprites] ==
        IF k = Sprites THEN l
        ELSE DrawSprite(drawn[k + 1], fg, k, paints[k], k \in behind)
  IN  drawn[0]

\* The sources of $D019 the line latches: each register is compared once, at its end.
Latched(before, after) ==
  (IF after.ss # before.ss THEN {"sprite-sprite"} ELSE {})
    \cup (IF after.sb # before.sb THEN {"sprite-background"} ELSE {})

\* The whole line, with the row of bits each sprite has there.
Paints(sprites, bits, line) ==
  [s \in Sprite |-> IF OnLine(sprites[s], line) THEN Paint(sprites[s], s, bits[s])
                    ELSE [px \in {} |-> s]]

RenderScanline(r, cells, sprites, bits, line, from) ==
  LET before == Blank(from.ss, from.sb, Graphics(r, cells, line))
      after  == DrawSprites(before, FgMask(r, cells), Paints(sprites, bits, line),
                            {s \in Sprite : sprites[s].behind})
  IN  IF Shows(r, line) THEN [line |-> after, latched |-> Latched(before, after)]
      ELSE [line |-> Blank(from.ss, from.sb, Background(r, line)), latched |-> {}]

-----------------------------------------------------------------------------
(* What it should come to. *)

\* The line after the sprites of S: who meets whom is a matter of their pixels alone,
\* whatever the order and however many meet; the buffer has the lowest at each pixel.
Drawn(l, from, fg, paints, S) ==
  LET has(s, px) == px \in DOMAIN paints[s]
  IN  /\ \A px \in Pixel : l.collision[px] \in S \cup {None}
      /\ \A px \in Pixel : l.collision[px] # None => has(l.collision[px], px)
      /\ \A px \in Pixel, s \in S : has(s, px) => l.collision[px] \in 0..s
      /\ l.ss = from.ss \cup {s \in S : \E t \in S \ {s}, px \in Pixel : has(s, px) /\ has(t, px)}
      /\ l.sb = from.sb \cup {s \in S : \E px \in fg : has(s, px)}

\* Each pixel shows the lowest sprite that is not behind the graphics there.
Layered(l, from, fg, paints, behind, S) ==
  \A px \in Pixel :
    LET shown == {s \in S : px \in DOMAIN paints[s] /\ ~(s \in behind /\ px \in fg)}
    IN  /\ shown = {} => l.picture[px] = from.picture[px]
        /\ \A s \in shown : (\A t \in shown : s <= t) => l.picture[px] = paints[s][px]

\* Every line that shows reads within the 16K the VIC sees, and within the ROM.
InBank(bank, address) == bank <= address /\ address < bank + 16384

FetchesInBank(bank, memory, row, y, column, code) ==
  /\ InBank(bank, ScreenCell(bank, memory, row, column))
  /\ InBank(bank, BitmapByte(bank, memory, row, column, y))
  /\ InBank(bank, GlyphByte(bank, memory, code, y))
  /\ ColourCell(row, column) \in 55296..56319
  /\ RomByte(memory, code, y) \in 0..4095

SpriteInBank(bank, memory, s, pointer, row, third) ==
  /\ InBank(bank, SpritePointer(bank, memory, s))
  /\ InBank(bank, SpriteByte(bank, pointer, row, third))
=============================================================================
