------------------------------ MODULE MCClocks ------------------------------
(* Latches of two one-bit bytes, lines of four cycles, a frame of two lines *)
(* and a compare value no line has: an instruction may underflow a timer     *)
(* three times, end a line and end the frame.  Before it starts TLC          *)
(* evaluates what module VicLine says the drawing of a line comes to: three  *)
(* sprites on a frame buffer of three pixels, all cells, the real lines.     *)
EXTENDS Clocks

MCCompareValue      == 0..2
MCInstructionCycles == 2..3

Vic == INSTANCE VicLine WITH Width <- 3, BorderX <- 1, SpriteWidth <- 4, Sprites <- 3

Controls == [den : BOOLEAN, rsel : BOOLEAN, ecm : BOOLEAN, bmm : BOOLEAN, mcm : BOOLEAN,
             yscroll : 0..7, xscroll : {0, 7}]

\* Of the frame's lines those that show have a row of the screen, the next line the next,
\* and with the neutral scroll all 25 rows show.
ASSUME LinesAssumption ==
  \A r \in Controls :
    LET shown == {line \in 0..311 : Vic!Shows(r, line)}
        place(line) == 8 * Vic!CharRow(r, line) + Vic!CharY(r, line)
    IN  /\ \A line \in shown : Vic!CharRow(r, line) \in 0..24 /\ Vic!CharY(r, line) \in 0..7
        /\ \A line \in shown : line + 1 \in shown => place(line + 1) = place(line) + 1
        /\ ~r.rsel => shown \subseteq 55..246
        /\ r.den /\ r.rsel /\ r.yscroll = 3 /\ Vic!Mode(r) # "invalid"
             => {place(line) : line \in shown} = 0..199

\* What is foreground has a colour of its own, and wide pixels are so as a whole.
ASSUME MasksAssumption ==
  \A r \in Controls, bits \in SUBSET (0..7), multi \in BOOLEAN, code \in {0, 64, 128, 192} :
    LET cell == [bits |-> bits, multi |-> multi, code |-> code]
        fg   == Vic!Foreground(Vic!Mode(r), cell)
    IN  r.den /\ r.rsel /\ r.yscroll = 3 /\ r.xscroll = 0 /\ Vic!Mode(r) # "invalid" =>
          /\ \A i \in fg : Vic!Colour(Vic!Mode(r), cell, i, "under") \notin {"under", "bg0", "bg1"}
          /\ Vic!Wide(Vic!Mode(r), cell) => \A i \in 0..3 : 2 * i \in fg <=> 2 * i + 1 \in fg

\* Every set of pixels of three sprites, in front and behind, over every foreground, with
\* registers that were read before the line and with ones that were not.
ASSUME SpritesAssumption ==
  \A fg \in SUBSET Vic!Pixel, behind \in SUBSET Vic!Sprite, pixels \in [Vic!Sprite -> SUBSET Vic!Pixel],
     ss, sb \in {{}, {0}} :
    LET paints == [s \in Vic!Sprite |-> [px \in pixels[s] |-> s]]
        from   == Vic!Blank(ss, sb, [px \in Vic!Pixel |-> "graphics"])
        l      == Vic!DrawSprites(from, fg, paints, behind)
    IN  /\ Vic!Drawn(l, from, fg, paints, Vic!Sprite)
        /\ Vic!Layered(l, from, fg, paints, behind, Vic!Sprite)

\* A sprite's pixels by the code's loops, at every place where the frame buffer clips it.
ASSUME PaintAssumption ==
  \A x \in 18..28, multi, xexpand \in BOOLEAN, bits \in SUBSET (0..3) :
    LET sp    == [x |-> x, multi |-> multi, xexpand |-> xexpand]
        step  == IF xexpand THEN 2 ELSE 1
        left  == x - 24 + 1
        drawn == IF multi
                 THEN UNION {(left + i * step)..(left + (i + 2) * step - 1) :
                               i \in {j \in {0, 2} : {j, j + 1} \cap bits # {}}}
                 ELSE UNION {(left + i * step)..(left + (i + 1) * step - 1) : i \in bits}
    IN  DOMAIN Vic!Paint(sp, 0, bits) = drawn \cap Vic!Pixel

\* The fetches at the edges of the screen, for every value of $D018.
ASSUME FetchAssumption ==
  \A port \in SUBSET {0, 1}, ddr \in SUBSET {0, 1}, memory \in 0..255 :
    LET bank == Vic!VicBank(port, ddr)
    IN  /\ \A row \in {0, 24}, y \in {0, 7}, column \in {0, 39}, code \in {0, 255} :
             Vic!FetchesInBank(bank, memory, row, y, column, code)
        /\ \A s \in 0..7, pointer \in {0, 255}, row \in {0, 20}, third \in 0..2 :
             Vic!SpriteInBank(bank, memory, s, pointer, row, third)

\* Whole lines: sprites that meet on the graphics latch both sources, the same line drawn
\* again latches nothing, and a third that joins them latches again; a line that does not
\* show, or that the sprites have not reached or have left, latches nothing.
ASSUME LineAssumption ==
  \A y \in {33, 34, 54, 55}, r \in Controls :
    LET sprite(shown) == [on |-> shown, x |-> 24, y |-> y, xexpand |-> FALSE, yexpand |-> FALSE,
                          multi |-> FALSE, behind |-> TRUE]
        cells == [c \in {0} |-> [bits |-> {0}, multi |-> FALSE, code |-> 0]]
        draw(on, from) ==
          Vic!RenderScanline(r, cells, [s \in Vic!Sprite |-> sprite(s \in on)],
                             [s \in Vic!Sprite |-> {0}], 55, from)
        first  == draw({0, 2}, [ss |-> {}, sb |-> {}])
        second == draw({0, 2}, first.line)
        third  == draw({0, 1, 2}, second.line)
        meet   == Vic!Shows(r, 55) /\ y \in 34..54
        ground == meet /\ r.xscroll = 0
    IN  /\ first.line.ss = (IF meet THEN {0, 2} ELSE {}) /\ second.latched = {}
        /\ first.line.sb = (IF ground THEN {0, 2} ELSE {})
        /\ third.line.ss = (IF meet THEN {0, 1, 2} ELSE {})
        /\ third.line.sb = (IF ground THEN {0, 1, 2} ELSE {})
        /\ \A drawn \in {first, third} :
             drawn.latched = (IF meet THEN {"sprite-sprite"} ELSE {})
                               \cup (IF ground THEN {"sprite-background"} ELSE {})
=============================================================================
