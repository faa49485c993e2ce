------------------------------- MODULE Screen -------------------------------
(***************************************************************************)
(* The screen: screen_init, which asks the firmware for a frame buffer,    *)
(* and screen_print, which draws one glyph after the other, under any      *)
(* client.  mem and text record what was drawn and printed since the last  *)
(* screen_init: mem is a function of byte addresses (of whole pixels) that *)
(* is TRUE where a pixel is lit.                                           *)
(***************************************************************************)
EXTENDS Integers, Sequences, FiniteSets

CONSTANTS
  Grants,      \* frame buffers of the firmware: [bus, width, height, pitch]
  BusBit,      \* 2^30: a bus address has bits above the address of the core
  FontWidth, FontHeight,
  Glyphs,      \* the font: rows of each glyph, a row being the set of its bits
  Chars,       \* what is printed
  MaxText      \* characters between two calls of screen_init (bound)

Return == 13
Newline == 10

ASSUME ScreenAssumption ==
  /\ BusBit \in Nat \ {0} /\ MaxText \in Nat /\ Chars \subseteq Nat
  /\ FontWidth \in Nat \ {0} /\ FontHeight \in Nat \ {0}
  /\ \A g \in Grants :
       {g.bus, g.width, g.height, g.pitch} \subseteq Nat /\ g.pitch >= 4 * g.width
  /\ \A c \in DOMAIN Glyphs : Glyphs[c] \in [0 .. FontHeight - 1 -> SUBSET (0 .. 7)]

VARIABLES
  x, y,                  \* the cursor
  width, height, pitch,
  framebuffer,           \* its address, 0 before there is one
  mem,                   \* the pixels drawn
  text

screenVars == <<x, y, width, height, pitch, framebuffer, mem, text>>

ScreenInit ==
  /\ x = 0 /\ y = 0 /\ width = 0 /\ height = 0 /\ pitch = 0
  /\ framebuffer = 0 /\ mem = <<>> /\ text = <<>>

-----------------------------------------------------------------------------
(* screen_init. *)

\* Mutant: the cursor stays where it was.
HomeNot == UNCHANGED <<x, y>>

Home == x' = 0 /\ y' = 0

\* mbox_call succeeded, with the right depth and a buffer.
Granted(g) ==
  /\ width' = g.width /\ height' = g.height /\ pitch' = g.pitch
  /\ framebuffer' = g.bus % BusBit

\* The globals keep their values when it did not.
Refused == UNCHANGED <<width, height, pitch, framebuffer>>

screen_init ==
  /\ Home /\ (Refused \/ \E g \in Grants : Granted(g))
  /\ text' = <<>> /\ mem' = <<>>

-----------------------------------------------------------------------------
(* screen_print, one character. *)

\* A character without a glyph of its own is drawn as the first.
Glyph(c) == IF c \in DOMAIN Glyphs THEN Glyphs[c] ELSE Glyphs[0]

\* The lines of the screen follow each other at the distance of the pitch.
Offset == y * FontHeight * pitch + x * (FontWidth + 1) * 4

\* Mutant: at the distance of the width.
PixelPacked(i, j) == framebuffer + Offset + i * (4 * FontWidth) + 4 * j

Pixel(i, j) == framebuffer + Offset + i * pitch + 4 * j

\* One byte of each line of the glyph is looked at.
Lit(c, i, j) == FontWidth - 1 - j \in Glyph(c)[i]

Draw(c) ==
  LET cell == {Pixel(i, j) : i \in 0 .. FontHeight - 1, j \in 0 .. FontWidth - 1}
  IN mem' = [a \in cell \cup DOMAIN mem |->
               IF a \in cell
                 THEN \E i \in 0 .. FontHeight - 1, j \in 0 .. FontWidth - 1 :
                        a = Pixel(i, j) /\ Lit(c, i, j)
                 ELSE mem[a]]

\* The cursor is not compared with the size of the screen.
PutChar(c) ==
  \/ c = Return /\ x' = 0 /\ UNCHANGED <<y, mem>>
  \/ c = Newline /\ x' = 0 /\ y' = y + 1 /\ UNCHANGED mem
  \/ c \notin {Return, Newline} /\ Draw(c) /\ x' = x + 1 /\ UNCHANGED y

\* Nothing asks whether there is a frame buffer.
screen_print ==
  /\ Len(text) < MaxText
  /\ \E c \in Chars : PutChar(c) /\ text' = Append(text, c)
  /\ UNCHANGED <<width, height, pitch, framebuffer>>

ScreenNext == screen_init \/ screen_print

ScreenSpec == ScreenInit /\ [][ScreenNext]_screenVars

-----------------------------------------------------------------------------
(* Properties. *)

Printed == {k \in DOMAIN text : text[k] \notin {Return, Newline}}

\* Where character k of the text belongs: the newlines before it, and the characters
\* of its line.
Row(k) == Cardinality({m \in 1 .. k - 1 : text[m] = Newline})
Column(k) ==
  Cardinality({m \in Printed : m < k /\ \A q \in m .. k - 1 : text[q] \notin {Return, Newline}})

Fits(k) ==
  /\ Column(k) * (FontWidth + 1) + FontWidth <= width
  /\ (Row(k) + 1) * FontHeight <= height

\* The address of the pixel at column px and line py of the screen.
At(px, py) == framebuffer + py * pitch + 4 * px

ScreenBytes == {At(px, py) : px \in 0 .. width - 1, py \in 0 .. height - 1}

\* A font keeps the leftmost column in the highest bit.
Shows(c, i, j) == 7 - j \in Glyph(c)[i]

\* A text that fits is on the screen: in the cell of each character is the glyph of
\* the last one printed there, and no byte outside of the frame buffer is written,
\* whatever its pitch and place, although nothing compares the cursor with its size.
TextOnScreen ==
  (\A k \in Printed : Fits(k)) =>
    /\ DOMAIN mem \subseteq ScreenBytes
    /\ \A k \in Printed :
         (\A m \in Printed : m > k => <<Row(m), Column(m)>> # <<Row(k), Column(k)>>) =>
           \A i \in 0 .. FontHeight - 1, j \in 0 .. FontWidth - 1 :
             LET a == At(Column(k) * (FontWidth + 1) + j, Row(k) * FontHeight + i)
             IN a \in DOMAIN mem /\ mem[a] = Shows(text[k], i, j)
=============================================================================
