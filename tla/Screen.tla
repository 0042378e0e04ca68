-------------------------------- MODULE Screen --------------------------------
(***************************************************************************)
(* The text screen of vga.c: a page of cells in the video memory and a     *)
(* position, kept in two bytes, at which the next character is stored.     *)
(* Nothing keeps the position on the page other than the operations        *)
(* themselves.  The attributes of a cell, its colors, are left out, and a  *)
(* zero and a blank are one character, as they look the same.              *)
(***************************************************************************)
EXTENDS Integers

CONSTANTS
  Columns,    \* VGA_COLUMNS
  Lines,      \* VGA_LINES_MAX_INDEX + 1
  Byte        \* 2^8: what position_x and position_y are kept modulo

ASSUME ScreenAssumption ==
  /\ Columns \in Nat \ {0} /\ Lines \in Nat \ {0}
  /\ Byte \in Nat /\ Byte > Columns + 4 /\ Byte > Lines

(* The characters: a blank, the other ones, and those that are not stored. *)
Space     == 0
Newline   == -1
Backspace == -2
Tab       == -3

Address(x, y) == x + Columns * y

(* The page, and the cell behind it, which vga_clear() clears as well. *)
Cell == 0 .. Columns * Lines

(* x and y are symbol.position_x and position_y, hw is where the cursor    *)
(* blinks.  Histories: led, vga_update_position() took the position off    *)
(* the page and it was not set since; off, a store missed the cells        *)
(* although the position was not led off.                                  *)
Screens == [text : [Cell -> Int], x : Nat, y : Nat, hw : Nat, led : {0, 1}, off : {0, 1}]

(* Column Columns is reached by a tab. *)
OnScreen(s) == s.x <= Columns /\ s.y < Lines

-----------------------------------------------------------------------------
SetPosition(s, x, y) == [s EXCEPT !.x = x, !.y = y, !.led = 0]

UpdatePosition(s, dx, dy) ==
  LET m == [s EXCEPT !.x = (@ + dx) % Byte, !.y = (@ + dy) % Byte]
  IN  IF OnScreen(m) THEN m ELSE [m EXCEPT !.led = 1]

UpdateCursor(s) == [s EXCEPT !.hw = Address(s.x, s.y)]

Clear == [text |-> [i \in Cell |-> Space], x |-> 0, y |-> 0, hw |-> 0, led |-> 0, off |-> 0]

(* What a store to cells up to b makes of the page, ... *)
Stored(s, b, text) ==
  IF b \in Cell THEN [s EXCEPT !.text = text]
  ELSE IF s.led = 0 THEN [s EXCEPT !.off = 1]
  ELSE s

(* ... of one character, and of the same in all cells from a to b.         *)
Store(s, c) ==
  LET a == Address(s.x, s.y) IN Stored(s, a, [s.text EXCEPT ![a] = c])

Filled(s, a, b, c) ==
  Stored(s, b, [i \in Cell |-> IF i \in a .. b THEN c ELSE s.text[i]])

(* Lines from below, and blanks; the cell behind the page stays. *)
ScrollUp(s, n) ==
  LET page   == 0 .. Columns * Lines - 1
      from(i) == i + n * Columns
  IN  UpdateCursor([s EXCEPT !.y = @ - n, !.text =
        [i \in Cell |-> IF i \notin page THEN s.text[i]
                        ELSE IF from(i) \in page THEN s.text[from(i)] ELSE Space]])

InPage(s) == IF s.y > Lines - 1 THEN ScrollUp(s, s.y - (Lines - 1)) ELSE s

(* The start of the next line. *)
NextLine(s) == [s EXCEPT !.x = 0, !.y = (@ + 1) % Byte]

(* One to the left, or to the end of the line above. *)
ToLeft(s) ==
  IF s.x > 0 THEN [s EXCEPT !.x = @ - 1]
  ELSE IF s.y > 0 THEN [s EXCEPT !.x = Columns - 1, !.y = @ - 1]
  ELSE s

(* Mutant: a tab does not look where the line ends. *)
Tabbed_Unchecked(s) == [s EXCEPT !.x = @ + 4]

Tabbed(s) == IF s.x + 4 > Columns THEN s ELSE [s EXCEPT !.x = @ + 4]

(* One to the right, or to the start of the next line. *)
ToRight(s) ==
  LET right == [s EXCEPT !.x = (@ + 1) % Byte]
  IN  IF right.x > Columns - 1 THEN NextLine(s) ELSE right

(* vga_display_character() *)
DisplayCharacter(s, c) ==
  UpdateCursor(CASE c = Newline   -> InPage(NextLine(s))
                 [] c = Backspace -> Store(ToLeft(s), Space)
                 [] c = Tab       -> Tabbed(s)
                 [] OTHER         -> InPage(ToRight(Store(s, c))))

-----------------------------------------------------------------------------
VARIABLE screen

(* The editor clears the screen first. *)
ScreenInit == screen = Clear

(* The callers put the position on the page, and erase cells of the page.  *)
Operation ==
  \/ screen' = Clear
  \/ screen' = UpdateCursor(screen)
  \/ \E x \in 0 .. Columns - 1, y \in 0 .. Lines - 1 : screen' = SetPosition(screen, x, y)
  \/ \E dx, dy \in {-1, 0, 1} : screen' = UpdatePosition(screen, dx, dy)
  \/ \E a, b \in Cell : screen' = Filled(screen, a, b, Space)
  \/ \E c \in Int : screen' = DisplayCharacter(screen, c)

ScreenSpec == ScreenInit /\ [][Operation]_screen

(* Lines are filled, wrapped, erased and scrolled without leaving the page *)
(* by more than the one cell that vga_clear() clears too, as long as the   *)
(* position is not led off by vga_update_position(), which the cursor keys *)
(* and the extension of a word use (vga.c:84-164).                         *)
PageKept == screen.off = 0 /\ (screen.led = 0 => OnScreen(screen))
=============================================================================
