----------------------------- MODULE DisplayProofs -----------------------------
(***************************************************************************)
(* Proofs about what the editor and the interpreter draw, for a screen of  *)
(* any size, any text and any keys: whatever is written, no character      *)
(* leaves the page, the cursor blinks where the next one goes, the letters *)
(* of the word being typed are in front of it, a command leaves its prompt *)
(* empty, and the line of the stack has the numerals of what is on it.     *)
(* The last part is about the text of the blocks: the page for the         *)
(* browser lists what the author wrote.                                    *)
(***************************************************************************)
EXTENDS Display, EditorProofs

-----------------------------------------------------------------------------
(* The screen: it stays on its page, whatever is in the cells.  The        *)
(* inductive invariant is PageKept with the shape of the record.           *)

(* s has the fields of a screen. *)
Shaped(s) ==
  /\ s = [text |-> s.text, x |-> s.x, y |-> s.y, hw |-> s.hw, led |-> s.led, off |-> s.off]
  /\ s.text = [i \in Cell |-> s.text[i]]
  /\ s.x \in Nat /\ s.y \in Nat /\ s.led \in {0, 1}

Kept(s) == s.off = 0 /\ (s.led = 0 => OnScreen(s))

Sound(s) == Shaped(s) /\ Kept(s)

LEMMA Sizes ==
  /\ Columns \in Nat /\ Lines \in Nat /\ Columns >= 1 /\ Lines >= 1
  /\ Byte \in Nat /\ Byte > Columns + 4 /\ Byte > Lines
  BY ScreenAssumption DEF ScreenAssumption

(* A position on the page, the column behind the last one included, is the *)
(* address of a cell.                                                      *)
LEMMA AddressIsCell ==
  ASSUME NEW x \in Nat, NEW y \in Nat, x <= Columns, y < Lines
  PROVE  Address(x, y) \in Cell
<1> DEFINE d == Lines - 1 - y
<1>1. d \in Nat /\ Lines = y + 1 + d
  BY Sizes
<1> HIDE DEF d
<1>2. Columns * Lines = Columns * y + Columns + Columns * d
  BY <1>1, Sizes
<1>3. Columns * d \in Nat /\ Columns * y \in Nat
  BY <1>1, Sizes
<1>4. QED BY <1>2, <1>3, Sizes DEF Address, Cell

LEMMA ModuloIsNat ==
  ASSUME NEW a \in Int
  PROVE  a % Byte \in Nat
  BY Sizes

-----------------------------------------------------------------------------
(* What an update of one field, or of two, leaves. *)
LEMMA Fields ==
  ASSUME NEW s, Shaped(s), NEW v
  PROVE  /\ [s EXCEPT !.text = v] = [text |-> v, x |-> s.x, y |-> s.y, hw |-> s.hw, led |-> s.led, off |-> s.off]
         /\ [s EXCEPT !.x = v]    = [text |-> s.text, x |-> v, y |-> s.y, hw |-> s.hw, led |-> s.led, off |-> s.off]
         /\ [s EXCEPT !.y = v]    = [text |-> s.text, x |-> s.x, y |-> v, hw |-> s.hw, led |-> s.led, off |-> s.off]
         /\ [s EXCEPT !.hw = v]   = [text |-> s.text, x |-> s.x, y |-> s.y, hw |-> v, led |-> s.led, off |-> s.off]
         /\ [s EXCEPT !.led = v]  = [text |-> s.text, x |-> s.x, y |-> s.y, hw |-> s.hw, led |-> v, off |-> s.off]
<1>1. s = [text |-> s.text, x |-> s.x, y |-> s.y, hw |-> s.hw, led |-> s.led, off |-> s.off]
  BY DEF Shaped
<1> QED BY <1>1

(* The position is moved, whatever is in the cells. *)
LEMMA Moved ==
  ASSUME NEW s, Sound(s), NEW v \in Nat, NEW w \in Nat,
         NEW m, m = [s EXCEPT !.x = v, !.y = w]
  PROVE  /\ Shaped(m) /\ m.x = v /\ m.y = w /\ m.led = s.led /\ m.off = s.off
         /\ (s.led = 0 => v <= Columns /\ w < Lines) => Sound(m)
<1> DEFINE r == [s EXCEPT !.x = v]
<1>1. Shaped(s) /\ s.off = 0
  BY DEF Sound, Kept
<1>2. r = [text |-> s.text, x |-> v, y |-> s.y, hw |-> s.hw, led |-> s.led, off |-> s.off]
  BY <1>1, Fields
<1>3. Shaped(r)
  BY <1>1, <1>2 DEF Shaped
<1>4. m = [r EXCEPT !.y = w]
  OBVIOUS
<1> HIDE DEF r
<1>5. m = [text |-> r.text, x |-> r.x, y |-> w, hw |-> r.hw, led |-> r.led, off |-> r.off]
  BY <1>3, <1>4, Fields
<1>6. m = [text |-> s.text, x |-> v, y |-> w, hw |-> s.hw, led |-> s.led, off |-> s.off]
  BY <1>2, <1>5
<1>7. Shaped(m) /\ m.x = v /\ m.y = w /\ m.led = s.led /\ m.off = s.off
  BY <1>1, <1>6 DEF Shaped
<1>8. (s.led = 0 => v <= Columns /\ w < Lines) => Sound(m)
  BY <1>1, <1>7 DEF Sound, Kept, OnScreen
<1> QED BY <1>7, <1>8

LEMMA SoundCursor ==
  ASSUME NEW s, Sound(s)
  PROVE  Sound(UpdateCursor(s))
<1>1. Shaped(s) /\ Kept(s)
  BY DEF Sound
<1>2. UpdateCursor(s) = [text |-> s.text, x |-> s.x, y |-> s.y, hw |-> Address(s.x, s.y), led |-> s.led, off |-> s.off]
  BY <1>1, Fields DEF UpdateCursor
<1> QED BY <1>1, <1>2 DEF Sound, Shaped, Kept, OnScreen

(* A store to cells up to b, of the page or anywhere once the position was *)
(* led off, misses no cell it should not miss.                             *)
LEMMA SoundStored ==
  ASSUME NEW s, Sound(s), NEW b, NEW text, text = [i \in Cell |-> text[i]],
         s.led = 0 => b \in Cell
  PROVE  Sound(Stored(s, b, text)) /\ Stored(s, b, text).x = s.x /\ Stored(s, b, text).y = s.y
         /\ Stored(s, b, text).led = s.led
<1>1. Shaped(s) /\ Kept(s)
  BY DEF Sound
<1>2. CASE b \in Cell
  <2>1. Stored(s, b, text) = [text |-> text, x |-> s.x, y |-> s.y, hw |-> s.hw, led |-> s.led, off |-> s.off]
    BY <1>1, <1>2, Fields DEF Stored
  <2> QED BY <1>1, <2>1 DEF Sound, Shaped, Kept, OnScreen
<1>3. CASE b \notin Cell
  <2>1. Stored(s, b, text) = s
    BY <1>3 DEF Stored
  <2> QED BY <2>1
<1> QED BY <1>2, <1>3

LEMMA SoundStore ==
  ASSUME NEW s, Sound(s), NEW c
  PROVE  Sound(Store(s, c)) /\ Store(s, c).x = s.x /\ Store(s, c).y = s.y /\ Store(s, c).led = s.led
<1>1. s.led = 0 => Address(s.x, s.y) \in Cell
  BY AddressIsCell DEF Sound, Shaped, Kept, OnScreen
<1> DEFINE text == [s.text EXCEPT ![Address(s.x, s.y)] = c]
<1>2. Store(s, c) = Stored(s, Address(s.x, s.y), text)
  BY DEF Store
<1>3. text = [i \in Cell |-> text[i]]
  BY DEF Sound, Shaped
<1> HIDE DEF text
<1> QED BY <1>1, <1>2, <1>3, SoundStored
-----------------------------------------------------------------------------
(* The operations of vga.c. *)
LEMMA SoundClear == Sound(Clear)
  BY Sizes DEF Clear, Sound, Shaped, Kept, OnScreen

LEMMA SoundSetPosition ==
  ASSUME NEW s, Sound(s), NEW x \in 0 .. Columns, NEW y \in 0 .. Lines - 1
  PROVE  Sound(SetPosition(s, x, y))
<1> DEFINE v == x
           w == y
           m == [s EXCEPT !.x = v, !.y = w]
<1>1. v \in Nat /\ w \in Nat /\ v <= Columns /\ w < Lines
  BY Sizes
<1>2. SetPosition(s, x, y) = [m EXCEPT !.led = 0]
  BY DEF SetPosition
<1> HIDE DEF v, w
<1>3. /\ Shaped(m) /\ m.x = v /\ m.y = w /\ m.led = s.led /\ m.off = s.off
      /\ (s.led = 0 => v <= Columns /\ w < Lines) => Sound(m)
  BY <1>1, Moved
<1> HIDE DEF m
<1>4. [m EXCEPT !.led = 0] = [text |-> m.text, x |-> m.x, y |-> m.y, hw |-> m.hw, led |-> 0, off |-> m.off]
  BY <1>3, Fields
<1> QED BY <1>1, <1>2, <1>3, <1>4 DEF Sound, Shaped, Kept, OnScreen

LEMMA SoundUpdatePosition ==
  ASSUME NEW s, Sound(s), NEW dx \in Int, NEW dy \in Int
  PROVE  Sound(UpdatePosition(s, dx, dy))
<1> DEFINE v == (s.x + dx) % Byte
           w == (s.y + dy) % Byte
           m == [s EXCEPT !.x = v, !.y = w]
<1>1. s.x + dx \in Int /\ s.y + dy \in Int
  BY DEF Sound, Shaped
<1>2. v \in Nat /\ w \in Nat
  BY <1>1, ModuloIsNat
<1>3. UpdatePosition(s, dx, dy) = IF OnScreen(m) THEN m ELSE [m EXCEPT !.led = 1]
  BY DEF UpdatePosition
<1> HIDE DEF v, w
<1>4. /\ Shaped(m) /\ m.x = v /\ m.y = w /\ m.led = s.led /\ m.off = s.off
      /\ (s.led = 0 => v <= Columns /\ w < Lines) => Sound(m)
  BY <1>2, Moved
<1> HIDE DEF m
<1>5. CASE OnScreen(m)
  BY <1>3, <1>4, <1>5 DEF OnScreen
<1>6. CASE ~OnScreen(m)
  <2>1. [m EXCEPT !.led = 1] = [text |-> m.text, x |-> m.x, y |-> m.y, hw |-> m.hw, led |-> 1, off |-> m.off]
    BY <1>4, Fields
  <2> QED BY <1>3, <1>4, <1>6, <2>1 DEF Sound, Shaped, Kept
<1> QED BY <1>5, <1>6

(* The page is scrolled until the last line is the position's. *)
LEMMA SoundInPage ==
  ASSUME NEW s, Shaped(s), s.off = 0, s.led = 0 => s.x <= Columns
  PROVE  Sound(InPage(s))
<1>1. CASE s.y > Lines - 1
  <2> DEFINE n    == s.y - (Lines - 1)
             page == 0 .. Columns * Lines - 1
             text == [i \in Cell |-> IF i \notin page THEN s.text[i]
                        ELSE IF i + n * Columns \in page
                             THEN s.text[i + n * Columns] ELSE Space]
             v    == s.y - n
             r    == [s EXCEPT !.y = v]
             m    == [r EXCEPT !.text = text]
  <2>1. InPage(s) = UpdateCursor(m)
    BY <1>1 DEF InPage, ScrollUp
  <2>2. v = Lines - 1
    BY Sizes DEF Shaped
  <2>3. text = [i \in Cell |-> text[i]]
    OBVIOUS
  <2> HIDE DEF n, text, v
  <2>4. r = [text |-> s.text, x |-> s.x, y |-> v, hw |-> s.hw, led |-> s.led, off |-> s.off]
    BY Fields
  <2>5. Shaped(r)
    BY <2>2, <2>4, Sizes DEF Shaped
  <2> HIDE DEF r
  <2>6. m = [text |-> text, x |-> r.x, y |-> r.y, hw |-> r.hw, led |-> r.led, off |-> r.off]
    BY <2>5, Fields
  <2> HIDE DEF m
  <2>7. Sound(m)
    BY <2>2, <2>4, <2>5, <2>6, <2>3, Sizes DEF Sound, Shaped, Kept, OnScreen
  <2> QED BY <2>1, <2>7, SoundCursor
<1>2. CASE ~(s.y > Lines - 1)
  <2>1. InPage(s) = s /\ s.y < Lines
    BY <1>2, Sizes DEF InPage, Shaped
  <2> QED BY <2>1 DEF Sound, Kept, OnScreen
<1> QED BY <1>1, <1>2

(* The start of the next line may be behind the page. *)
LEMMA NextLineShaped ==
  ASSUME NEW s, Sound(s)
  PROVE  Shaped(NextLine(s)) /\ NextLine(s).off = 0 /\ NextLine(s).x = 0
<1> DEFINE v == 0
           w == (s.y + 1) % Byte
           m == [s EXCEPT !.x = v, !.y = w]
<1>1. NextLine(s) = m
  BY DEF NextLine
<1>2. v \in Nat /\ w \in Nat
  BY ModuloIsNat DEF Sound, Shaped
<1> HIDE DEF w, v
<1>3. /\ Shaped(m) /\ m.x = v /\ m.y = w /\ m.led = s.led /\ m.off = s.off
      /\ (s.led = 0 => v <= Columns /\ w < Lines) => Sound(m)
  BY <1>2, Moved
<1>4. s.off = 0 /\ v = 0
  BY DEF Sound, Kept, v
<1> HIDE DEF m
<1> QED BY <1>1, <1>3, <1>4

LEMMA SoundNewline ==
  ASSUME NEW s, Sound(s)
  PROVE  Sound(InPage(NextLine(s)))
<1>1. 0 <= Columns
  BY Sizes
<1> QED BY <1>1, NextLineShaped, SoundInPage

LEMMA SoundToLeft ==
  ASSUME NEW s, Sound(s)
  PROVE  Sound(ToLeft(s))
<1>1. Shaped(s) /\ s.off = 0 /\ (s.led = 0 => s.x <= Columns /\ s.y < Lines)
  BY DEF Sound, Kept, OnScreen
<1>2. CASE s.x > 0
  <2>1. ToLeft(s) = [s EXCEPT !.x = @ - 1]
    BY <1>2 DEF ToLeft
  <2>2. ToLeft(s) = [text |-> s.text, x |-> s.x - 1, y |-> s.y, hw |-> s.hw, led |-> s.led, off |-> s.off]
    BY <1>1, <2>1, Fields
  <2> QED BY <1>1, <1>2, <2>2, Sizes DEF Sound, Shaped, Kept, OnScreen
<1>3. CASE ~(s.x > 0) /\ s.y > 0
  <2> DEFINE v == Columns - 1
             w == s.y - 1
             m == [s EXCEPT !.x = v, !.y = w]
  <2>1. ToLeft(s) = m
    BY <1>3 DEF ToLeft
  <2>2. v \in Nat /\ w \in Nat /\ (s.led = 0 => v <= Columns /\ w < Lines)
    BY <1>1, <1>3, Sizes DEF Shaped
  <2> HIDE DEF v, w
  <2>3. /\ Shaped(m) /\ m.x = v /\ m.y = w /\ m.led = s.led /\ m.off = s.off
        /\ (s.led = 0 => v <= Columns /\ w < Lines) => Sound(m)
    BY <2>2, Moved
  <2> HIDE DEF m
  <2> QED BY <2>1, <2>2, <2>3
<1>4. CASE ~(s.x > 0) /\ ~(s.y > 0)
  BY <1>4 DEF ToLeft
<1> QED BY <1>2, <1>3, <1>4

LEMMA SoundTabbed ==
  ASSUME NEW s, Sound(s)
  PROVE  Sound(Tabbed(s))
<1>1. Shaped(s) /\ s.off = 0 /\ (s.led = 0 => s.x <= Columns /\ s.y < Lines)
  BY DEF Sound, Kept, OnScreen
<1>2. CASE s.x + 4 > Columns
  BY <1>2 DEF Tabbed
<1>3. CASE ~(s.x + 4 > Columns)
  <2>1. Tabbed(s) = [s EXCEPT !.x = @ + 4]
    BY <1>3 DEF Tabbed
  <2>2. Tabbed(s) = [text |-> s.text, x |-> s.x + 4, y |-> s.y, hw |-> s.hw, led |-> s.led, off |-> s.off]
    BY <1>1, <2>1, Fields
  <2>3. s.x + 4 \in Nat /\ s.x + 4 <= Columns
    BY <1>1, <1>3, Sizes DEF Shaped
  <2> QED BY <1>1, <2>2, <2>3 DEF Sound, Shaped, Kept, OnScreen
<1> QED BY <1>2, <1>3

(* A character is stored on the page, and the next one goes to the right   *)
(* of it, to the next line, or to the last line of the scrolled page.      *)
LEMMA SoundToRight ==
  ASSUME NEW s, Sound(s)
  PROVE  Sound(InPage(ToRight(s)))
<1> DEFINE v     == (s.x + 1) % Byte
           right == [s EXCEPT !.x = v]
<1>1. Shaped(s) /\ s.off = 0 /\ (s.led = 0 => s.x <= Columns /\ s.y < Lines)
  BY DEF Sound, Kept, OnScreen
<1>2. v \in Nat
  BY <1>1, ModuloIsNat DEF Shaped
<1>3. ToRight(s) = IF v > Columns - 1 THEN NextLine(s) ELSE right
  <2>1. right = [text |-> s.text, x |-> v, y |-> s.y, hw |-> s.hw, led |-> s.led, off |-> s.off]
    BY <1>1, Fields
  <2> QED BY <2>1 DEF ToRight
<1> HIDE DEF v
<1>4. CASE v > Columns - 1
  BY <1>3, <1>4, SoundNewline
<1>5. CASE ~(v > Columns - 1)
  <2>1. right = [text |-> s.text, x |-> v, y |-> s.y, hw |-> s.hw, led |-> s.led, off |-> s.off]
    BY <1>1, Fields
  <2>2. Shaped(right) /\ right.off = 0 /\ right.x <= Columns
    BY <1>1, <1>2, <1>5, <2>1, Sizes DEF Shaped
  <2> QED BY <1>3, <1>5, <2>2, SoundInPage
<1> QED BY <1>4, <1>5

(* Whatever a character does, the cursor that blinks is moved last. *)
LEMMA CharacterShown ==
  ASSUME NEW s, Sound(s), NEW c
  PROVE  \E r : Sound(r) /\ DisplayCharacter(s, c) = UpdateCursor(r)
<1>1. CASE c = Newline
  <2>1. DisplayCharacter(s, c) = UpdateCursor(InPage(NextLine(s)))
    BY <1>1 DEF DisplayCharacter, Newline, Backspace, Tab
  <2> QED BY <2>1, SoundNewline
<1>2. CASE c = Backspace
  <2>1. DisplayCharacter(s, c) = UpdateCursor(Store(ToLeft(s), Space))
    BY <1>2 DEF DisplayCharacter, Newline, Backspace, Tab
  <2>2. Sound(Store(ToLeft(s), Space))
    BY SoundToLeft, SoundStore
  <2> QED BY <2>1, <2>2
<1>3. CASE c = Tab
  <2>1. DisplayCharacter(s, c) = UpdateCursor(Tabbed(s))
    BY <1>3 DEF DisplayCharacter, Newline, Backspace, Tab
  <2> QED BY <2>1, SoundTabbed
<1>4. CASE c # Newline /\ c # Backspace /\ c # Tab
  <2>1. DisplayCharacter(s, c) = UpdateCursor(InPage(ToRight(Store(s, c))))
    BY <1>4 DEF DisplayCharacter
  <2>2. Sound(InPage(ToRight(Store(s, c))))
    BY SoundStore, SoundToRight
  <2> QED BY <2>1, <2>2
<1> QED BY <1>1, <1>2, <1>3, <1>4

LEMMA SoundDisplayCharacter ==
  ASSUME NEW s, Sound(s), NEW c
  PROVE  Sound(DisplayCharacter(s, c))
  BY CharacterShown, SoundCursor

LEMMA SoundFilled ==
  ASSUME NEW s, Sound(s), NEW a \in Cell, NEW b \in Cell
  PROVE  Sound(Filled(s, a, b, Space))
<1> DEFINE text == [i \in Cell |-> IF i \in a .. b THEN Space ELSE s.text[i]]
<1>1. Filled(s, a, b, Space) = Stored(s, b, text)
  BY DEF Filled
<1>2. text = [i \in Cell |-> text[i]]
  OBVIOUS
<1> HIDE DEF text
<1> QED BY <1>1, <1>2, SoundStored

-----------------------------------------------------------------------------
(* The inductive invariant. *)
ScreenInv == Sound(screen)

(* Whatever is displayed, in any order, on a screen of any size: no store  *)
(* misses the page and the cell behind it, and the position stays on it,   *)
(* until vga_update_position() leads it off.                               *)
THEOREM ScreenSafe == ScreenSpec => []PageKept
<1>1. ScreenInit => ScreenInv
  BY SoundClear DEF ScreenInit, ScreenInv
<1>2. ScreenInv /\ [Operation]_screen => ScreenInv'
  <2> SUFFICES ASSUME Sound(screen), [Operation]_screen
               PROVE  Sound(screen')
    BY DEF ScreenInv
  <2>1. CASE screen' = Clear
    BY <2>1, SoundClear
  <2>2. CASE screen' = UpdateCursor(screen)
    BY <2>2, SoundCursor
  <2>3. CASE \E x \in 0 .. Columns - 1, y \in 0 .. Lines - 1 : screen' = SetPosition(screen, x, y)
    <3>1. \A x \in 0 .. Columns - 1 : x \in 0 .. Columns
      BY Sizes
    <3> QED BY <2>3, <3>1, SoundSetPosition
  <2>4. CASE \E dx, dy \in {-1, 0, 1} : screen' = UpdatePosition(screen, dx, dy)
    <3>1. PICK dx \in {-1, 0, 1}, dy \in {-1, 0, 1} : screen' = UpdatePosition(screen, dx, dy)
      BY <2>4
    <3>2. dx \in Int /\ dy \in Int
      OBVIOUS
    <3> QED BY <3>1, <3>2, SoundUpdatePosition
  <2>5. CASE \E a, b \in Cell : screen' = Filled(screen, a, b, Space)
    BY <2>5, SoundFilled
  <2>6. CASE \E c \in Int : screen' = DisplayCharacter(screen, c)
    BY <2>6, SoundDisplayCharacter
  <2>7. CASE UNCHANGED screen
    BY <2>7
  <2> QED BY <2>1, <2>2, <2>3, <2>4, <2>5, <2>6, <2>7 DEF Operation
<1>3. ScreenInv => PageKept
  BY DEF ScreenInv, Sound, Kept, PageKept
<1> QED BY <1>1, <1>2, <1>3, PTL DEF ScreenSpec

-----------------------------------------------------------------------------
(* Lines of characters, and what writing one does.                         *)

(* A sequence, whatever is in it. *)
Tuple(t) == \E V : t \in Seq(V)

(* A screen that is kept, and where the cursor blinks at the position. *)
Blinks(s) == Sound(s) /\ s.hw = Address(s.x, s.y)

LEMMA Joined ==
  ASSUME NEW t, NEW u, Tuple(t), Tuple(u)
  PROVE  Tuple(t \o u)
<1>1. PICK V : t \in Seq(V)
  BY DEF Tuple
<1>2. PICK W : u \in Seq(W)
  BY DEF Tuple
<1>3. t \in Seq(V \cup W) /\ u \in Seq(V \cup W)
  BY <1>1, <1>2, LargerSeq
<1> QED
  BY <1>3 DEF Tuple

LEMMA Longer ==
  ASSUME NEW V, NEW t \in Seq(V), NEW u \in Seq(V)
  PROVE  t \o u \in Seq(V) /\ Len(t \o u) = Len(t) + Len(u) /\ Len(t) \in Nat /\ Len(u) \in Nat
  OBVIOUS

LEMMA OneCharacter ==
  ASSUME NEW c
  PROVE  Tuple(<<c>>) /\ Len(<<c>>) = 1
<1>1. <<c>> \in Seq({c})
  OBVIOUS
<1> QED
  BY <1>1 DEF Tuple

LEMMA TwoCharacters ==
  ASSUME NEW c, NEW d
  PROVE  Tuple(<<c, d>>) /\ Len(<<c, d>>) = 2
<1>1. <<c, d>> \in Seq({c, d})
  OBVIOUS
<1> QED
  BY <1>1 DEF Tuple

LEMMA NoCharacters == Tuple(<<>>)
  BY EmptySeq DEF Tuple

-----------------------------------------------------------------------------
(* Screens and the operations that move the cursor last. *)
LEMMA UpdatedBlinks ==
  ASSUME NEW s, Sound(s)
  PROVE  Blinks(UpdateCursor(s))
<1>1. UpdateCursor(s) = [text |-> s.text, x |-> s.x, y |-> s.y, hw |-> Address(s.x, s.y), led |-> s.led, off |-> s.off]
  BY Fields DEF UpdateCursor, Sound
<1> QED
  BY <1>1, SoundCursor DEF Blinks

LEMMA CharacterBlinks ==
  ASSUME NEW s, Sound(s), NEW c
  PROVE  Blinks(DisplayCharacter(s, c))
  BY CharacterShown, UpdatedBlinks

(* f goes from s on, from one of the characters to the next. *)
Written(f, s, chars, N) ==
  f[0] = s /\ \A i \in 1 .. N : f[i] = DisplayCharacter(f[i - 1], chars[i])

(* What is written is written one character after the other. *)
LEMMA WriteIs ==
  ASSUME NEW s, NEW chars, Len(chars) \in Nat
  PROVE  \E f : Write(s, chars) = f[Len(chars)] /\ Written(f, s, chars, Len(chars))
<1> DEFINE after[i \in 0 .. Len(chars)] ==
             IF i = 0 THEN s ELSE DisplayCharacter(after[i - 1], chars[i])
<1>1. Write(s, chars) = after[Len(chars)]
  BY DEF Write
<1>2. PICK N \in Nat : N = Len(chars)
  OBVIOUS
<1> DEFINE good(f, d) == f[0] = s /\ \A i \in 1 .. d : f[i] = DisplayCharacter(f[i - 1], chars[i])
           S == {d \in Nat : d <= N => \E f : f = [i \in 0 .. N |-> f[i]] /\ good(f, d)}
<1>3. 0 \in S
  <2>1. PICK f : f = [i \in 0 .. N |-> s]
    OBVIOUS
  <2>2. f = [i \in 0 .. N |-> f[i]] /\ f[0] = s
    BY <2>1
  <2> QED
    BY <2>2
<1>4. ASSUME NEW d \in Nat, d \in S PROVE d + 1 \in S
  <2> SUFFICES ASSUME d + 1 <= N
               PROVE  \E g : g = [i \in 0 .. N |-> g[i]] /\ good(g, d + 1)
    OBVIOUS
  <2>1. PICK f : f = [i \in 0 .. N |-> f[i]] /\ good(f, d)
    BY <1>4
  <2>2. PICK e : e = d + 1
    OBVIOUS
  <2>3. PICK v : v = DisplayCharacter(f[d], chars[e])
    OBVIOUS
  <2>4. PICK g : g = [f EXCEPT ![e] = v]
    OBVIOUS
  <2>5. /\ g = [i \in 0 .. N |-> g[i]] /\ g[e] = v
        /\ \A i \in 0 .. N : i # e => g[i] = f[i]
    BY <2>1, <2>2, <2>4
  <2>6. ASSUME NEW i \in 1 .. e PROVE g[i] = DisplayCharacter(g[i - 1], chars[i])
    <3>1. i - 1 \in 0 .. N /\ i - 1 # e /\ g[i - 1] = f[i - 1]
      BY <2>2, <2>5
    <3>2. CASE i = e
      BY <2>2, <2>3, <2>5, <3>1, <3>2
    <3>3. CASE i # e
      <4>1. i \in 1 .. d /\ g[i] = f[i]
        BY <2>2, <2>5, <3>3
      <4> QED
        BY <2>1, <3>1, <4>1
    <3> QED
      BY <3>2, <3>3
  <2>7. g[0] = s
    BY <2>1, <2>2, <2>5
  <2>8. good(g, d + 1)
    BY <2>2, <2>6, <2>7
  <2>9. g = [i \in 0 .. N |-> g[i]]
    BY <2>5
  <2> HIDE DEF good
  <2> QED
    BY <2>8, <2>9
<1> HIDE DEF S
<1>5. PICK f : f = [i \in 0 .. N |-> f[i]] /\ good(f, N)
  <2>1. N \in S
    BY <1>3, <1>4, Induct
  <2> QED
    BY <2>1 DEF S
<1>6. after = [i \in 0 .. Len(chars) |-> IF i = 0 THEN s ELSE DisplayCharacter(after[i - 1], chars[i])]
  <2> DEFINE is(g) == g = [i \in 0 .. Len(chars) |->
                             IF i = 0 THEN s ELSE DisplayCharacter(g[i - 1], chars[i])]
  <2>1. ASSUME NEW i \in 0 .. N
        PROVE  f[i] = IF i = 0 THEN s ELSE DisplayCharacter(f[i - 1], chars[i])
    <3>1. i = 0 \/ i \in 1 .. N
      OBVIOUS
    <3> QED
      BY <1>5, <3>1
  <2>2. is(f)
    BY <1>2, <1>5, <2>1
  <2>3. after = CHOOSE g : is(g)
    OBVIOUS
  <2> QED
    BY <2>2, <2>3
<1>7. PICK g : g = after
  OBVIOUS
<1> HIDE DEF after
<1>8. ASSUME NEW i \in 0 .. N
      PROVE  g[i] = IF i = 0 THEN s ELSE DisplayCharacter(g[i - 1], chars[i])
  BY <1>2, <1>6, <1>7
<1>9. Written(g, s, chars, N)
  <2>1. \A i \in 1 .. N : i \in 0 .. N /\ i # 0
    OBVIOUS
  <2>2. 0 \in 0 .. N
    OBVIOUS
  <2> QED
    BY <1>8, <2>1, <2>2 DEF Written
<1> QED
  BY <1>1, <1>2, <1>7, <1>9

LEMMA WriteSound ==
  ASSUME NEW s, Sound(s), NEW chars, Tuple(chars)
  PROVE  /\ Sound(Write(s, chars))
         /\ Blinks(s) \/ Len(chars) > 0 => Blinks(Write(s, chars))
<1>1. PICK N \in Nat : N = Len(chars)
  BY DEF Tuple
<1>2. PICK f : Write(s, chars) = f[N] /\ Written(f, s, chars, N)
  BY <1>1, WriteIs
<1> DEFINE S == {d \in Nat : d <= N => Sound(f[d]) /\ (d > 0 => Blinks(f[d]))}
<1>3. 0 \in S
  BY <1>2 DEF Written
<1>4. ASSUME NEW d \in Nat, d \in S PROVE d + 1 \in S
  <2> SUFFICES ASSUME d + 1 <= N PROVE Sound(f[d + 1]) /\ Blinks(f[d + 1])
    OBVIOUS
  <2>1. d + 1 \in 1 .. N /\ (d + 1) - 1 = d /\ Sound(f[d])
    BY <1>4
  <2>2. f[d + 1] = DisplayCharacter(f[d], chars[d + 1])
    BY <1>2, <2>1 DEF Written
  <2> QED
    BY <2>1, <2>2, CharacterBlinks DEF Blinks
<1> HIDE DEF S
<1>5. N \in S
  BY <1>3, <1>4, Induct
<1>6. Sound(f[N]) /\ (N > 0 => Blinks(f[N]))
  BY <1>5 DEF S
<1>7. N = 0 => Write(s, chars) = s
  BY <1>2 DEF Written
<1>8. N = 0 \/ N > 0
  OBVIOUS
<1> QED
  BY <1>1, <1>2, <1>6, <1>7, <1>8

-----------------------------------------------------------------------------
(* The numerals and the names are sequences, whatever the number or the    *)
(* name is.                                                                *)
LEMMA CountIsNat ==
  ASSUME NEW a \in Int, NEW b \in Int, NEW S, S \subseteq a .. b
  PROVE  IsFiniteSet(S) /\ Cardinality(S) \in Nat
<1>1. IsFiniteSet(a .. b)
  BY FS_Interval
<1>2. IsFiniteSet(S)
  BY <1>1, FS_Subset
<1> QED
  BY <1>2, FS_CardinalityType

LEMMA HexDigitIsNat ==
  ASSUME NEW k
  PROVE  HexDigit(k) \in Nat
<1>1. CASE k \in 0 .. 9
  BY <1>1 DEF HexDigit, Zero
<1>2. CASE k \in 10 .. 15
  <2>1. k - 9 \in 1 .. 6 /\ k \notin 0 .. 9
    BY <1>2
  <2>2. HexLetter \in [1 .. 6 -> Nat]
    BY DEF HexLetter
  <2> QED
    BY <1>2, <2>1, <2>2 DEF HexDigit
<1>3. CASE k \notin 0 .. 9 /\ k \notin 10 .. 15
  BY <1>3 DEF HexDigit, Garbage
<1> QED
  BY <1>1, <1>2, <1>3

LEMMA DigitsAreSeq ==
  ASSUME NEW n \in Nat, NEW d, \A i \in 1 .. n : d[i] \in Nat, d = [i \in 1 .. n |-> d[i]]
  PROVE  d \in Seq(Nat)
  OBVIOUS

LEMMA NumeralIsSeq ==
  ASSUME NEW n \in Int, NEW digit, DOMAIN digit = 1 .. n
  PROVE  Numeral(digit) \in Seq(Nat)
<1> DEFINE written == {k \in DOMAIN digit : \E m \in 1 .. k : digit[m] # 0}
           out == Len(digit) - Cardinality(written)
<1>1. written \subseteq 1 .. n
  OBVIOUS
<1>2. PICK c \in Nat : c = Cardinality(written)
  <2>1. 1 \in Int
    OBVIOUS
  <2> HIDE DEF written
  <2> QED
    BY <1>1, <2>1, CountIsNat
<1>3. PICK d : d = [k \in 1 .. c |-> HexDigit(digit[out + k])]
  OBVIOUS
<1>4. Numeral(digit) = d
  BY <1>2, <1>3 DEF Numeral
<1> HIDE DEF written, out
<1>5. \A k \in 1 .. c : d[k] \in Nat
  BY <1>3, HexDigitIsNat
<1>6. d = [k \in 1 .. c |-> d[k]]
  BY <1>3
<1> QED
  BY <1>4, <1>5, <1>6, DigitsAreSeq

LEMMA ZeroIsSeq == <<Zero>> \in Seq(Nat) /\ <<Minus>> \in Seq(Nat) /\ <<>> \in Seq(Nat)
  BY DEF Zero, Minus

LEMMA PrintHexIsSeq ==
  ASSUME NEW v
  PROVE  PrintHex(v) \in Seq(Nat)
<1> DEFINE i[n \in 0 .. CellBits \div 4] == IF n = 0 THEN Unsigned(v) ELSE Unsigned(i[n - 1] * 16)
           high == [n \in 1 .. CellBits \div 4 |-> i[n - 1] \div 2 ^ (CellBits - 4)]
<1>1. PrintHex(v) = IF v = 0 THEN <<Zero>> ELSE Numeral(high)
  BY DEF PrintHex
<1>2. CellBits \div 4 \in Int /\ DOMAIN high = 1 .. CellBits \div 4
  BY WordsAssumption DEF WordsAssumption
<1> HIDE DEF high
<1>3. Numeral(high) \in Seq(Nat)
  BY <1>2, NumeralIsSeq
<1> QED
  BY <1>1, <1>3, ZeroIsSeq

LEMMA PrintDecIsSeq ==
  ASSUME NEW v
  PROVE  PrintDec(v) \in Seq(Nat)
<1> DEFINE j(n) == PlaceValues(10)[HighestPower + 1 - n]
           i[n \in 0 .. HighestPower + 1] ==
             IF n = 0 THEN (IF v < 0 THEN Signed(-v) ELSE v)
             ELSE i[n - 1] - j(n) * Quotient(i[n - 1], j(n))
           k == [n \in 1 .. HighestPower + 1 |-> Quotient(i[n - 1], j(n))]
<1>1. PrintDec(v) = IF v = 0 THEN <<Zero>> ELSE (IF v < 0 THEN <<Minus>> ELSE <<>>) \o Numeral(k)
  BY DEF PrintDec
<1>2. HighestPower + 1 \in Int
  <2>1. PICK S : S = {p \in 1 .. CellBits \div 3 : PlaceValues(10)[p] < 2 ^ (CellBits - 1)}
    OBVIOUS
  <2>2. S \subseteq 1 .. CellBits \div 3 /\ 1 \in Int /\ CellBits \div 3 \in Int
    BY <2>1, WordsAssumption DEF WordsAssumption
  <2>3. HighestPower = Cardinality(S)
    BY <2>1 DEF HighestPower
  <2>4. HighestPower \in Nat
    BY <2>2, <2>3, CountIsNat
  <2> QED
    BY <2>4
<1>3. DOMAIN k = 1 .. HighestPower + 1
  OBVIOUS
<1> HIDE DEF k
<1>4. PICK t \in Seq(Nat) : t = Numeral(k)
  BY <1>2, <1>3, NumeralIsSeq
<1>5. PICK sign \in Seq(Nat) : sign = IF v < 0 THEN <<Minus>> ELSE <<>>
  BY ZeroIsSeq
<1>6. PrintDec(v) = IF v = 0 THEN <<Zero>> ELSE sign \o t
  BY <1>1, <1>4, <1>5
<1> QED
  BY <1>6, ZeroIsSeq

LEMMA ItoaIsSeq ==
  ASSUME NEW v, NEW base
  PROVE  Itoa(v, base) \in Seq(Nat) /\ Len(Itoa(v, base)) <= CellBits + 2
<1> DEFINE negative == v < 0 /\ base = 10
           value[n \in 0 .. CellBits] ==
             IF n = 0 THEN (IF negative THEN Signed(-v) ELSE v) ELSE Quotient(value[n - 1], base)
           zeroless == {n \in 0 .. CellBits : value[n] # 0}
           remainder(n) == value[n - 1] - base * value[n]
<1>0. CellBits \in Nat
  BY WordsAssumption DEF WordsAssumption
<1>1. PICK c \in Nat : c = Cardinality(zeroless) /\ c <= CellBits + 1
  <2>1. zeroless \subseteq 0 .. CellBits
    OBVIOUS
  <2> HIDE DEF zeroless
  <2>2. 0 \in Int /\ CellBits \in Int
    BY <1>0
  <2>3. IsFiniteSet(0 .. CellBits) /\ Cardinality(0 .. CellBits) = CellBits + 1
    BY <1>0, FS_Interval
  <2>4. Cardinality(zeroless) <= CellBits + 1
    BY <2>1, <2>3, FS_Subset
  <2> QED
    BY <2>1, <2>2, <2>4, CountIsNat
<1>2. PICK d : d = [n \in 1 .. c |-> HexDigit(remainder(c + 1 - n))]
  OBVIOUS
<1>3. Itoa(v, base) = IF v = 0 THEN <<Zero>> ELSE (IF negative THEN <<Minus>> ELSE <<>>) \o d
  BY <1>1, <1>2 DEF Itoa
<1>4. d \in Seq(Nat) /\ Len(d) = c
  <2> HIDE DEF remainder
  <2>1. \A n \in 1 .. c : d[n] \in Nat
    BY <1>2, HexDigitIsNat
  <2>2. d = [n \in 1 .. c |-> d[n]]
    BY <1>2
  <2>3. d \in Seq(Nat)
    BY <2>1, <2>2, DigitsAreSeq
  <2>4. DOMAIN d = 1 .. c
    BY <2>2
  <2> QED
    BY <2>3, <2>4
<1>5. PICK sign : sign = IF negative THEN <<Minus>> ELSE <<>>
  OBVIOUS
<1>9. sign \in Seq(Nat) /\ Len(sign) <= 1
  <2> HIDE DEF negative
  <2>1. sign = <<Minus>> \/ sign = <<>>
    BY <1>5
  <2>2. sign = <<Minus>> => sign \in Seq(Nat) /\ Len(sign) <= 1
    BY ZeroIsSeq
  <2>3. sign = <<>> => sign \in Seq(Nat) /\ Len(sign) <= 1
    BY ZeroIsSeq
  <2> QED
    BY <2>1, <2>2, <2>3, Zenon
<1>6. Itoa(v, base) = IF v = 0 THEN <<Zero>> ELSE sign \o d
  BY <1>3, <1>5
<1>7. sign \o d \in Seq(Nat) /\ Len(sign \o d) = Len(sign) + c
  BY <1>4, <1>9, Longer
<1>8. <<Zero>> \in Seq(Nat) /\ Len(<<Zero>>) = 1
  BY ZeroIsSeq
<1> QED
  BY <1>0, <1>1, <1>6, <1>7, <1>8, <1>9

LEMMA UnpackIsTuple ==
  ASSUME NEW name
  PROVE  Tuple(Unpack(name))
<1>1. PICK f : Unpack(name) = f[1] /\ \A p \in 1 .. NameBits + 7 : f[p] = Letters(f, name, p)
  BY UnpackIs
<1> DEFINE four(p)  == Nibble(name, p)
           five(p)  == 2 * (Nibble(name, p) - 4) + BitAt(name, p + 4)
           seven(p) == 8 * (Nibble(name, p) - 10) + Three(name, p + 4)
<1>2. PICK V : V = {four(p) : p \in 1 .. 35} \cup {five(p) : p \in 1 .. 35} \cup {seven(p) : p \in 1 .. 35}
  OBVIOUS
<1>3. \A p \in 1 .. 35 : four(p) \in V /\ five(p) \in V /\ seven(p) \in V
  BY <1>2
<1>4. ASSUME NEW p \in 1 .. 35
      PROVE  \/ p > 28 /\ f[p] = <<>>
             \/ f[p] = <<>>
             \/ p <= 28 /\ f[p] = <<four(p)>> \o f[p + 4]
             \/ p <= 28 /\ f[p] = <<five(p)>> \o f[p + 5]
             \/ p <= 28 /\ f[p] = <<seven(p)>> \o f[p + 7]
  <2>1. f[p] = Letters(f, name, p)
    BY <1>1 DEF NameBits
  <2>2. p > 28 => p .. NameBits = {}
    BY DEF NameBits
  <2>3. \/ f[p] = <<>> \/ f[p] = <<four(p)>> \o f[p + 4]
        \/ f[p] = <<five(p)>> \o f[p + 5] \/ f[p] = <<seven(p)>> \o f[p + 7]
    BY <2>1, Zenon DEF Letters
  <2>4. p > 28 => f[p] = <<>>
    BY <2>1, <2>2, Zenon DEF Letters
  <2>5. p > 28 \/ p <= 28
    OBVIOUS
  <2> HIDE DEF four, five, seven
  <2> QED
    BY <2>3, <2>4, <2>5, Zenon
<1> HIDE DEF four, five, seven
<1> DEFINE S == {d \in Nat : d <= 35 => \A p \in 36 - d .. 35 : f[p] \in Seq(V)}
<1>5. 0 \in S
  OBVIOUS
<1>6. ASSUME NEW d \in Nat, d \in S PROVE d + 1 \in S
  <2> SUFFICES ASSUME d + 1 <= 35, NEW p \in 36 - (d + 1) .. 35 PROVE f[p] \in Seq(V)
    OBVIOUS
  <2>1. \A q \in 36 - d .. 35 : f[q] \in Seq(V)
    BY <1>6
  <2>2. p \in 1 .. 35
    OBVIOUS
  <2>3. four(p) \in V /\ five(p) \in V /\ seven(p) \in V
    BY <1>3, <2>2
  <2>4. ASSUME NEW q \in 1 .. 35, q > p PROVE f[q] \in Seq(V)
    BY <2>1, <2>4
  <2>5. p <= 28 => /\ p + 4 \in 1 .. 35 /\ p + 5 \in 1 .. 35 /\ p + 7 \in 1 .. 35
                   /\ p + 4 > p /\ p + 5 > p /\ p + 7 > p
    BY <2>2
  <2>6. p <= 28 => f[p + 4] \in Seq(V) /\ f[p + 5] \in Seq(V) /\ f[p + 7] \in Seq(V)
    BY <2>4, <2>5
  <2>7. ASSUME NEW c \in V, NEW t \in Seq(V) PROVE <<c>> \o t \in Seq(V)
    OBVIOUS
  <2>8. <<>> \in Seq(V)
    BY EmptySeq
  <2>9. p <= 28 => /\ <<four(p)>> \o f[p + 4] \in Seq(V)
                   /\ <<five(p)>> \o f[p + 5] \in Seq(V)
                   /\ <<seven(p)>> \o f[p + 7] \in Seq(V)
    BY <2>3, <2>6, <2>7
  <2> QED
    BY <1>4, <2>2, <2>8, <2>9
<1> HIDE DEF S
<1>7. 35 \in S
  BY <1>5, <1>6, Induct
<1>8. f[1] \in Seq(V)
  BY <1>7 DEF S
<1> QED
  BY <1>1, <1>8 DEF Tuple

(* The sequences of a sequence, one after the other. *)
LEMMA FlattenIsSeq ==
  ASSUME NEW V, NEW ss \in Seq(Seq(V))
  PROVE  FlattenSeq(ss) \in Seq(V)
<1>1. PICK N \in Nat : N = Len(ss)
  OBVIOUS
<1>2. CASE N = 0
  <2>1. FlattenSeq(ss) = ss
    BY <1>1, <1>2 DEF FlattenSeq
  <2>2. PICK T : T = Seq(V)
    OBVIOUS
  <2>3. ss \in Seq(T) /\ Len(ss) = 0
    BY <1>1, <1>2, <2>2
  <2>4. ss = <<>>
    BY <2>3
  <2> QED
    BY <2>1, <2>4, EmptySeq
<1>3. CASE N # 0
  <2> DEFINE flatten[i \in 1 .. Len(ss)] == IF i = 1 THEN ss[i] ELSE flatten[i - 1] \o ss[i]
             G == [i \in 1 .. N |-> [v \in Seq(V) |-> v \o ss[i]]]
  <2>1. FlattenSeq(ss) = flatten[N]
    BY <1>1, <1>3 DEF FlattenSeq
  <2>2. PICK T : T = Seq(V)
    OBVIOUS
  <2>3. \A i \in 1 .. N : ss[i] \in T
    BY <1>1, <2>2
  <2>4. PICK H : H = G
    OBVIOUS
  <2>5. H \in [1 .. N -> [T -> T]]
    <3>1. ASSUME NEW i \in 1 .. N, NEW v \in T PROVE v \o ss[i] \in T
      BY <2>2, <2>3
    <3> QED
      BY <2>2, <2>4, <3>1
  <2>6. ASSUME NEW i \in 1 .. N, NEW v \in T PROVE H[i][v] = v \o ss[i]
    BY <2>2, <2>4
  <2> HIDE DEF G
  <2>7. PICK c : c = <<>> /\ c \in T
    BY <2>2, EmptySeq
  <2>8. PICK f \in [0 .. N -> T] : Follows(f, c, H, N)
    BY <2>5, <2>7, Recursion
  <2>9. ASSUME NEW i \in 1 .. N
        PROVE  f[i] = IF i = 1 THEN ss[i] ELSE f[i - 1] \o ss[i]
    <3>1. i - 1 \in 0 .. N /\ f[i - 1] \in T
      OBVIOUS
    <3>2. f[i] = f[i - 1] \o ss[i]
      BY <2>6, <2>8, <3>1 DEF Follows
    <3>3. CASE i = 1
      <4>1. f[i - 1] = <<>>
        BY <2>7, <2>8, <3>3 DEF Follows
      <4>2. <<>> \o ss[i] = ss[i]
        BY <2>2, <2>3
      <4> QED
        BY <3>2, <3>3, <4>1, <4>2
    <3> QED
      BY <3>2, <3>3
  <2> DEFINE is(g) == g = [i \in 1 .. Len(ss) |-> IF i = 1 THEN ss[i] ELSE g[i - 1] \o ss[i]]
  <2>10. PICK h : h = [i \in 1 .. N |-> f[i]]
    OBVIOUS
  <2>11. ASSUME NEW i \in 1 .. N
         PROVE  h[i] = IF i = 1 THEN ss[i] ELSE h[i - 1] \o ss[i]
    <3>1. i # 1 => i - 1 \in 1 .. N
      OBVIOUS
    <3> QED
      BY <2>9, <2>10, <3>1
  <2>12. is(h)
    BY <1>1, <2>10, <2>11
  <2>13. flatten = CHOOSE g : is(g)
    OBVIOUS
  <2>14. PICK g : g = flatten
    OBVIOUS
  <2>15. is(g)
    BY <2>12, <2>13, <2>14
  <2> HIDE DEF flatten
  <2>16. ASSUME NEW i \in 1 .. N
         PROVE  g[i] = IF i = 1 THEN ss[i] ELSE g[i - 1] \o ss[i]
    BY <1>1, <2>15
  <2> HIDE DEF is
  <2> DEFINE S == {d \in Nat : d \in 1 .. N => g[d] \in T}
  <2>17. 0 \in S
    OBVIOUS
  <2>18. ASSUME NEW d \in Nat, d \in S PROVE d + 1 \in S
    <3> SUFFICES ASSUME d + 1 \in 1 .. N PROVE g[d + 1] \in T
      OBVIOUS
    <3>1. CASE d = 0
      <4>1. g[1] = ss[1] /\ ss[1] \in T
        BY <2>3, <2>16, <3>1
      <4> QED
        BY <3>1, <4>1
    <3>2. CASE d # 0
      <4>1. d \in 1 .. N /\ (d + 1) - 1 = d /\ d + 1 # 1
        BY <3>2
      <4>2. g[d] \in T /\ ss[d + 1] \in T
        BY <2>3, <2>18, <4>1
      <4>3. g[d + 1] = g[d] \o ss[d + 1]
        BY <2>16, <4>1
      <4> QED
        BY <2>2, <4>2, <4>3
    <3> QED
      BY <3>1, <3>2
  <2> HIDE DEF S
  <2>19. N \in S
    BY <2>17, <2>18, Induct
  <2> QED
    BY <1>3, <2>1, <2>2, <2>14, <2>19 DEF S
<1> QED
  BY <1>2, <1>3

-----------------------------------------------------------------------------
(* The functions that draw keep the page, and leave the cursor where the   *)
(* position is.                                                            *)
LEMMA Layout ==
  /\ Columns \in Nat /\ Lines \in Nat /\ Columns >= 2 /\ Lines >= 8
  /\ OutputLine \in 0 .. Lines - 1 /\ PromptLine \in 0 .. Lines - 1
  /\ ErrorLine \in 0 .. Lines - 1 /\ StackLine \in 0 .. Lines - 1
  /\ StackLine + 1 \in 0 .. Lines - 1
  /\ 0 \in 0 .. Columns /\ 1 \in 0 .. Columns /\ 2 \in 0 .. Columns
  /\ Columns - 1 \in 0 .. Columns /\ BlockColumn \in 0 .. Columns
<1>1. Columns \in Nat /\ Lines \in Nat /\ Columns >= 2 /\ Lines >= 8 /\ BlockColumn \in 0 .. Columns
  BY Sizes, DisplayAssumption DEF DisplayAssumption
<1> QED
  BY <1>1 DEF OutputLine, PromptLine, ErrorLine, StackLine

LEMMA PlaceIsCell ==
  ASSUME NEW x \in 0 .. Columns, NEW y \in 0 .. Lines - 1
  PROVE  Address(x, y) \in Cell
  BY Layout, AddressIsCell

LEMMA PromptBlinks ==
  ASSUME NEW s, Sound(s)
  PROVE  Blinks(CommandPrompt(s))
<1>1. Sound(SetPosition(s, 2, PromptLine))
  BY Layout, SoundSetPosition
<1> QED
  BY <1>1, UpdatedBlinks DEF CommandPrompt

LEMMA EraseStackBlinks ==
  ASSUME NEW s, Sound(s)
  PROVE  Blinks(EraseStack(s))
<1>1. Address(0, StackLine) \in Cell /\ Address(0, StackLine + 1) \in Cell
  BY Layout, PlaceIsCell
<1>2. Sound(Filled(s, Address(0, StackLine), Address(0, StackLine + 1), Space))
  BY <1>1, SoundFilled
<1> QED
  BY <1>2, PromptBlinks DEF EraseStack

LEMMA PromptEraseBlinks ==
  ASSUME NEW s, Sound(s)
  PROVE  Blinks(CommandPromptErase(s))
<1>1. Address(1, PromptLine) \in Cell /\ Address(Columns - 1, ErrorLine) \in Cell
  BY Layout, PlaceIsCell
<1>2. Sound(Filled(s, Address(1, PromptLine), Address(Columns - 1, ErrorLine), Space))
  BY <1>1, SoundFilled
<1> QED
  BY <1>2, PromptBlinks DEF CommandPromptErase

LEMMA StackTextIsSeq ==
  ASSUME NEW st, Tuple(st), NEW hex
  PROVE  StackText(st, hex) \in Seq(Nat) /\ Len(StackText(st, hex)) > 0
<1>1. PICK n \in Nat : n = Len(st) /\ DOMAIN st = 1 .. n
  BY DEF Tuple
<1> DEFINE ss == [i \in DOMAIN st |-> Itoa(st[i], IF hex THEN 16 ELSE 10) \o <<Space>>]
<1>2. <<Space>> \in Seq(Nat) /\ <<StackLabel>> \in Seq(Nat) /\ Len(<<StackLabel>>) = 1
  BY DEF Space, StackLabel
<1>3. \A i \in 1 .. n : ss[i] \in Seq(Nat)
  <2> SUFFICES ASSUME NEW i \in 1 .. n PROVE ss[i] \in Seq(Nat)
    OBVIOUS
  <2>1. PICK t \in Seq(Nat) : t = Itoa(st[i], IF hex THEN 16 ELSE 10)
    BY ItoaIsSeq
  <2>2. ss[i] = t \o <<Space>>
    BY <1>1, <2>1
  <2>3. t \o <<Space>> \in Seq(Nat)
    BY <1>2, Longer
  <2> QED
    BY <2>2, <2>3
<1>4. PICK T : T = Seq(Nat)
  OBVIOUS
<1>5. PICK u : u = ss
  OBVIOUS
<1>6. u \in Seq(T)
  <2>1. u = [i \in 1 .. n |-> u[i]]
    BY <1>1, <1>5
  <2>2. \A i \in 1 .. n : u[i] \in T
    BY <1>3, <1>4, <1>5
  <2> QED
    BY <2>1, <2>2
<1>7. FlattenSeq(u) \in Seq(Nat)
  BY <1>4, <1>6, FlattenIsSeq
<1>8. PICK c \in Seq(Nat) : c = Itoa(Len(st), 10)
  BY ItoaIsSeq
<1>9. StackText(st, hex) = <<StackLabel>> \o c \o <<Space>> \o FlattenSeq(u)
  BY <1>5, <1>8 DEF StackText
<1>10. <<StackLabel>> \o c \in Seq(Nat) /\ Len(<<StackLabel>> \o c) > 0
  BY <1>2, Longer
<1>11. PICK w \in Seq(Nat) : w = <<StackLabel>> \o c /\ Len(w) > 0
  BY <1>10
<1>12. w \o <<Space>> \in Seq(Nat) /\ Len(w \o <<Space>>) > 0
  BY <1>2, <1>11, Longer
<1>13. PICK z \in Seq(Nat) : z = w \o <<Space>> /\ Len(z) > 0
  BY <1>12
<1>14. StackText(st, hex) = z \o FlattenSeq(u)
  BY <1>9, <1>11, <1>13
<1>15. z \o FlattenSeq(u) \in Seq(Nat) /\ Len(z \o FlattenSeq(u)) > 0
  BY <1>7, <1>13, Longer
<1> QED
  BY <1>14, <1>15

LEMMA DotSBlinks ==
  ASSUME NEW s, Sound(s), NEW st, Tuple(st), NEW hex
  PROVE  Blinks(DotS(s, st, hex))
<1> DEFINE r     == SetPosition(EraseStack(s), 0, ErrorLine)
           chars == <<Newline>> \o StackText(st, hex) \o <<Newline>>
<1>1. Sound(r)
  BY EraseStackBlinks, Layout, SoundSetPosition DEF Blinks
<1>2. PICK t \in Seq(Int) : t = StackText(st, hex)
  <2>1. PICK t \in Seq(Nat) : t = StackText(st, hex)
    BY StackTextIsSeq
  <2>2. t \in Seq(Int)
    OBVIOUS
  <2> QED
    BY <2>1, <2>2
<1>3. <<Newline>> \in Seq(Int) /\ Len(<<Newline>>) = 1
  BY DEF Newline
<1>4. chars \in Seq(Int) /\ Len(chars) > 0
  <2>1. <<Newline>> \o t \in Seq(Int) /\ Len(<<Newline>> \o t) > 0
    BY <1>3, Longer
  <2>2. PICK w \in Seq(Int) : w = <<Newline>> \o t /\ Len(w) > 0
    BY <2>1
  <2>3. w \o <<Newline>> \in Seq(Int) /\ Len(w \o <<Newline>>) > 0
    BY <1>3, <2>2, Longer
  <2>4. chars = w \o <<Newline>>
    BY <1>2, <2>2
  <2> QED
    BY <2>3, <2>4
<1>5. DotS(s, st, hex) = Write(r, chars)
  BY DEF DotS
<1>6. Tuple(chars)
  BY <1>4 DEF Tuple
<1> HIDE DEF r, chars
<1> QED
  BY <1>1, <1>4, <1>5, <1>6, WriteSound

LEMMA CommandPromptBlinks ==
  ASSUME NEW s, Sound(s), NEW st, Tuple(st), NEW hex
  PROVE  Blinks(DisplayCommandPrompt(s, st, hex))
<1>1. Sound(SetPosition(s, 0, PromptLine))
  BY Layout, SoundSetPosition
<1>2. Sound(Write(SetPosition(s, 0, PromptLine), <<PromptSign, Space>>))
  BY <1>1, TwoCharacters, WriteSound
<1> QED
  BY <1>2, DotSBlinks DEF DisplayCommandPrompt

LEMMA StatusBarBlinks ==
  ASSUME NEW s, Sound(s), NEW n
  PROVE  Blinks(StatusBar(s, n))
<1> DEFINE chars == <<BlockLabel>> \o Itoa(n, 10) \o <<Newline>>
<1>1. Sound(SetPosition(s, BlockColumn, StackLine))
  BY Layout, SoundSetPosition
<1>2. Tuple(chars)
  <2>1. Tuple(Itoa(n, 10))
    BY ItoaIsSeq DEF Tuple
  <2>2. Tuple(<<BlockLabel>> \o Itoa(n, 10))
    BY <2>1, OneCharacter, Joined
  <2> QED
    BY <2>2, OneCharacter, Joined
<1>3. Sound(Write(SetPosition(s, BlockColumn, StackLine), chars))
  BY <1>1, <1>2, WriteSound
<1>4. Sound(SetPosition(Write(SetPosition(s, BlockColumn, StackLine), chars), 0, 0))
  BY <1>3, Layout, SoundSetPosition
<1> QED
  BY <1>4, UpdatedBlinks DEF StatusBar

LEMMA DisplayWordSound ==
  ASSUME NEW s, Sound(s), NEW disk, NEW i
  PROVE  Sound(DisplayWord(s, disk, i))
<1> DEFINE c      == CellAt(disk, i)
           name   == Unpack(NameOf(c)) \o <<Space>>
           data   == PrintNumber(NumberOf(CellAt(disk, i + 1)), HexBit(c)) \o <<Space>>
           number == PrintNumber(c.cell \div 32, HexBit(c)) \o <<Space>>
<1>1. Tuple(name)
  BY UnpackIsTuple, OneCharacter, Joined
<1>2. \A v, h : Tuple(PrintNumber(v, h) \o <<Space>>)
  <2> TAKE v, h
  <2>1. Tuple(PrintNumber(v, h))
    BY PrintHexIsSeq, PrintDecIsSeq DEF Tuple, PrintNumber
  <2> QED
    BY <2>1, OneCharacter, Joined
<1>3. Tuple(data) /\ Tuple(number)
  BY <1>2
<1>4. Tuple(name \o data)
  BY <1>1, <1>3, Joined
<1>5. Sound(UpdateCursor(UpdatePosition(s, -1, 0)))
  BY SoundUpdatePosition, SoundCursor
<1>6. DisplayWord(s, disk, i) \in
        {Write(UpdateCursor(UpdatePosition(s, -1, 0)), name), Write(s, data), Write(s, number),
         Write(s, name \o data), s, Write(s, <<Newline>>), Write(s, name)}
  BY DEF DisplayWord
<1> HIDE DEF c, name, data, number
<1> QED
  BY <1>1, <1>3, <1>4, <1>5, <1>6, OneCharacter, WriteSound

(* A round of the loop of display_block(). *)
Round(r, disk, n) ==
  IF r.index >= (n + 1) * BlockCells THEN r
  ELSE [index |-> r.index + (IF CellAt(disk, r.index).color \in {2, 5, 12} THEN 2 ELSE 1),
        page |-> DisplayWord(r.page, disk, r.index)]

First(n) == [index |-> n * BlockCells, page |-> Clear]

(* f goes from round to round. *)
Rounds(f, disk, n, N) ==
  f[0] = First(n) /\ \A i \in 1 .. N : f[i] = Round(f[i - 1], disk, n)

LEMMA RoundsIs ==
  ASSUME NEW disk, NEW n
  PROVE  \E f : BlockWords(disk, n) = f[BlockCells].page /\ Rounds(f, disk, n, BlockCells)
<1> DEFINE rounds[k \in 0 .. BlockCells] ==
             IF k = 0 THEN First(n) ELSE Round(rounds[k - 1], disk, n)
<1>1. BlockWords(disk, n) = rounds[BlockCells].page
  BY DEF BlockWords, First, Round
<1>2. PICK N \in Nat : N = BlockCells
  BY WordsAssumption DEF WordsAssumption
<1> DEFINE S == {d \in Nat : d <= N => \E f : f = [i \in 0 .. N |-> f[i]] /\ Rounds(f, disk, n, d)}
<1>3. 0 \in S
  <2>1. PICK f : f = [i \in 0 .. N |-> First(n)]
    OBVIOUS
  <2>2. f = [i \in 0 .. N |-> f[i]] /\ f[0] = First(n)
    BY <2>1
  <2>3. Rounds(f, disk, n, 0)
    BY <2>2 DEF Rounds
  <2> QED
    BY <2>2, <2>3
<1>4. ASSUME NEW d \in Nat, d \in S PROVE d + 1 \in S
  <2> SUFFICES ASSUME d + 1 <= N
               PROVE  \E g : g = [i \in 0 .. N |-> g[i]] /\ Rounds(g, disk, n, d + 1)
    OBVIOUS
  <2>1. PICK f : f = [i \in 0 .. N |-> f[i]] /\ Rounds(f, disk, n, d)
    BY <1>4
  <2>2. PICK e : e = d + 1
    OBVIOUS
  <2>3. PICK v : v = Round(f[d], disk, n)
    OBVIOUS
  <2>4. PICK g : g = [f EXCEPT ![e] = v]
    OBVIOUS
  <2>5. /\ g = [i \in 0 .. N |-> g[i]] /\ g[e] = v
        /\ \A i \in 0 .. N : i # e => g[i] = f[i]
    BY <2>1, <2>2, <2>4
  <2>6. ASSUME NEW i \in 1 .. e PROVE g[i] = Round(g[i - 1], disk, n)
    <3>1. i - 1 \in 0 .. N /\ i - 1 # e /\ g[i - 1] = f[i - 1]
      BY <2>2, <2>5
    <3>2. CASE i = e
      <4>1. i - 1 = d
        BY <2>2, <3>2
      <4> QED
        BY <2>3, <2>5, <3>1, <3>2, <4>1
    <3>3. CASE i # e
      <4>1. i \in 1 .. d /\ g[i] = f[i]
        BY <2>2, <2>5, <3>3
      <4> QED
        BY <2>1, <3>1, <4>1 DEF Rounds
    <3> QED
      BY <3>2, <3>3
  <2>7. g[0] = First(n)
    BY <2>1, <2>2, <2>5 DEF Rounds
  <2>8. Rounds(g, disk, n, d + 1)
    BY <2>2, <2>6, <2>7 DEF Rounds
  <2> QED
    BY <2>5, <2>8
<1> HIDE DEF S
<1>5. PICK f : f = [i \in 0 .. N |-> f[i]] /\ Rounds(f, disk, n, N)
  <2>1. N \in S
    BY <1>3, <1>4, Induct
  <2> QED
    BY <2>1 DEF S
<1>6. rounds = [k \in 0 .. BlockCells |-> IF k = 0 THEN First(n) ELSE Round(rounds[k - 1], disk, n)]
  <2> DEFINE is(g) == g = [k \in 0 .. BlockCells |->
                             IF k = 0 THEN First(n) ELSE Round(g[k - 1], disk, n)]
  <2>1. ASSUME NEW i \in 0 .. N
        PROVE  f[i] = IF i = 0 THEN First(n) ELSE Round(f[i - 1], disk, n)
    <3>1. i = 0 \/ i \in 1 .. N
      OBVIOUS
    <3> QED
      BY <1>5, <3>1 DEF Rounds
  <2>2. is(f)
    BY <1>2, <1>5, <2>1
  <2>3. rounds = CHOOSE g : is(g)
    OBVIOUS
  <2> QED
    BY <2>2, <2>3
<1>7. PICK g : g = rounds
  OBVIOUS
<1> HIDE DEF rounds
<1>8. ASSUME NEW i \in 0 .. N
      PROVE  g[i] = IF i = 0 THEN First(n) ELSE Round(g[i - 1], disk, n)
  BY <1>2, <1>6, <1>7
<1>9. Rounds(g, disk, n, N)
  <2>1. \A i \in 1 .. N : i \in 0 .. N /\ i # 0
    OBVIOUS
  <2>2. 0 \in 0 .. N
    OBVIOUS
  <2> QED
    BY <1>8, <2>1, <2>2 DEF Rounds
<1> QED
  BY <1>1, <1>2, <1>7, <1>9

LEMMA BlockWordsSound ==
  ASSUME NEW disk, NEW n
  PROVE  Sound(BlockWords(disk, n))
<1>1. PICK N \in Nat : N = BlockCells
  BY WordsAssumption DEF WordsAssumption
<1>2. PICK f : BlockWords(disk, n) = f[N].page /\ Rounds(f, disk, n, N)
  BY <1>1, RoundsIs
<1> DEFINE S == {d \in Nat : d <= N => Sound(f[d].page)}
<1>3. 0 \in S
  <2>1. f[0].page = Clear
    BY <1>2 DEF Rounds, First
  <2> QED
    BY <2>1, SoundClear
<1>4. ASSUME NEW d \in Nat, d \in S PROVE d + 1 \in S
  <2> SUFFICES ASSUME d + 1 <= N PROVE Sound(f[d + 1].page)
    OBVIOUS
  <2>1. d + 1 \in 1 .. N /\ (d + 1) - 1 = d /\ Sound(f[d].page)
    BY <1>4
  <2>2. f[d + 1] = Round(f[d], disk, n)
    BY <1>2, <2>1 DEF Rounds
  <2>3. Round(f[d], disk, n).page \in {f[d].page, DisplayWord(f[d].page, disk, f[d].index)}
    BY DEF Round
  <2> QED
    BY <2>1, <2>2, <2>3, DisplayWordSound
<1> HIDE DEF S
<1>5. N \in S
  BY <1>3, <1>4, Induct
<1> QED
  BY <1>2, <1>5 DEF S

LEMMA DisplayBlockBlinks ==
  ASSUME NEW disk, NEW n, NEW st, Tuple(st), NEW hex
  PROVE  Blinks(DisplayBlock(disk, n, st, hex))
<1>1. Sound(DisplayCommandPrompt(BlockWords(disk, n), st, hex))
  BY BlockWordsSound, CommandPromptBlinks DEF Blinks
<1> QED
  BY <1>1, StatusBarBlinks DEF DisplayBlock

-----------------------------------------------------------------------------
(* The data stack is a sequence: all that drawing it depends on.           *)
LEMMA BecomesTuple ==
  ASSUME Tuple(stack), NEW v, NEW calls, NEW m \in Nat
  PROVE  /\ Becomes(stack, calls) => Tuple(stack')
         /\ Becomes(Append(stack, v), calls) => Tuple(stack')
         /\ Pops(m) /\ Becomes(Dropped(m), calls) => Tuple(stack')
         /\ Pops(m) /\ Becomes(Append(Dropped(m), v), calls) => Tuple(stack')
         /\ Breaks => Tuple(stack')
<1>1. PICK V : stack \in Seq(V)
  BY DEF Tuple
<1>2. PICK W : W = V \cup {v}
  OBVIOUS
<1>3. v \in W /\ stack \in Seq(W)
  BY <1>1, <1>2, LargerSeq
<1>4. Append(stack, v) \in Seq(W)
  BY <1>3
<1>5. Pops(m) => Dropped(m) \in Seq(W)
  BY <1>3 DEF Pops, Dropped
<1>6. Pops(m) => Append(Dropped(m), v) \in Seq(W)
  BY <1>3, <1>5
<1> QED
  BY <1>3, <1>4, <1>5, <1>6 DEF Tuple, Becomes, Breaks

LEMMA DispatchTuple ==
  ASSUME Tuple(stack), NEW c, NEW calls, Dispatch(c, calls)
  PROVE  Tuple(stack')
<1>1. 1 \in Nat /\ 2 \in Nat
  OBVIOUS
<1>2. ASSUME NEW d, Push(d, calls) PROVE Tuple(stack')
  BY <1>1, <1>2, BecomesTuple DEF Push
<1>3. ASSUME NEW code, Execute(code, calls) PROVE Tuple(stack')
  <2>1. CASE Becomes(stack, calls)
    BY <1>1, <2>1, BecomesTuple
  <2>2. CASE Load(calls)
    BY <1>1, <2>2, BecomesTuple DEF Load
  <2>3. CASE Loads(calls)
    BY <1>1, <2>3, BecomesTuple DEF Loads
  <2>4. CASE Dot(calls)
    BY <1>1, <2>4, BecomesTuple DEF Dot
  <2>5. CASE Add(calls)
    BY <1>1, <2>5, BecomesTuple DEF Add
  <2>6. CASE Divide(calls)
    BY <1>1, <2>6, BecomesTuple DEF Divide, Divides
  <2> QED
    BY <1>3, <2>1, <2>2, <2>3, <2>4, <2>5, <2>6 DEF Execute
<1>4. CASE Becomes(stack, calls)
  BY <1>1, <1>4, BecomesTuple
<1> QED
  BY <1>2, <1>3, <1>4 DEF Dispatch

LEMMA InterpretTuple ==
  ASSUME Tuple(stack), Interpret
  PROVE  Tuple(stack')
<1>1. CASE RunCell
  BY <1>1, DispatchTuple DEF RunCell
<1>2. CASE RunDone \/ LoadNext \/ LoadsDone
  <2>1. stack' = stack
    BY <1>2 DEF RunDone, LoadNext, LoadsDone, Becomes, Breaks
  <2> QED
    BY <2>1
<1> QED
  BY <1>1, <1>2 DEF Interpret

LEMMA CommandTuple ==
  ASSUME Tuple(stack), Command
  PROVE  Tuple(stack')
<1>1. CASE Breaks \/ UNCHANGED forthVars
  <2>1. stack' = stack
    BY <1>1 DEF Breaks, forthVars
  <2> QED
    BY <2>1
<1> QED
  BY <1>1, DispatchTuple DEF Command

-----------------------------------------------------------------------------
(* The invariant of what is drawn. *)
DrawInv == Tuple(stack) /\ Sound(screen) /\ (booted /\ Waiting => Blinks(screen))

LEMMA AnsweredDrawn ==
  ASSUME NEW s, Sound(s), Tuple(stack'), screen' = Answered(s)
  PROVE  Sound(screen') /\ (Waiting' => Blinks(screen'))
<1>1. Blinks(CommandPrompt(DotS(s, stack', isHex)))
  BY DotSBlinks, PromptBlinks DEF Blinks
<1>2. CASE frames' = <<>> /\ ~broken'
  <2>1. screen' = CommandPrompt(DotS(s, stack', isHex))
    BY <1>2 DEF Answered
  <2> QED
    BY <1>1, <2>1 DEF Blinks
<1>3. CASE ~(frames' = <<>> /\ ~broken')
  <2>1. screen' = s /\ ~Waiting'
    BY <1>3 DEF Answered, Waiting
  <2> QED
    BY <2>1
<1> QED
  BY <1>2, <1>3

LEMMA SaidIsTuple ==
  ASSUME NEW c
  PROVE  Tuple(Said(c))
<1>1. \A v : Tuple(Itoa(v, 10))
  BY ItoaIsSeq DEF Tuple
<1>2. Tuple(Itoa(FromTop(0), 10) \o <<Space>>)
  BY <1>1, OneCharacter, Joined
<1> QED
  BY <1>2, NoCharacters DEF Said

LEMMA CommandKeyDraws ==
  ASSUME DrawInv, booted, CommandKey
  PROVE  Sound(screen') /\ (Waiting' => Blinks(screen')) /\ Tuple(stack')
<1> DEFINE erased == CommandPromptErase(screen)
           output == SetPosition(erased, 0, OutputLine)
           error  == Write(SetPosition(output, 0, ErrorLine), <<ErrorText>>)
<1>1. Command /\ Tuple(stack) /\ Sound(screen) /\ Blinks(screen)
  BY DEF CommandKey, Command, Waiting, DrawInv
<1>2. Tuple(stack')
  BY <1>1, CommandTuple
<1>3. Sound(erased)
  BY <1>1, PromptEraseBlinks DEF Blinks
<1>4. Sound(output)
  BY <1>3, Layout, SoundSetPosition
<1>5. Sound(error)
  <2>1. Sound(SetPosition(output, 0, ErrorLine))
    BY <1>4, Layout, SoundSetPosition
  <2> QED
    BY <2>1, OneCharacter, WriteSound
<1>6. Sound(Write(output, Said(Word(Pack(word)))))
  BY <1>4, SaidIsTuple, WriteSound
<1>7. screen' = IF NoLetter \in Range(word) THEN screen
                ELSE IF IsNumber(word) THEN Answered(erased)
                ELSE IF Lookup(Pack(word)) = "none" THEN CommandPrompt(error)
                ELSE Answered(Write(output, Said(Word(Pack(word)))))
  BY DEF CommandKey
<1> HIDE DEF erased, output, error
<1>8. CASE screen' = screen
  BY <1>1, <1>2, <1>8 DEF Blinks
<1>9. CASE screen' = Answered(erased)
  BY <1>2, <1>3, <1>9, AnsweredDrawn
<1>10. CASE screen' = CommandPrompt(error)
  BY <1>2, <1>5, <1>10, PromptBlinks DEF Blinks
<1>11. CASE screen' = Answered(Write(output, Said(Word(Pack(word)))))
  BY <1>2, <1>6, <1>11, AnsweredDrawn
<1> QED
  BY <1>7, <1>8, <1>9, <1>10, <1>11

LEMMA RunStepDraws ==
  ASSUME DrawInv, RunStep
  PROVE  Sound(screen') /\ (Waiting' => Blinks(screen')) /\ Tuple(stack')
<1>1. Interpret /\ Tuple(stack) /\ Sound(screen)
  BY DEF RunStep, Go, DrawInv
<1>2. Tuple(stack')
  BY <1>1, InterpretTuple
<1>3. PICK said : Tuple(said) /\ screen' = Answered(Write(screen, said))
  <2> DEFINE f == Last(frames)
             said == IF f.kind = "run" /\ f.to < BlockCells THEN Said(blocks[f.at][f.to]) ELSE <<>>
  <2>1. Tuple(said)
    BY SaidIsTuple, NoCharacters
  <2>2. screen' = Answered(Write(screen, said))
    BY DEF RunStep
  <2> HIDE DEF said
  <2> QED
    BY <2>1, <2>2
<1>4. Sound(Write(screen, said))
  BY <1>1, <1>3, WriteSound
<1> QED
  BY <1>2, <1>3, <1>4, AnsweredDrawn

-----------------------------------------------------------------------------
(* The letters of a word are in front of the position. *)
InFront(s, w) ==
  w # <<>> => /\ s.x < Columns /\ Address(s.x, s.y) >= Len(w)
              /\ \A i \in 1 .. Len(w) : s.text[Address(s.x, s.y) - Len(w) + i - 1] = w[i]

(* A step of InPage() to one line more is a step of the text up. *)
LEMMA InPageShifts ==
  ASSUME NEW s, Shaped(s), s.y <= Lines, s.x < Columns, s.y = Lines => s.x = 0
  PROVE  /\ InPage(s).led = s.led /\ InPage(s).x = s.x
         /\ s.y < Lines => InPage(s) = s
         /\ s.y = Lines => /\ InPage(s).y = Lines - 1
                           /\ \A i \in 0 .. Columns * Lines - 1 :
                                i + Columns \in 0 .. Columns * Lines - 1 =>
                                  InPage(s).text[i] = s.text[i + Columns]
<1>1. s.x \in Nat /\ s.y \in Nat
  BY DEF Shaped
<1>2. CASE s.y < Lines
  <2>1. InPage(s) = s
    BY <1>1, <1>2, Sizes DEF InPage
  <2> QED
    BY <1>1, <1>2, <2>1, Sizes
<1>3. CASE s.y = Lines
  <2> DEFINE page == 0 .. Columns * Lines - 1
             text == [i \in Cell |-> IF i \notin page THEN s.text[i]
                        ELSE IF i + 1 * Columns \in page
                             THEN s.text[i + 1 * Columns] ELSE Space]
             v    == Lines - 1
             r    == [s EXCEPT !.y = v]
             m    == [r EXCEPT !.text = text]
  <2>1. s.y > Lines - 1 /\ s.y - (Lines - 1) = 1 /\ s.y - 1 = Lines - 1
    BY <1>3, Sizes
  <2>2. InPage(s) = UpdateCursor(m)
    BY <2>1 DEF InPage, ScrollUp
  <2>3. \A i \in page : i + Columns \in page => text[i] = s.text[i + Columns]
    <3> SUFFICES ASSUME NEW i \in page, i + Columns \in page
                 PROVE  text[i] = s.text[i + Columns]
      OBVIOUS
    <3>1. 1 * Columns = Columns
      BY Sizes
    <3>2. Columns * Lines \in Int
      BY Sizes
    <3>3. i \in Cell
      BY <3>2 DEF Cell
    <3> QED
      BY <3>1, <3>3
  <2>4. text = [i \in Cell |-> text[i]] /\ v \in Nat
    BY Sizes
  <2> HIDE DEF page, text, v
  <2>5. r = [text |-> s.text, x |-> s.x, y |-> v, hw |-> s.hw, led |-> s.led, off |-> s.off]
    BY Fields
  <2>6. Shaped(r)
    BY <2>4, <2>5 DEF Shaped
  <2> HIDE DEF r
  <2>7. m = [text |-> text, x |-> r.x, y |-> r.y, hw |-> r.hw, led |-> r.led, off |-> r.off]
    BY <2>6, Fields
  <2>8. Shaped(m) /\ m.text = text /\ m.x = s.x /\ m.y = v /\ m.led = s.led
    BY <2>4, <2>5, <2>6, <2>7 DEF Shaped
  <2> HIDE DEF m
  <2>9. UpdateCursor(m) = [text |-> m.text, x |-> m.x, y |-> m.y, hw |-> Address(m.x, m.y), led |-> m.led, off |-> m.off]
    BY <2>8, Fields DEF UpdateCursor
  <2>10. InPage(s).text = text /\ InPage(s).x = s.x /\ InPage(s).y = Lines - 1 /\ InPage(s).led = s.led
    BY <2>2, <2>8, <2>9 DEF v
  <2> QED
    BY <1>3, <2>3, <2>10, Sizes DEF page
<1> QED
  BY <1>1, <1>2, <1>3, Sizes

LEMMA InPageLed ==
  ASSUME NEW s, Shaped(s)
  PROVE  InPage(s).led = s.led
<1>1. CASE s.y > Lines - 1
  <2> DEFINE n    == s.y - (Lines - 1)
             page == 0 .. Columns * Lines - 1
             text == [i \in Cell |-> IF i \notin page THEN s.text[i]
                        ELSE IF i + n * Columns \in page
                             THEN s.text[i + n * Columns] ELSE Space]
             v    == s.y - n
             r    == [s EXCEPT !.y = v]
             m    == [r EXCEPT !.text = text]
  <2>1. InPage(s) = UpdateCursor(m)
    BY <1>1 DEF InPage, ScrollUp
  <2>2. text = [i \in Cell |-> text[i]]
    OBVIOUS
  <2>3. v = Lines - 1
    BY Sizes DEF Shaped
  <2> HIDE DEF n, text, v
  <2>4. r = [text |-> s.text, x |-> s.x, y |-> v, hw |-> s.hw, led |-> s.led, off |-> s.off]
    BY Fields
  <2>5. Shaped(r)
    BY <2>3, <2>4, Sizes DEF Shaped
  <2> HIDE DEF r
  <2>6. m = [text |-> text, x |-> r.x, y |-> r.y, hw |-> r.hw, led |-> r.led, off |-> r.off]
    BY <2>5, Fields
  <2>7. Shaped(m) /\ m.led = s.led
    BY <2>2, <2>4, <2>5, <2>6 DEF Shaped
  <2> HIDE DEF m
  <2>8. UpdateCursor(m).led = m.led
    BY <2>7, Fields DEF UpdateCursor
  <2> QED
    BY <2>1, <2>7, <2>8
<1>2. CASE ~(s.y > Lines - 1)
  BY <1>2 DEF InPage
<1> QED
  BY <1>1, <1>2

(* Where the position goes after a letter, before the page is scrolled. *)
LEMMA ToRightIs ==
  ASSUME NEW s, Sound(s)
  PROVE  /\ Shaped(ToRight(s)) /\ ToRight(s).led = s.led /\ ToRight(s).text = s.text
         /\ s.led = 0 /\ s.x < Columns =>
              \/ /\ s.x + 1 < Columns
                 /\ ToRight(s).x = s.x + 1 /\ ToRight(s).y = s.y
              \/ /\ s.x + 1 = Columns
                 /\ ToRight(s).x = 0 /\ ToRight(s).y = s.y + 1
<1> DEFINE v     == (s.x + 1) % Byte
           right == [s EXCEPT !.x = v]
           w     == (s.y + 1) % Byte
           left  == [s EXCEPT !.x = 0]
           down  == [left EXCEPT !.y = w]
<1>1. Shaped(s) /\ (s.led = 0 => s.x <= Columns /\ s.y < Lines) /\ s.x \in Nat /\ s.y \in Nat
  BY DEF Sound, Kept, OnScreen, Shaped
<1>2. v \in Nat /\ w \in Nat
  BY <1>1, ModuloIsNat
<1>3. /\ s.led = 0 => w = s.y + 1
      /\ s.led = 0 /\ s.x < Columns => v = s.x + 1
  BY <1>1, Sizes
<1>4. ToRight(s) = IF right.x > Columns - 1 THEN NextLine(s) ELSE right
  BY DEF ToRight
<1>5. NextLine(s) = down
  BY DEF NextLine
<1> HIDE DEF v, w
<1>6. right = [text |-> s.text, x |-> v, y |-> s.y, hw |-> s.hw, led |-> s.led, off |-> s.off]
  BY <1>1, Fields
<1>7. left = [text |-> s.text, x |-> 0, y |-> s.y, hw |-> s.hw, led |-> s.led, off |-> s.off]
  BY <1>1, Fields
<1>8. Shaped(left)
  BY <1>1, <1>7 DEF Shaped
<1> HIDE DEF left
<1>9. down = [text |-> left.text, x |-> left.x, y |-> w, hw |-> left.hw, led |-> left.led, off |-> left.off]
  BY <1>8, Fields
<1>10. down = [text |-> s.text, x |-> 0, y |-> w, hw |-> s.hw, led |-> s.led, off |-> s.off]
  BY <1>7, <1>9
<1> HIDE DEF right, down
<1>11. Shaped(right) /\ Shaped(down)
  BY <1>1, <1>2, <1>6, <1>10 DEF Shaped
<1>12. CASE v > Columns - 1
  <2>1. ToRight(s) = down
    BY <1>4, <1>5, <1>6, <1>12
  <2> QED
    BY <1>1, <1>2, <1>3, <1>10, <1>11, <1>12, <2>1, Sizes
<1>13. CASE ~(v > Columns - 1)
  <2>1. ToRight(s) = right
    BY <1>4, <1>6, <1>13
  <2> QED
    BY <1>1, <1>2, <1>3, <1>6, <1>11, <1>13, <2>1, Sizes
<1> QED
  BY <1>12, <1>13

LEMMA LetterShown ==
  ASSUME NEW s, NEW c \in Nat
  PROVE  DisplayCharacter(s, c) = UpdateCursor(InPage(ToRight(Store(s, c))))
<1>1. c # Newline /\ c # Backspace /\ c # Tab
  BY DEF Newline, Backspace, Tab
<1> QED
  BY <1>1 DEF DisplayCharacter

LEMMA UpdatedFields ==
  ASSUME NEW s, Shaped(s)
  PROVE  /\ UpdateCursor(s).text = s.text /\ UpdateCursor(s).x = s.x
         /\ UpdateCursor(s).y = s.y /\ UpdateCursor(s).led = s.led
  BY Fields DEF UpdateCursor

LEMMA LetterLed ==
  ASSUME NEW s, Sound(s), NEW c \in Nat
  PROVE  DisplayCharacter(s, c).led = s.led
<1>1. PICK r : r = Store(s, c) /\ Sound(r) /\ r.led = s.led
  BY SoundStore
<1>2. PICK m : m = InPage(ToRight(r)) /\ m.led = s.led
  BY <1>1, ToRightIs, InPageLed
<1>3. Shaped(m)
  BY <1>1, <1>2, SoundToRight DEF Sound
<1> QED
  BY <1>1, <1>2, <1>3, LetterShown, UpdatedFields

(* The cells of a line follow each other, and the lines do. *)
LEMMA NextPlace ==
  ASSUME NEW x \in Nat, NEW y \in Nat, x < Columns, y < Lines
  PROVE  /\ Address(x, y) \in Nat /\ Address(x, y) \in 0 .. Columns * Lines - 1
         /\ Address(x, y) \in Cell
         /\ x + 1 < Columns => Address(x + 1, y) = Address(x, y) + 1
         /\ x + 1 = Columns => Address(0, y + 1) = Address(x, y) + 1
         /\ Address(0, Lines - 1) = Columns * Lines - Columns
         /\ Address(0, Lines) = Columns * Lines
<1>1. PICK C \in Nat, L \in Nat : C = Columns /\ L = Lines
  BY Sizes
<1>2. PICK d \in Nat : L = y + 1 + d
  <2>1. L - 1 - y \in Nat /\ L = y + 1 + (L - 1 - y)
    BY <1>1
  <2> QED
    BY <2>1
<1>3. C * L = C * y + C + C * d /\ C * d \in Nat /\ C * y \in Nat
  BY <1>2
<1>4. C * (y + 1) = C * y + C /\ C * (L - 1) = C * L - C
  OBVIOUS
<1>5. Address(x, y) = x + C * y /\ Address(x + 1, y) = x + 1 + C * y
      /\ Address(0, y + 1) = 0 + C * (y + 1) /\ Address(0, Lines - 1) = 0 + C * (L - 1)
      /\ Address(0, Lines) = 0 + C * L
  BY <1>1 DEF Address
<1> QED
  BY <1>1, <1>3, <1>4, <1>5 DEF Cell

(* A letter that is typed behind a word is in front of the position then,  *)
(* and the word before it, whether the line goes on, ends or is scrolled.  *)
LEMMA LetterFollows ==
  ASSUME NEW s, Sound(s), s.led = 0, s.x < Columns,
         NEW w \in Seq(Int), Len(w) < 31, InFront(s, w), NEW c \in Nat
  PROVE  InFront(DisplayCharacter(s, c), Append(w, c))
<1> DEFINE page == 0 .. Columns * Lines - 1
<1>0. PICK a : a = Address(s.x, s.y)
  OBVIOUS
<1>1. Shaped(s) /\ s.x \in Nat /\ s.y \in Nat /\ s.y < Lines /\ s.text = [i \in Cell |-> s.text[i]]
  BY DEF Sound, Shaped, Kept, OnScreen
<1>2. Columns \in Nat /\ Lines \in Nat /\ Columns >= 2 /\ Lines >= 8 /\ Columns * (Lines - 1) >= 32
  BY Layout, DisplayAssumption DEF DisplayAssumption
<1>3. Columns * Lines \in Nat /\ Columns * s.y \in Nat /\ Columns * (Lines - 1) = Columns * Lines - Columns
  BY <1>1, <1>2
<1>4. a \in page /\ a \in Cell /\ a \in Nat
  BY <1>0, <1>1, NextPlace
<1>5. PICK r : /\ r = Store(s, c) /\ Sound(r) /\ r.x = s.x /\ r.y = s.y /\ r.led = 0
               /\ r.text[a] = c /\ \A i \in Cell : i # a => r.text[i] = s.text[i]
  <2>1. Store(s, c) = [s EXCEPT !.text = [s.text EXCEPT ![a] = c]]
    BY <1>0, <1>4 DEF Store, Stored
  <2>2. PICK text : text = [s.text EXCEPT ![a] = c]
    OBVIOUS
  <2>3. text[a] = c /\ \A i \in Cell : i # a => text[i] = s.text[i]
    BY <1>1, <1>4, <2>2
  <2>4. PICK r : r = Store(s, c)
    OBVIOUS
  <2>5. r.text = text
    BY <1>1, <2>1, <2>2, <2>4, Fields
  <2>6. Sound(r) /\ r.x = s.x /\ r.y = s.y /\ r.led = 0
    BY <2>4, SoundStore
  <2> QED
    BY <2>3, <2>4, <2>5, <2>6
<1>6. PICK q : /\ q = ToRight(r) /\ Shaped(q) /\ q.led = 0 /\ q.text = r.text
               /\ \/ s.x + 1 < Columns /\ q.x = s.x + 1 /\ q.y = s.y
                  \/ s.x + 1 = Columns /\ q.x = 0 /\ q.y = s.y + 1
  BY <1>5, ToRightIs
<1>7. Address(q.x, q.y) = a + 1 /\ q.x \in Nat /\ q.y \in Nat /\ q.x < Columns
      /\ q.y <= Lines /\ (q.y = Lines => q.x = 0)
  <2>1. /\ s.x + 1 < Columns => Address(s.x + 1, s.y) = a + 1
        /\ s.x + 1 = Columns => Address(0, s.y + 1) = a + 1
    BY <1>0, <1>1, NextPlace
  <2>2. Address(q.x, q.y) = a + 1
    BY <1>6, <2>1
  <2> QED
    BY <1>1, <1>2, <1>6, <2>2
<1>8. /\ InPage(q).led = q.led /\ InPage(q).x = q.x
      /\ q.y < Lines => InPage(q) = q
      /\ q.y = Lines => /\ InPage(q).y = Lines - 1
                        /\ \A i \in page : i + Columns \in page => InPage(q).text[i] = q.text[i + Columns]
  BY <1>6, <1>7, InPageShifts
<1>9. PICK p : p = InPage(q) /\ Shaped(p)
  BY <1>5, <1>6, SoundToRight DEF Sound
<1>10. PICK d \in {0, Columns} :
         /\ Address(p.x, p.y) = a + 1 - d
         /\ d = 0 \/ a + 1 - d >= 32
         /\ \A i \in page : i + d \in page => p.text[i] = q.text[i + d]
  <2>1. CASE q.y < Lines
    <3>1. p = q
      BY <1>8, <1>9, <2>1
    <3>2. Address(p.x, p.y) = a + 1 - 0
      BY <1>4, <1>7, <3>1
    <3>3. \A i \in page : p.text[i] = q.text[i + 0]
      BY <3>1
    <3> QED
      BY <3>2, <3>3
  <2>2. CASE q.y = Lines
    <3>1. p.x = 0 /\ p.y = Lines - 1 /\ q.x = 0
      BY <1>7, <1>8, <1>9, <2>2
    <3>2. Address(p.x, p.y) = Columns * Lines - Columns /\ a + 1 = Columns * Lines
      <4>1. Address(0, Lines - 1) = Columns * Lines - Columns /\ Address(0, Lines) = Columns * Lines
        BY <1>1, NextPlace
      <4> QED
        BY <1>7, <2>2, <3>1, <4>1
    <3>3. \A i \in page : i + Columns \in page => p.text[i] = q.text[i + Columns]
      BY <1>8, <1>9, <2>2
    <3>4. Address(p.x, p.y) = a + 1 - Columns /\ a + 1 - Columns >= 32
      BY <1>2, <1>3, <1>4, <3>2
    <3> QED
      BY <3>3, <3>4
  <2>3. q.y < Lines \/ q.y = Lines
    BY <1>2, <1>7
  <2> QED
    BY <2>1, <2>2, <2>3
<1>11. PICK n \in Nat : n = Len(w) /\ n < 31
  OBVIOUS
<1>12. PICK u : u = Append(w, c)
  OBVIOUS
<1>13. Len(u) = n + 1 /\ u[n + 1] = c /\ \A i \in 1 .. n : u[i] = w[i]
  BY <1>11, <1>12
<1>14. a >= n /\ \A i \in 1 .. n : s.text[a - n + i - 1] = w[i]
  <2>1. CASE w = <<>>
    <3>1. n = 0
      BY <1>11, <2>1
    <3> QED
      BY <1>4, <3>1
  <2>2. CASE w # <<>>
    BY <1>0, <1>11, <2>2 DEF InFront
  <2> QED
    BY <2>1, <2>2
<1>15. PICK b \in Int : b = a + 1 - d /\ d \in Int /\ a \in Int
  BY <1>2, <1>3, <1>4
<1>16. b >= n + 1
  BY <1>4, <1>10, <1>11, <1>14, <1>15
<1>17. ASSUME NEW i \in 1 .. n + 1
       PROVE  p.text[b - (n + 1) + i - 1] = u[i]
  <2>1. PICK j \in Int : j = b - (n + 1) + i - 1
    BY <1>15
  <2>2. j + d = a - n + i - 1 /\ j >= 0 /\ j + d <= a /\ (j + d = a <=> i = n + 1)
    BY <1>2, <1>4, <1>10, <1>15, <1>16, <2>1
  <2>3. j \in page /\ j + d \in page /\ j + d \in Cell
    BY <1>2, <1>3, <1>4, <2>2 DEF Cell
  <2>4. p.text[j] = r.text[j + d]
    BY <1>6, <1>10, <2>3
  <2>5. CASE i = n + 1
    BY <1>5, <1>13, <2>1, <2>2, <2>4, <2>5
  <2>6. CASE i # n + 1
    <3>1. i \in 1 .. n /\ j + d # a
      BY <2>2, <2>6
    <3>2. r.text[j + d] = s.text[j + d] /\ s.text[j + d] = w[i]
      BY <1>5, <1>14, <2>2, <2>3, <3>1
    <3> QED
      BY <1>13, <2>1, <2>4, <3>1, <3>2
  <2> QED
    BY <2>5, <2>6
<1>18. p.x < Columns
  BY <1>7, <1>8, <1>9
<1>19. DisplayCharacter(s, c) = UpdateCursor(p)
  BY <1>5, <1>6, <1>9, LetterShown
<1>20. PICK z : z = UpdateCursor(p) /\ z.text = p.text /\ z.x = p.x /\ z.y = p.y
  BY <1>9, UpdatedFields
<1>21. Address(z.x, z.y) = b
  BY <1>10, <1>15, <1>20
<1> HIDE DEF page
<1>22. InFront(z, u)
  BY <1>13, <1>16, <1>17, <1>18, <1>20, <1>21 DEF InFront
<1> QED
  BY <1>12, <1>19, <1>20, <1>22

-----------------------------------------------------------------------------
(* The keys other than the space of a command, and the boot. *)

PlainKey ==
  \/ \E c \in {Newline, Backspace, Tab, NoLetter} : ControlKey(c)
  \/ \E dx, dy \in {-1, 0, 1} : dx * dy = 0 /\ dx # dy /\ ArrowKey(dx, dy)
  \/ \E w \in Vocabulary : LetterKey(w)
  \/ \E k \in ColorLetter : ColorKey(k)
  \/ BlankKey \/ EscapeKey \/ LeaveKey \/ F1Key \/ F2Key \/ NoPageKey \/ PageKey

LEMMA PlainKeyDraws ==
  ASSUME DrawInv, booted, PlainKey
  PROVE  Blinks(screen') /\ stack' = stack
<1>1. Tuple(stack) /\ Sound(screen)
  BY DEF DrawInv
<1>2. Waiting => Blinks(screen)
  BY DEF DrawInv
<1>3. CASE \E c \in {Newline, Backspace, Tab, NoLetter} : ControlKey(c)
  <2>1. PICK c : ControlKey(c)
    BY <1>3
  <2>2. screen' = DisplayCharacter(screen, c) /\ stack' = stack
    BY <2>1 DEF ControlKey, Control, Edits, Draws, forthVars
  <2> QED
    BY <1>1, <2>2, CharacterBlinks
<1>4. CASE \E dx, dy \in {-1, 0, 1} : dx * dy = 0 /\ dx # dy /\ ArrowKey(dx, dy)
  <2>1. PICK dx \in Int, dy \in Int : ArrowKey(dx, dy)
    BY <1>4
  <2>2. screen' = UpdateCursor(UpdatePosition(screen, dx, dy)) /\ stack' = stack
    BY <2>1 DEF ArrowKey, OtherKey, Show, Edits, Draws, forthVars
  <2>3. Sound(UpdatePosition(screen, dx, dy))
    BY <1>1, SoundUpdatePosition
  <2> QED
    BY <2>2, <2>3, UpdatedBlinks
<1>5. CASE \E w \in Vocabulary : LetterKey(w)
  <2>1. PICK w : LetterKey(w)
    BY <1>5
  <2>2. screen' = DisplayCharacter(screen, w[Len(word')]) /\ stack' = stack
    BY <2>1 DEF LetterKey, Type, forthVars
  <2> QED
    BY <1>1, <2>2, CharacterBlinks
<1>6. CASE \E k \in ColorLetter : ColorKey(k)
  <2>1. Waiting /\ screen' = screen /\ stack' = stack
    BY <1>6 DEF ColorKey, Select, forthVars
  <2> QED
    BY <1>2, <2>1
<1>7. CASE BlankKey
  <2>1. screen' = DisplayCharacter(screen, Space) /\ stack' = stack
    BY <1>7 DEF BlankKey, Blank, Edits, Draws, forthVars
  <2> QED
    BY <1>1, <2>1, CharacterBlinks
<1>8. CASE EscapeKey
  <2>1. Waiting /\ screen' = screen /\ stack' = stack
    BY <1>8 DEF EscapeKey, Escape, Draws, forthVars
  <2> QED
    BY <1>2, <2>1
<1>9. CASE LeaveKey
  <2>1. screen' = UpdateCursor(SetPosition(screen, 0, 0)) /\ stack' = stack
    BY <1>9 DEF LeaveKey, Select, forthVars
  <2>2. Sound(SetPosition(screen, 0, 0))
    <3>1. 0 \in 0 .. Lines - 1
      BY Layout
    <3> QED
      BY <1>1, <3>1, Layout, SoundSetPosition
  <2> QED
    BY <2>1, <2>2, UpdatedBlinks
<1>10. CASE F1Key
  <2>1. PICK hex : screen' = DotS(screen, stack, hex)
    BY <1>10 DEF F1Key
  <2>2. stack' = stack
    BY <1>10 DEF F1Key, vars, forthVars
  <2> QED
    BY <1>1, <2>1, <2>2, DotSBlinks
<1>11. CASE F2Key
  <2>1. screen' = CommandPrompt(screen) /\ stack' = stack
    BY <1>11 DEF F2Key, F2, Draws, forthVars
  <2> QED
    BY <1>1, <2>1, PromptBlinks
<1>12. CASE NoPageKey
  <2>1. Waiting /\ screen' = screen /\ stack' = stack
    BY <1>12 DEF NoPageKey, OtherKey, Show, forthVars
  <2> QED
    BY <1>2, <2>1
<1>13. CASE PageKey
  <2>1. screen' = DisplayBlock(blocks, nbBlock', stack, isHex)
    BY <1>13 DEF PageKey
  <2>2. stack' = stack
    BY <1>13 DEF PageKey, PageUp, PageDown, Show, forthVars
  <2> QED
    BY <1>1, <2>1, <2>2, DisplayBlockBlinks
<1> QED
  BY <1>3, <1>4, <1>5, <1>6, <1>7, <1>8, <1>9, <1>10, <1>11, <1>12, <1>13 DEF PlainKey

(* What a step is. *)
LEMMA DisplaySteps ==
  ASSUME DNext
  PROVE  \/ ~booted /\ UNCHANGED <<vars, screen, booted, whole>>
         \/ ~booted /\ Boot
         \/ booted /\ booted' = booted /\ (PlainKey \/ CommandKey \/ RunStep)
<1>1. CASE (\E item \in Items : AddItem(item)) \/ AddBlock
  <2>1. PICK text : Text(text)
    BY <1>1 DEF AddItem, AddBlock
  <2> QED
    BY <2>1 DEF Text
<1>2. CASE Boot
  BY <1>2 DEF Boot
<1>3. CASE booted /\ (PageKey \/ (source = Source /\ KeyOrStep)) /\ UNCHANGED <<source, booted>>
  <2>1. PageKey \/ KeyOrStep
    BY <1>3
  <2>2. KeyOrStep => PlainKey \/ CommandKey \/ RunStep
    BY DEF KeyOrStep, PlainKey
  <2>3. PageKey => PlainKey
    BY DEF PlainKey
  <2> QED
    BY <1>3, <2>1, <2>2, <2>3
<1> QED
  BY <1>1, <1>2, <1>3 DEF DNext

LEMMA DrawInvInit == DInit => DrawInv
<1> SUFFICES ASSUME DInit PROVE DrawInv
  OBVIOUS
<1>1. stack = <<>> /\ screen = Clear /\ booted = FALSE
  BY DEF DInit, Init, ForthInit, ScreenInit
<1> QED
  BY <1>1, NoCharacters, SoundClear DEF DrawInv

LEMMA DrawInvStep == DrawInv /\ [DNext]_displayVars => DrawInv'
<1> SUFFICES ASSUME DrawInv, [DNext]_displayVars PROVE DrawInv'
  OBVIOUS
<1>1. CASE UNCHANGED <<vars, screen, booted>>
  BY <1>1 DEF DrawInv, vars, forthVars, Waiting
<1>2. CASE ~booted /\ Boot
  <2>1. PICK disk : screen' = DisplayBlock(disk, 0, <<>>, FALSE)
    BY <1>2 DEF Boot
  <2>2. stack' = stack
    BY <1>2 DEF Boot
  <2>3. Blinks(screen')
    BY <2>1, NoCharacters, DisplayBlockBlinks
  <2> QED
    BY <2>2, <2>3 DEF DrawInv, Blinks
<1>3. CASE booted /\ PlainKey
  <2>1. Blinks(screen') /\ stack' = stack
    BY <1>3, PlainKeyDraws
  <2> QED
    BY <2>1 DEF DrawInv, Blinks
<1>4. CASE booted /\ CommandKey
  BY <1>4, CommandKeyDraws DEF DrawInv
<1>5. CASE booted /\ RunStep
  BY <1>5, RunStepDraws DEF DrawInv
<1>6. CASE UNCHANGED displayVars
  BY <1>1, <1>6 DEF displayVars
<1> QED
  BY <1>1, <1>2, <1>3, <1>4, <1>5, <1>6, DisplaySteps

(* Whatever text is written for the blocks, whatever is keyed and whatever *)
(* the commands do, no character misses the page, and the position is on   *)
(* it until an arrow or the extension of a word leads it off.              *)
THEOREM DisplayKept == DSpec => []PageKept
<1>1. DrawInv => PageKept
  BY DEF DrawInv, Sound, Kept, PageKept
<1> QED
  BY <1>1, DrawInvInit, DrawInvStep, PTL DEF DSpec

(* Whenever a key is waited for, the cursor blinks where the next character*)
(* is written: no handler and no command leaves it behind.                 *)
THEOREM DisplayCursor == DSpec => []CursorShown
<1>1. DrawInv => CursorShown
  BY DEF DrawInv, Blinks, CursorShown
<1> QED
  BY <1>1, DrawInvInit, DrawInvStep, PTL DEF DSpec

-----------------------------------------------------------------------------
(* The word that is typed stands in front of the position.                 *)

WordInv ==
  /\ word \in Seq(Letter \cup {NoLetter})
  /\ ~booted \/ frames # <<>> => word = <<>>
  /\ whole /\ screen.led = 0 => InFront(screen, word)

LEMMA WordInvInit == DInit => WordInv
<1> SUFFICES ASSUME DInit PROVE WordInv
  OBVIOUS
<1>1. word = <<>>
  BY DEF DInit, Init
<1> QED
  BY <1>1 DEF WordInv, InFront

(* A key that leaves the word, and the calls, leaves it where it is if the *)
(* screen is as it was, and otherwise counts for nothing unless it is empty. *)
LEMMA OtherKeyKeepsWord ==
  ASSUME WordInv, word' = word, frames' = frames, booted' = booted,
         \/ screen' = screen /\ whole' = whole
         \/ whole' = (word = <<>>)
  PROVE  WordInv'
<1>1. word' \in Seq(Letter \cup {NoLetter}) /\ (~booted' \/ frames' # <<>> => word' = <<>>)
  BY DEF WordInv
<1>2. whole' /\ screen'.led = 0 => InFront(screen', word')
  <2>1. CASE screen' = screen /\ whole' = whole
    BY <2>1 DEF WordInv
  <2>2. CASE whole' = (word = <<>>)
    <3> SUFFICES ASSUME whole' PROVE InFront(screen', word')
      OBVIOUS
    <3>1. word = <<>>
      BY <2>2, Zenon
    <3> QED
      BY <3>1 DEF InFront
  <2> QED
    BY <2>1, <2>2
<1> QED
  BY <1>1, <1>2 DEF WordInv

LEMMA NoWordInv ==
  ASSUME word' = <<>>
  PROVE  WordInv'
<1>1. <<>> \in Seq(Letter \cup {NoLetter})
  OBVIOUS
<1> QED
  BY <1>1 DEF WordInv, InFront

LEMMA LetterKeyKeepsWord ==
  ASSUME DrawInv, WordInv, booted, booted' = booted, NEW w \in Vocabulary, LetterKey(w)
  PROVE  WordInv'
<1>1. /\ IsStrictPrefix(word, w) /\ frames = <<>> /\ frames' = frames
      /\ word' = Append(word, w[Len(word) + 1]) /\ whole' = (whole /\ screen.x < Columns)
      /\ screen' = DisplayCharacter(screen, w[Len(word')])
  BY DEF LetterKey, Type, forthVars, Waiting
<1>2. PICK v : v = word /\ v \in Seq(Letter \cup {NoLetter}) /\ Len(v) \in Nat
  BY DEF WordInv
<1>3. PICK c : c = w[Len(v) + 1]
  OBVIOUS
<1>4. c \in Letter /\ Len(v) + 1 \in 1 .. Len(w) /\ w \in Seq(Letter \ Shifted) /\ Len(w) < 32
  BY <1>1, <1>2, <1>3, NextLetter, EditorAssumption
<1>5. c \in Nat /\ v \in Seq(Int)
  <2>1. Letter \cup {NoLetter} \subseteq Int /\ Letter \subseteq Nat
    BY DEF Letter, NoLetter
  <2> QED
    BY <1>2, <1>4, <2>1
<1>6. Append(v, c) \in Seq(Letter \cup {NoLetter}) /\ Len(Append(v, c)) = Len(v) + 1
  BY <1>2, <1>4
<1>7. word' = Append(v, c) /\ screen' = DisplayCharacter(screen, c)
  BY <1>1, <1>2, <1>3, <1>6
<1>8. Sound(screen) /\ (whole /\ screen.led = 0 => InFront(screen, v))
  BY <1>2 DEF DrawInv, WordInv
<1>9. screen'.led = screen.led
  BY <1>5, <1>7, <1>8, LetterLed
<1>10. whole' /\ screen'.led = 0 => InFront(screen', word')
  <2> SUFFICES ASSUME whole', screen'.led = 0 PROVE InFront(screen', word')
    OBVIOUS
  <2>1. whole /\ screen.x < Columns /\ screen.led = 0 /\ InFront(screen, v)
    BY <1>1, <1>8, <1>9
  <2>2. Len(v) < 31
    BY <1>2, <1>4
  <2>3. InFront(DisplayCharacter(screen, c), Append(v, c))
    BY <1>5, <1>8, <2>1, <2>2, LetterFollows
  <2> QED
    BY <1>7, <2>3
<1> QED
  BY <1>1, <1>6, <1>7, <1>10 DEF WordInv

LEMMA PlainKeyKeepsWord ==
  ASSUME DrawInv, WordInv, booted, booted' = booted, PlainKey
  PROVE  WordInv'
<1>1. CASE \E c \in {Newline, Backspace, Tab, NoLetter} : ControlKey(c)
  <2>1. /\ word' = Append(word, NoLetter) /\ whole' = FALSE
        /\ frames = <<>> /\ frames' = frames
    BY <1>1 DEF ControlKey, Control, Waiting, forthVars
  <2>2. word' \in Seq(Letter \cup {NoLetter})
    BY <2>1 DEF WordInv
  <2> QED
    BY <2>1, <2>2 DEF WordInv
<1>2. CASE \E dx, dy \in {-1, 0, 1} : dx * dy = 0 /\ dx # dy /\ ArrowKey(dx, dy)
  <2>1. word' = word /\ frames' = frames /\ whole' = (word = <<>>)
    BY <1>2 DEF ArrowKey, OtherKey, Show, forthVars
  <2> QED
    BY <2>1, OtherKeyKeepsWord
<1>3. CASE \E w \in Vocabulary : LetterKey(w)
  BY <1>3, LetterKeyKeepsWord
<1>4. CASE \E k \in ColorLetter : ColorKey(k)
  <2>1. word' = word /\ frames' = frames /\ screen' = screen /\ whole' = whole
    BY <1>4 DEF ColorKey, Select, forthVars
  <2> QED
    BY <2>1, OtherKeyKeepsWord
<1>5. CASE BlankKey
  BY <1>5, NoWordInv DEF BlankKey, Blank
<1>6. CASE EscapeKey
  <2>1. word' = word /\ frames' = frames /\ screen' = screen /\ whole' = whole
    BY <1>6 DEF EscapeKey, Escape, Draws, forthVars
  <2> QED
    BY <2>1, OtherKeyKeepsWord
<1>7. CASE LeaveKey
  <2>1. word' = word /\ frames' = frames /\ whole' = (word = <<>>)
    BY <1>7 DEF LeaveKey, Select, forthVars
  <2> QED
    BY <2>1, OtherKeyKeepsWord
<1>8. CASE F1Key
  <2>1. word' = word /\ frames' = frames /\ whole' = (word = <<>>)
    BY <1>8 DEF F1Key, vars, editorVars, forthVars
  <2> QED
    BY <2>1, OtherKeyKeepsWord
<1>9. CASE F2Key
  <2>1. word' = word /\ frames' = frames /\ whole' = (word = <<>>)
    BY <1>9 DEF F2Key, F2, forthVars
  <2> QED
    BY <2>1, OtherKeyKeepsWord
<1>10. CASE NoPageKey
  <2>1. word' = word /\ frames' = frames /\ screen' = screen /\ whole' = whole
    BY <1>10 DEF NoPageKey, OtherKey, Show, forthVars
  <2> QED
    BY <2>1, OtherKeyKeepsWord
<1>11. CASE PageKey
  <2>1. word' = word /\ frames' = frames /\ whole' = (word = <<>>)
    BY <1>11 DEF PageKey, PageUp, PageDown, Show, forthVars
  <2> QED
    BY <2>1, OtherKeyKeepsWord
<1> QED
  BY <1>1, <1>2, <1>3, <1>4, <1>5, <1>6, <1>7, <1>8, <1>9, <1>10, <1>11 DEF PlainKey

LEMMA WordInvStep == DrawInv /\ WordInv /\ [DNext]_displayVars => WordInv'
<1> SUFFICES ASSUME DrawInv, WordInv, [DNext]_displayVars PROVE WordInv'
  OBVIOUS
<1>1. CASE UNCHANGED <<vars, screen, booted, whole>>
  BY <1>1, OtherKeyKeepsWord DEF vars, forthVars, editorVars
<1>2. CASE ~booted /\ Boot
  BY <1>2, NoWordInv DEF Boot, editorVars, WordInv
<1>3. CASE booted /\ booted' = booted /\ PlainKey
  BY <1>3, PlainKeyKeepsWord
<1>4. CASE CommandKey
  BY <1>4, NoWordInv DEF CommandKey, Command
<1>5. CASE RunStep
  <2>1. word' = word
    BY <1>5 DEF RunStep, Go, editorVars
  <2>2. frames # <<>>
    BY <1>5 DEF RunStep, Go, Interpret, RunCell, RunDone, LoadNext, LoadsDone, Open
  <2> QED
    BY <2>1, <2>2, NoWordInv DEF WordInv
<1>6. CASE UNCHANGED displayVars
  BY <1>1, <1>6 DEF displayVars
<1> QED
  BY <1>1, <1>2, <1>3, <1>4, <1>5, <1>6, DisplaySteps

(* The word that the space bar runs is the one in front of the cursor, on  *)
(* a screen of any size, also where its letters are wrapped to the next    *)
(* line and scrolled with the page.                                        *)
THEOREM DisplayWordInFront == DSpec => []WordShown
<1>1. DrawInv /\ WordInv => WordShown
  <2> SUFFICES ASSUME DrawInv, WordInv, whole, screen.led = 0, NEW i \in DOMAIN word
               PROVE  screen.text[Address(screen.x, screen.y) - Len(word) + i - 1] = word[i]
    BY DEF WordShown
  <2>1. DOMAIN word = 1 .. Len(word)
    BY DEF WordInv
  <2> QED
    BY <2>1 DEF WordInv, InFront
<1> QED
  BY <1>1, DrawInvInit, DrawInvStep, WordInvInit, WordInvStep, PTL DEF DSpec

-----------------------------------------------------------------------------
(* What is written on a line, and what it leaves of the others.            *)

(* The position is on the page, and not behind a line. *)
OnPage(s) == Sound(s) /\ s.led = 0 /\ s.x < Columns

LEMMA OnPageFacts ==
  ASSUME NEW s, OnPage(s)
  PROVE  /\ Shaped(s) /\ s.x \in Nat /\ s.y \in Nat /\ s.x < Columns /\ s.y < Lines /\ s.led = 0
         /\ Address(s.x, s.y) \in 0 .. Columns * Lines - 1
         /\ Address(s.x, s.y) \in Cell /\ Address(s.x, s.y) \in Nat
         /\ Columns * (Lines - 1) \in Nat
         /\ s.y = Lines - 1 => Address(s.x, s.y) >= Columns * (Lines - 1)
<1>1. Shaped(s) /\ s.x \in Nat /\ s.y \in Nat /\ s.x < Columns /\ s.y < Lines /\ s.led = 0
  BY DEF OnPage, Sound, Shaped, Kept, OnScreen
<1>2. Columns \in Nat /\ Lines - 1 \in Nat
  BY Layout
<1>3. Columns * (Lines - 1) \in Nat
  BY <1>2
<1>4. /\ Address(s.x, s.y) \in 0 .. Columns * Lines - 1
      /\ Address(s.x, s.y) \in Cell /\ Address(s.x, s.y) \in Nat
  BY <1>1, NextPlace
<1>5. s.y = Lines - 1 => Address(s.x, s.y) = s.x + Columns * (Lines - 1)
  BY DEF Address
<1> QED
  BY <1>1, <1>3, <1>4, <1>5

(* A letter is stored and the position goes on, or the page is scrolled.   *)
Placed(s, c, r) ==
  /\ Address(r.x, r.y) = Address(s.x, s.y) + 1
  /\ \A k \in Cell : r.text[k] = IF k = Address(s.x, s.y) THEN c ELSE s.text[k]

LEMMA LetterPlaced ==
  ASSUME NEW s, OnPage(s), NEW c \in Nat
  PROVE  /\ OnPage(DisplayCharacter(s, c))
         /\ \/ s.y = Lines - 1 /\ DisplayCharacter(s, c).y = Lines - 1
            \/ s.y < Lines - 1 /\ Placed(s, c, DisplayCharacter(s, c))
<1>0. PICK a : a = Address(s.x, s.y)
  OBVIOUS
<1>1. /\ Shaped(s) /\ s.x \in Nat /\ s.y \in Nat /\ s.y < Lines /\ s.x < Columns /\ s.led = 0
      /\ Sound(s) /\ s.text = [i \in Cell |-> s.text[i]]
      /\ a \in Cell
  BY <1>0, OnPageFacts DEF OnPage, Shaped
<1>2. Columns \in Nat /\ Lines \in Nat /\ Columns >= 2 /\ Lines >= 8
  BY Layout
<1>5. PICK r : /\ r = Store(s, c) /\ Sound(r) /\ r.x = s.x /\ r.y = s.y /\ r.led = 0
               /\ \A i \in Cell : r.text[i] = IF i = a THEN c ELSE s.text[i]
  <2>1. Store(s, c) = [s EXCEPT !.text = [s.text EXCEPT ![a] = c]]
    BY <1>0, <1>1 DEF Store, Stored
  <2>2. PICK text : text = [s.text EXCEPT ![a] = c]
    OBVIOUS
  <2>3. \A i \in Cell : text[i] = IF i = a THEN c ELSE s.text[i]
    BY <1>1, <2>2
  <2>4. PICK r : r = Store(s, c)
    OBVIOUS
  <2>5. r.text = text
    BY <1>1, <2>1, <2>2, <2>4, Fields
  <2>6. Sound(r) /\ r.x = s.x /\ r.y = s.y /\ r.led = 0
    BY <1>1, <2>4, SoundStore
  <2> QED
    BY <2>3, <2>4, <2>5, <2>6
<1>6. PICK q : /\ q = ToRight(r) /\ Shaped(q) /\ q.led = 0 /\ q.text = r.text
               /\ \/ s.x + 1 < Columns /\ q.x = s.x + 1 /\ q.y = s.y
                  \/ s.x + 1 = Columns /\ q.x = 0 /\ q.y = s.y + 1
  BY <1>1, <1>5, ToRightIs
<1>7. Address(q.x, q.y) = a + 1 /\ q.x \in Nat /\ q.y \in Nat /\ q.x < Columns
      /\ q.y <= Lines /\ (q.y = Lines => q.x = 0)
  <2>1. /\ s.x + 1 < Columns => Address(s.x + 1, s.y) = a + 1
        /\ s.x + 1 = Columns => Address(0, s.y + 1) = a + 1
    BY <1>0, <1>1, NextPlace
  <2>2. Address(q.x, q.y) = a + 1
    BY <1>6, <2>1
  <2> QED
    BY <1>1, <1>2, <1>6, <2>2
<1>8. /\ InPage(q).led = q.led /\ InPage(q).x = q.x
      /\ q.y < Lines => InPage(q) = q
      /\ q.y = Lines => InPage(q).y = Lines - 1
  BY <1>6, <1>7, InPageShifts
<1>9. PICK p : p = InPage(q) /\ Shaped(p)
  BY <1>5, <1>6, SoundToRight DEF Sound
<1>10. DisplayCharacter(s, c) = UpdateCursor(p)
  BY <1>5, <1>6, <1>9, LetterShown
<1>11. PICK z : z = UpdateCursor(p) /\ z.text = p.text /\ z.x = p.x /\ z.y = p.y /\ z.led = p.led
  BY <1>9, UpdatedFields
<1>12. OnPage(z)
  <2>1. Sound(z)
    BY <1>1, <1>10, <1>11, SoundDisplayCharacter
  <2> QED
    BY <1>6, <1>7, <1>8, <1>9, <1>11, <2>1 DEF OnPage
<1>13. CASE s.y = Lines - 1
  <2>1. z.y = Lines - 1
    BY <1>2, <1>6, <1>8, <1>9, <1>11, <1>13
  <2> QED
    BY <1>10, <1>11, <1>12, <1>13, <2>1
<1>14. CASE s.y < Lines - 1
  <2>1. q.y < Lines
    BY <1>1, <1>2, <1>6, <1>14
  <2>2. z.text = r.text /\ z.x = q.x /\ z.y = q.y
    BY <1>6, <1>8, <1>9, <1>11, <2>1
  <2>3. Placed(s, c, z)
    BY <1>0, <1>5, <1>7, <2>2 DEF Placed
  <2> QED
    BY <1>10, <1>11, <1>12, <1>14, <2>3
<1> QED
  BY <1>1, <1>2, <1>13, <1>14

(* A new line above the last one only moves the position. *)
LEMMA NewlineMoves ==
  ASSUME NEW s, OnPage(s), s.y + 1 < Lines
  PROVE  /\ OnPage(DisplayCharacter(s, Newline))
         /\ DisplayCharacter(s, Newline).x = 0
         /\ DisplayCharacter(s, Newline).y = s.y + 1
         /\ DisplayCharacter(s, Newline).text = s.text
<1>1. /\ Shaped(s) /\ s.x \in Nat /\ s.y \in Nat /\ s.y < Lines /\ s.x < Columns /\ s.led = 0
      /\ Sound(s)
  BY OnPageFacts DEF OnPage
<1>2. Lines \in Nat /\ Columns \in Nat /\ Columns >= 2 /\ Byte \in Nat /\ Byte > Lines
  BY Layout, Sizes
<1>3. PICK w : w = s.y + 1 /\ w \in Nat /\ (s.y + 1) % Byte = w
  BY <1>1, <1>2
<1>4. NextLine(s) = [[s EXCEPT !.x = 0] EXCEPT !.y = (s.y + 1) % Byte]
  BY DEF NextLine
<1>5. PICK l : l = [s EXCEPT !.x = 0]
  OBVIOUS
<1>6. l = [text |-> s.text, x |-> 0, y |-> s.y, hw |-> s.hw, led |-> s.led, off |-> s.off]
  BY <1>1, <1>5, Fields
<1>7. Shaped(l)
  BY <1>1, <1>6 DEF Shaped
<1>8. PICK q : q = NextLine(s)
  OBVIOUS
<1>9. q = [l EXCEPT !.y = w]
  BY <1>3, <1>4, <1>5, <1>8
<1>10. q = [text |-> l.text, x |-> l.x, y |-> w, hw |-> l.hw, led |-> l.led, off |-> l.off]
  BY <1>7, <1>9, Fields
<1>11. q.text = s.text /\ q.x = 0 /\ q.y = w /\ q.led = 0
  BY <1>1, <1>6, <1>10
<1>12. InPage(q) = q
  <2>1. ~(q.y > Lines - 1)
    BY <1>2, <1>3, <1>11
  <2> QED
    BY <2>1 DEF InPage
<1>13. DisplayCharacter(s, Newline) = UpdateCursor(q)
  <2>1. DisplayCharacter(s, Newline) = UpdateCursor(InPage(NextLine(s)))
    BY DEF DisplayCharacter, Newline, Backspace, Tab
  <2> QED
    BY <1>8, <1>12, <2>1
<1>14. Shaped(q)
  BY <1>1, <1>8, NextLineShaped
<1>15. PICK z : z = UpdateCursor(q) /\ z.text = q.text /\ z.x = q.x /\ z.y = q.y /\ z.led = q.led
  BY <1>14, UpdatedFields
<1>16. Sound(z)
  BY <1>1, <1>13, <1>15, SoundDisplayCharacter
<1>17. OnPage(z)
  BY <1>2, <1>11, <1>15, <1>16 DEF OnPage
<1> QED
  BY <1>3, <1>11, <1>13, <1>15, <1>17

(* n letters from the one behind number j are on the cells from where s is *)
(* to where r is.                                                          *)
Ran(s, r, chars, j, n) ==
  /\ Address(r.x, r.y) = Address(s.x, s.y) + n
  /\ \A i \in 1 .. n : r.text[Address(s.x, s.y) + i - 1] = chars[j + i]
  /\ \A k \in Cell : k \notin Address(s.x, s.y) .. Address(s.x, s.y) + n - 1 => r.text[k] = s.text[k]

LEMMA LettersRun ==
  ASSUME NEW f, NEW s, NEW chars, NEW N \in Nat, Written(f, s, chars, N),
         NEW j \in Nat, NEW n \in Nat, j + n <= N, OnPage(f[j]),
         \A i \in 1 .. n : chars[j + i] \in Nat
  PROVE  /\ OnPage(f[j + n])
         /\ \/ /\ f[j + n].y = Lines - 1
               /\ Address(f[j].x, f[j].y) + n >= Columns * (Lines - 1)
            \/ Ran(f[j], f[j + n], chars, j, n)
<1> DEFINE last(d) == f[j + d].y = Lines - 1 /\ Address(f[j].x, f[j].y) + d >= Columns * (Lines - 1)
           S == {d \in Nat : d <= n => OnPage(f[j + d]) /\ (last(d) \/ Ran(f[j], f[j + d], chars, j, d))}
<1>1. PICK t : t = f[j] /\ OnPage(t)
  OBVIOUS
<1>2. PICK a \in Nat : a = Address(t.x, t.y) /\ a \in Cell
  BY <1>1, OnPageFacts
<1>3. Columns * (Lines - 1) \in Nat /\ Columns * Lines \in Nat
  BY <1>1, OnPageFacts, Layout
<1>4. 0 \in S
  <2>1. f[j + 0] = t /\ Address(t.x, t.y) = a + 0
    BY <1>1, <1>2
  <2>2. Ran(t, t, chars, j, 0)
    BY <1>2, <2>1 DEF Ran
  <2> QED
    BY <1>1, <2>1, <2>2
<1>5. ASSUME NEW d \in Nat, d \in S PROVE d + 1 \in S
  <2> SUFFICES ASSUME d + 1 <= n
               PROVE  OnPage(f[j + (d + 1)]) /\ (last(d + 1) \/ Ran(f[j], f[j + (d + 1)], chars, j, d + 1))
    OBVIOUS
  <2>1. PICK u : u = f[j + d] /\ OnPage(u) /\ (last(d) \/ Ran(t, u, chars, j, d))
    BY <1>1, <1>5
  <2>2. PICK c : c = chars[j + (d + 1)] /\ c \in Nat
    OBVIOUS
  <2>3. PICK v : v = f[j + (d + 1)] /\ v = DisplayCharacter(u, c)
    <3>1. j + (d + 1) \in 1 .. N /\ (j + (d + 1)) - 1 = j + d
      OBVIOUS
    <3> QED
      BY <2>1, <2>2, <3>1 DEF Written
  <2>4. /\ OnPage(v)
        /\ \/ u.y = Lines - 1 /\ v.y = Lines - 1
           \/ u.y < Lines - 1 /\ Placed(u, c, v)
    BY <2>1, <2>2, <2>3, LetterPlaced
  <2>5. CASE last(d)
    <3>1. u.y = Lines - 1 /\ a + d >= Columns * (Lines - 1)
      BY <1>1, <1>2, <2>1, <2>5
    <3>2. Lines \in Nat
      BY Layout
    <3>3. v.y = Lines - 1 /\ a + (d + 1) >= Columns * (Lines - 1)
      BY <1>3, <2>4, <3>1, <3>2
    <3> QED
      BY <1>1, <1>2, <2>3, <2>4, <3>3
  <2>6. CASE Ran(t, u, chars, j, d)
    <3>1. /\ Address(u.x, u.y) = a + d
          /\ \A i \in 1 .. d : u.text[a + i - 1] = chars[j + i]
          /\ \A k \in Cell : k \notin a .. a + d - 1 => u.text[k] = t.text[k]
      BY <1>2, <2>6 DEF Ran
    <3>2. CASE u.y = Lines - 1 /\ v.y = Lines - 1
      <4>1. a + d >= Columns * (Lines - 1)
        BY <2>1, <3>1, <3>2, OnPageFacts
      <4>2. a + (d + 1) >= Columns * (Lines - 1)
        BY <1>3, <4>1
      <4> QED
        BY <1>1, <1>2, <2>3, <2>4, <3>2, <4>2
    <3>3. CASE Placed(u, c, v)
      <4>1. /\ Address(v.x, v.y) = a + (d + 1)
            /\ \A k \in Cell : v.text[k] = IF k = a + d THEN c ELSE u.text[k]
        BY <3>1, <3>3 DEF Placed
      <4>2. a + d \in Cell
        BY <2>1, <3>1, OnPageFacts
      <4>3. ASSUME NEW i \in 1 .. d + 1 PROVE v.text[a + i - 1] = chars[j + i]
        <5>1. a + i - 1 \in Cell
          BY <1>3, <4>2 DEF Cell
        <5>2. CASE i = d + 1
          <6>1. a + i - 1 = a + d /\ chars[j + i] = c
            BY <2>2, <5>2
          <6> QED
            BY <4>1, <5>1, <6>1
        <5>3. CASE i # d + 1
          <6>1. i \in 1 .. d /\ a + i - 1 # a + d
            BY <5>3
          <6> QED
            BY <3>1, <4>1, <5>1, <6>1
        <5> QED
          BY <5>2, <5>3
      <4>4. ASSUME NEW k \in Cell, k \notin a .. a + (d + 1) - 1 PROVE v.text[k] = t.text[k]
        <5>1. k # a + d /\ k \notin a .. a + d - 1
          BY <4>4
        <5> QED
          BY <3>1, <4>1, <5>1
      <4>5. Ran(t, v, chars, j, d + 1)
        BY <1>2, <4>1, <4>3, <4>4 DEF Ran
      <4> QED
        BY <1>1, <2>3, <2>4, <4>5
    <3> QED
      BY <2>4, <3>2, <3>3
  <2> QED
    BY <2>1, <2>5, <2>6
<1> HIDE DEF S
<1>6. n \in S
  BY <1>4, <1>5, Induct
<1> QED
  BY <1>6 DEF S

-----------------------------------------------------------------------------
(* What the functions that draw leave on the lines of the screen.          *)

LEMMA Between ==
  ASSUME NEW c \in Int, NEW t \in Seq(Int), NEW d \in Int
  PROVE  /\ <<c>> \o t \o <<d>> \in Seq(Int)
         /\ Len(<<c>> \o t \o <<d>>) = Len(t) + 2 /\ Len(t) \in Nat
         /\ (<<c>> \o t \o <<d>>)[1] = c /\ (<<c>> \o t \o <<d>>)[Len(t) + 2] = d
         /\ \A i \in 1 .. Len(t) : (<<c>> \o t \o <<d>>)[1 + i] = t[i]
<1>1. <<c>> \in Seq(Int) /\ Len(<<c>>) = 1 /\ <<c>>[1] = c
      /\ <<d>> \in Seq(Int) /\ Len(<<d>>) = 1 /\ <<d>>[1] = d
  OBVIOUS
<1>2. PICK u \in Seq(Int) : u = <<c>> /\ Len(u) = 1 /\ u[1] = c
  BY <1>1
<1>3. PICK w \in Seq(Int) : w = <<d>> /\ Len(w) = 1 /\ w[1] = d
  BY <1>1
<1>4. PICK v \in Seq(Int) : v = u \o t /\ Len(v) = 1 + Len(t) /\ v[1] = c
                            /\ \A i \in 1 .. Len(t) : v[1 + i] = t[i]
  <2>0. u \o t \in Seq(Int)
    BY <1>2, Longer
  <2>1. PICK v \in Seq(Int) : v = u \o t
    BY <2>0
  <2>2. Len(v) = 1 + Len(t)
    BY <1>2, <2>1
  <2>3. v[1] = c
    BY <1>2, <2>1
  <2>4. ASSUME NEW i \in 1 .. Len(t) PROVE v[1 + i] = t[i]
    <3>1. PICK m \in Nat : m = Len(t)
      OBVIOUS
    <3>2. i \in Nat /\ i >= 1 /\ i <= m /\ 1 + i \in 1 .. 1 + m /\ 1 + i > 1 /\ (1 + i) - 1 = i
      BY <3>1
    <3> QED
      BY <1>2, <2>1, <2>2, <3>1, <3>2
  <2> QED
    BY <2>1, <2>2, <2>3, <2>4
<1>5. PICK z \in Seq(Int) : z = v \o w /\ Len(z) = Len(t) + 2 /\ z[Len(t) + 2] = d
                            /\ \A i \in 1 .. Len(v) : z[i] = v[i]
  <2>0. v \o w \in Seq(Int)
    BY <1>3, <1>4, Longer
  <2>1. PICK z \in Seq(Int) : z = v \o w
    BY <2>0
  <2>2. Len(z) = Len(t) + 2
    BY <1>3, <1>4, <2>1
  <2>3. z[Len(t) + 2] = d
    BY <1>3, <1>4, <2>1, <2>2
  <2>4. \A i \in 1 .. Len(v) : z[i] = v[i]
    BY <1>3, <1>4, <2>1, <2>2
  <2> QED
    BY <2>1, <2>2, <2>3, <2>4
<1>6. z = <<c>> \o t \o <<d>>
  BY <1>2, <1>3, <1>4, <1>5
<1>7. z[1] = c /\ \A i \in 1 .. Len(t) : z[1 + i] = t[i]
  BY <1>4, <1>5
<1> QED
  BY <1>5, <1>6, <1>7

(* Where the lines begin. *)
LEMMA LinesBegin ==
  \E B \in Nat :
    /\ B >= 4 * Columns /\ Columns \in Nat /\ Columns >= 2
    /\ Columns * (Lines - 1) = B + 3 * Columns /\ Columns * Lines = B + 4 * Columns
    /\ \A x \in Int : /\ Address(x, OutputLine) = x + B - 3 * Columns
                      /\ Address(x, PromptLine) = x + B
                      /\ Address(x, ErrorLine) = x + B + Columns
                      /\ Address(x, StackLine) = x + B + 2 * Columns
                      /\ Address(x, StackLine + 1) = x + B + 3 * Columns
<1>1. PICK C \in Nat, L \in Nat : C = Columns /\ L = Lines /\ C >= 2 /\ L >= 8
  BY Layout
<1>2. PICK d \in Nat : L = d + 8
  BY <1>1, L - 8 \in Nat, L = (L - 8) + 8
<1>3. PICK b \in Nat : b = C * d
  BY <1>1
<1>4. /\ C * (L - 1) = b + 7 * C /\ C * L = b + 8 * C /\ C * (L - 7) = b + C
      /\ C * (L - 4) = b + 4 * C /\ C * (L - 3) = b + 5 * C /\ C * (L - 2) = b + 6 * C
      /\ C * ((L - 2) + 1) = b + 7 * C
  BY <1>1, <1>2, <1>3
<1>5. PICK B \in Nat : B = b + 4 * C
  BY <1>1, <1>3
<1>6. B >= 4 * C
  BY <1>1, <1>3, <1>5
<1>7. ASSUME NEW x \in Int
      PROVE  /\ Address(x, OutputLine) = x + B - 3 * Columns
             /\ Address(x, PromptLine) = x + B
             /\ Address(x, ErrorLine) = x + B + Columns
             /\ Address(x, StackLine) = x + B + 2 * Columns
             /\ Address(x, StackLine + 1) = x + B + 3 * Columns
  <2>1. /\ Address(x, OutputLine) = x + C * (L - 7)
        /\ Address(x, PromptLine) = x + C * (L - 4)
        /\ Address(x, ErrorLine) = x + C * (L - 3)
        /\ Address(x, StackLine) = x + C * (L - 2)
        /\ Address(x, StackLine + 1) = x + C * ((L - 2) + 1)
    BY <1>1 DEF Address, OutputLine, PromptLine, ErrorLine, StackLine
  <2> QED
    BY <1>1, <1>3, <1>4, <1>5, <2>1
<1>8. Columns * (Lines - 1) = B + 3 * Columns /\ Columns * Lines = B + 4 * Columns
  BY <1>1, <1>3, <1>4, <1>5
<1> QED
  BY <1>1, <1>5, <1>6, <1>7, <1>8

LEMMA SetFields ==
  ASSUME NEW s, Sound(s), NEW x \in 0 .. Columns, NEW y \in 0 .. Lines - 1
  PROVE  /\ SetPosition(s, x, y).text = s.text /\ SetPosition(s, x, y).led = 0
         /\ SetPosition(s, x, y).x = x /\ SetPosition(s, x, y).y = y
         /\ x < Columns => OnPage(SetPosition(s, x, y))
<1>1. Shaped(s)
  BY DEF Sound
<1>2. PICK r : r = SetPosition(s, x, y) /\ Sound(r)
  BY SoundSetPosition
<1>3. r = [s EXCEPT !.x = x, !.y = y, !.led = 0]
  BY <1>2 DEF SetPosition
<1>4. r = [text |-> s.text, x |-> x, y |-> y, hw |-> s.hw, led |-> 0, off |-> s.off]
  <2>1. PICK m : m = [s EXCEPT !.x = x]
    OBVIOUS
  <2>2. m = [text |-> s.text, x |-> x, y |-> s.y, hw |-> s.hw, led |-> s.led, off |-> s.off]
    BY <1>1, <2>1, Fields
  <2>3. x \in Nat /\ y \in Nat
    BY Layout
  <2>4. Shaped(m)
    BY <1>1, <2>2, <2>3 DEF Shaped
  <2>5. PICK n : n = [m EXCEPT !.y = y]
    OBVIOUS
  <2>6. n = [text |-> m.text, x |-> m.x, y |-> y, hw |-> m.hw, led |-> m.led, off |-> m.off]
    BY <2>4, <2>5, Fields
  <2>7. Shaped(n)
    BY <2>3, <2>4, <2>6 DEF Shaped
  <2>8. [n EXCEPT !.led = 0] = [text |-> n.text, x |-> n.x, y |-> n.y, hw |-> n.hw, led |-> 0, off |-> n.off]
    BY <2>7, Fields
  <2>9. r = [n EXCEPT !.led = 0]
    BY <1>3, <2>1, <2>5
  <2> QED
    BY <2>2, <2>6, <2>8, <2>9
<1> QED
  BY <1>2, <1>4 DEF OnPage

LEMMA PromptFields ==
  ASSUME NEW s, Sound(s)
  PROVE  /\ CommandPrompt(s).text = s.text /\ CommandPrompt(s).x = 2
         /\ CommandPrompt(s).y = PromptLine /\ CommandPrompt(s).led = 0
         /\ Sound(CommandPrompt(s))
<1>1. PICK r : /\ r = SetPosition(s, 2, PromptLine) /\ r.text = s.text /\ r.x = 2
               /\ r.y = PromptLine /\ r.led = 0 /\ Shaped(r)
  BY Layout, SetFields, SoundSetPosition DEF Sound
<1>2. CommandPrompt(s) = UpdateCursor(r)
  BY <1>1 DEF CommandPrompt
<1>3. Sound(CommandPrompt(s))
  BY PromptBlinks DEF Blinks
<1> QED
  BY <1>1, <1>2, <1>3, UpdatedFields

LEMMA FilledText ==
  ASSUME NEW s, Sound(s), NEW a \in Cell, NEW b \in Cell
  PROVE  \A i \in Cell : Filled(s, a, b, Space).text[i] = IF i \in a .. b THEN Space ELSE s.text[i]
<1>1. PICK text : text = [i \in Cell |-> IF i \in a .. b THEN Space ELSE s.text[i]]
  OBVIOUS
<1>2. Filled(s, a, b, Space) = [s EXCEPT !.text = text]
  BY <1>1 DEF Filled, Stored
<1>3. PICK r : r = Filled(s, a, b, Space)
  OBVIOUS
<1>4. r.text = text
  BY <1>2, <1>3, Fields DEF Sound
<1>5. \A i \in Cell : text[i] = IF i \in a .. b THEN Space ELSE s.text[i]
  BY <1>1
<1> QED
  BY <1>3, <1>4, <1>5

(* The line of the stack, and what is above it. *)
LEMMA DotSDraws ==
  ASSUME NEW s, Sound(s), NEW st, Tuple(st), NEW hex, Len(StackText(st, hex)) < Columns
  PROVE  /\ \A c \in 0 .. Columns - 1 :
              DotS(s, st, hex).text[Address(c, StackLine)] =
                IF c < Len(StackText(st, hex)) THEN StackText(st, hex)[c + 1] ELSE Space
         /\ \A k \in Cell : k < Address(0, StackLine) => DotS(s, st, hex).text[k] = s.text[k]
<1>1. PICK B \in Nat :
        /\ B >= 4 * Columns /\ Columns \in Nat /\ Columns >= 2
        /\ Columns * (Lines - 1) = B + 3 * Columns /\ Columns * Lines = B + 4 * Columns
        /\ \A x \in Int : /\ Address(x, ErrorLine) = x + B + Columns
                          /\ Address(x, StackLine) = x + B + 2 * Columns
                          /\ Address(x, StackLine + 1) = x + B + 3 * Columns
  BY LinesBegin
<1>2. PICK t \in Seq(Nat) : t = StackText(st, hex)
  BY StackTextIsSeq
<1>3. PICK n \in Nat : n = Len(t) /\ n < Columns
  BY <1>2
<1>4. PICK u : u = <<Newline>> \o t \o <<Newline>>
  OBVIOUS
<1>5. Len(u) = n + 2 /\ u[1] = Newline /\ u[n + 2] = Newline /\ \A i \in 1 .. n : u[1 + i] = t[i]
  BY <1>3, <1>4, Between DEF Newline
<1>6. PICK e : /\ e = EraseStack(s) /\ Sound(e)
               /\ \A k \in Cell : e.text[k] = IF k \in B + 2 * Columns .. B + 3 * Columns THEN Space ELSE s.text[k]
  <2>1. Address(0, StackLine) \in Cell /\ Address(0, StackLine + 1) \in Cell
    BY Layout, PlaceIsCell
  <2>2. PICK a \in Cell, b \in Cell : a = Address(0, StackLine) /\ b = Address(0, StackLine + 1)
    BY <2>1
  <2>3. a = B + 2 * Columns /\ b = B + 3 * Columns
    BY <1>1, <2>2
  <2>4. PICK g : g = Filled(s, a, b, Space) /\ Sound(g)
    BY SoundFilled
  <2>5. \A k \in Cell : g.text[k] = IF k \in a .. b THEN Space ELSE s.text[k]
    BY <2>4, FilledText
  <2>6. EraseStack(s) = CommandPrompt(g)
    BY <2>2, <2>4 DEF EraseStack
  <2>7. CommandPrompt(g).text = g.text /\ Sound(CommandPrompt(g))
    BY <2>4, PromptFields
  <2> QED
    BY <2>3, <2>5, <2>6, <2>7
<1>7. PICK r : /\ r = SetPosition(e, 0, ErrorLine) /\ r.text = e.text /\ r.y = ErrorLine /\ OnPage(r)
  <2>1. 0 \in 0 .. Columns /\ ErrorLine \in 0 .. Lines - 1 /\ 0 < Columns
    BY <1>1, Layout DEF ErrorLine
  <2>2. /\ SetPosition(e, 0, ErrorLine).text = e.text /\ SetPosition(e, 0, ErrorLine).y = ErrorLine
        /\ OnPage(SetPosition(e, 0, ErrorLine))
    BY <1>6, <2>1, SetFields
  <2> QED
    BY <2>2
<1>8. PICK f : DotS(s, st, hex) = f[n + 2] /\ Written(f, r, u, n + 2)
  <2>1. Len(u) \in Nat
    BY <1>5
  <2>2. DotS(s, st, hex) = Write(r, u)
    BY <1>2, <1>4, <1>6, <1>7 DEF DotS
  <2> QED
    BY <1>5, <2>1, <2>2, WriteIs
<1>9. PICK p : p = f[1] /\ OnPage(p) /\ p.x = 0 /\ p.y = StackLine /\ p.text = e.text
  <2>1. 1 \in 1 .. n + 2 /\ 1 - 1 = 0
    OBVIOUS
  <2>2. f[1] = DisplayCharacter(r, Newline)
    BY <1>5, <1>8, <2>1 DEF Written
  <2>3. ErrorLine + 1 = StackLine /\ ErrorLine + 1 < Lines
    BY Layout DEF ErrorLine, StackLine
  <2> QED
    BY <1>7, <2>2, <2>3, NewlineMoves
<1>10. Address(p.x, p.y) = B + 2 * Columns
  <2>1. Address(0, StackLine) = 0 + B + 2 * Columns
    BY <1>1, 0 \in Int
  <2>2. 0 + B + 2 * Columns = B + 2 * Columns
    BY <1>1
  <2> QED
    BY <1>9, <2>1, <2>2
<1>11. OnPage(f[1 + n]) /\ Ran(p, f[1 + n], u, 1, n)
  <2>1. 1 + n <= n + 2 /\ n + 2 \in Nat /\ 1 \in Nat
    OBVIOUS
  <2>2. \A i \in 1 .. n : u[1 + i] \in Nat
    BY <1>3, <1>5
  <2>3. /\ OnPage(f[1 + n])
        /\ \/ Address(f[1].x, f[1].y) + n >= Columns * (Lines - 1)
           \/ Ran(f[1], f[1 + n], u, 1, n)
    BY <1>8, <1>9, <2>1, <2>2, LettersRun
  <2>4. ~(Address(f[1].x, f[1].y) + n >= Columns * (Lines - 1))
    BY <1>1, <1>3, <1>9, <1>10
  <2> QED
    BY <1>9, <2>3, <2>4
<1>12. PICK q : /\ q = f[1 + n] /\ OnPage(q) /\ Address(q.x, q.y) = B + 2 * Columns + n
                /\ \A i \in 1 .. n : q.text[B + 2 * Columns + i - 1] = t[i]
                /\ \A k \in Cell : k \notin B + 2 * Columns .. B + 2 * Columns + n - 1 => q.text[k] = e.text[k]
  BY <1>5, <1>9, <1>10, <1>11 DEF Ran
<1>13. DotS(s, st, hex).text = q.text
  <2>1. n + 2 \in 1 .. n + 2 /\ (n + 2) - 1 = 1 + n
    OBVIOUS
  <2>2. f[n + 2] = DisplayCharacter(q, Newline)
    BY <1>5, <1>8, <1>12, <2>1 DEF Written
  <2>3. q.y + 1 < Lines
    <3>1. /\ q.y \in Nat /\ q.y < Lines
          /\ q.y = Lines - 1 => Address(q.x, q.y) >= Columns * (Lines - 1)
      <4>1. OnPage(q)
        BY <1>12
      <4> QED
        BY <4>1, OnPageFacts
    <3>2. ~(Address(q.x, q.y) >= Columns * (Lines - 1))
      <4>1. PICK C, m : C \in Nat /\ C = Columns /\ n < C /\ m = Columns * (Lines - 1) /\ m = B + 3 * C
        BY <1>1, <1>3
      <4>2. PICK a : a = Address(q.x, q.y) /\ a = B + 2 * C + n
        BY <1>12, <4>1
      <4> QED
        BY <1>3, <4>1, <4>2
    <3>3. Lines \in Nat
      BY Layout
    <3> QED
      BY <3>1, <3>2, <3>3
  <2> QED
    BY <1>8, <1>12, <2>2, <2>3, NewlineMoves
<1>14. ASSUME NEW c \in 0 .. Columns - 1
       PROVE  q.text[Address(c, StackLine)] = IF c < n THEN t[c + 1] ELSE Space
  <2>1. Address(c, StackLine) = B + 2 * Columns + c /\ c \in Nat /\ c < Columns
    BY <1>1
  <2>2. PICK k : k = B + 2 * Columns + c /\ k \in Cell /\ k \in B + 2 * Columns .. B + 3 * Columns
    <3>1. PICK k : k = B + 2 * Columns + c
      OBVIOUS
    <3>2. PICK m \in Nat : m = Columns * Lines /\ m = B + 4 * Columns
      BY <1>1
    <3>3. k \in 0 .. m - 1 /\ k \in B + 2 * Columns .. B + 3 * Columns
      <4>1. PICK C \in Nat : C = Columns /\ c < C /\ m = B + 4 * C /\ k = B + 2 * C + c
        BY <1>1, <2>1, <3>1, <3>2
      <4>2. c \in Nat /\ k \in 0 .. m - 1 /\ k \in B + 2 * C .. B + 3 * C
        BY <2>1, <4>1
      <4> QED
        BY <4>1, <4>2
    <3>4. k \in 0 .. m
      BY <3>3
    <3> QED
      BY <3>1, <3>2, <3>3, <3>4 DEF Cell
  <2>3. CASE c < n
    <3>1. c + 1 \in 1 .. n /\ B + 2 * Columns + (c + 1) - 1 = k
      BY <1>1, <2>1, <2>2, <2>3
    <3> QED
      BY <1>12, <2>1, <2>2, <2>3, <3>1
  <2>4. CASE ~(c < n)
    <3>1. k \notin B + 2 * Columns .. B + 2 * Columns + n - 1
      BY <1>1, <2>1, <2>2, <2>4
    <3> QED
      BY <1>6, <1>12, <2>1, <2>2, <2>4, <3>1
  <2> QED
    BY <2>3, <2>4
<1>15. ASSUME NEW k \in Cell, k < Address(0, StackLine)
       PROVE  q.text[k] = s.text[k]
  <2>1. k < B + 2 * Columns
    BY <1>1, <1>15
  <2>2. k \in Int
    BY <1>1 DEF Cell
  <2>3. k \notin B + 2 * Columns .. B + 2 * Columns + n - 1 /\ k \notin B + 2 * Columns .. B + 3 * Columns
    BY <1>1, <2>1, <2>2
  <2> QED
    BY <1>6, <1>12, <2>3
<1> QED
  BY <1>2, <1>3, <1>13, <1>14, <1>15

-----------------------------------------------------------------------------
(* The lines of the prompt: a command finds them empty.                    *)

Empty(s) ==
  \A k \in Cell : Address(1, PromptLine) <= k /\ k <= Address(Columns - 1, ErrorLine) =>
    s.text[k] = Space

(* What stands on them when a command is over. *)
Ready(s, error) ==
  /\ s.x = 2 /\ s.y = PromptLine
  /\ LineReads(s.text, PromptLine, 1, <<>>) /\ LineReads(s.text, ErrorLine, 0, error)

LEMMA EmptyReads ==
  ASSUME NEW s, Empty(s)
  PROVE  LineReads(s.text, PromptLine, 1, <<>>) /\ LineReads(s.text, ErrorLine, 0, <<>>)
<1>1. PICK B \in Nat, C \in Nat :
        /\ C = Columns /\ C >= 2
        /\ \A x \in Int : Address(x, PromptLine) = x + B /\ Address(x, ErrorLine) = x + B + C
  BY LinesBegin
<1>2. Address(1, PromptLine) = 1 + B /\ Address(Columns - 1, ErrorLine) = (C - 1) + B + C
  BY <1>1, 1 \in Int, C - 1 \in Int
<1>3. ASSUME NEW c \in 0 .. Columns - 1
      PROVE  /\ c >= 1 => s.text[Address(c, PromptLine)] = Space
             /\ s.text[Address(c, ErrorLine)] = Space
  <2>1. c \in 0 .. Columns /\ c \in Int /\ c >= 0 /\ c <= C - 1
    BY <1>1
  <2>2. Address(c, PromptLine) \in Cell /\ Address(c, ErrorLine) \in Cell
    BY <2>1, Layout, PlaceIsCell
  <2>3. Address(c, PromptLine) = c + B /\ Address(c, ErrorLine) = c + B + C
    BY <1>1, <2>1
  <2>4. c >= 1 => 1 + B <= c + B /\ c + B <= (C - 1) + B + C
    BY <1>1, <2>1
  <2>5. 1 + B <= c + B + C /\ c + B + C <= (C - 1) + B + C
    BY <1>1, <2>1
  <2> QED
    BY <1>2, <2>2, <2>3, <2>4, <2>5 DEF Empty
<1>4. \A c \in 1 .. Columns - 1 : c \in 0 .. Columns - 1 /\ c >= 1 /\ ~(c - 1 < 0)
  BY <1>1
<1>5. \A c \in 0 .. Columns - 1 : ~(c - 0 < 0)
  BY <1>1
<1>6. Len(<<>>) = 0
  OBVIOUS
<1> QED
  BY <1>3, <1>4, <1>5, <1>6 DEF LineReads

LEMMA ErasedIsEmpty ==
  ASSUME NEW s, Sound(s)
  PROVE  /\ Sound(CommandPromptErase(s)) /\ Empty(CommandPromptErase(s))
         /\ CommandPromptErase(s).x = 2 /\ CommandPromptErase(s).y = PromptLine
         /\ CommandPromptErase(s).led = 0
<1>1. PICK a \in Cell, b \in Cell : a = Address(1, PromptLine) /\ b = Address(Columns - 1, ErrorLine)
  BY Layout, PlaceIsCell
<1>2. PICK g : g = Filled(s, a, b, Space) /\ Sound(g)
  BY SoundFilled
<1>3. \A k \in Cell : g.text[k] = IF k \in a .. b THEN Space ELSE s.text[k]
  BY <1>2, FilledText
<1>4. CommandPromptErase(s) = CommandPrompt(g)
  BY <1>1, <1>2 DEF CommandPromptErase
<1>5. PICK r : /\ r = CommandPrompt(g) /\ r.text = g.text /\ r.x = 2 /\ r.y = PromptLine
               /\ r.led = 0 /\ Sound(r)
  BY <1>2, PromptFields
<1>6. Empty(r)
  <2> SUFFICES ASSUME NEW k \in Cell, a <= k, k <= b PROVE r.text[k] = Space
    BY <1>1 DEF Empty
  <2>1. k \in a .. b
    <3>1. Cell \subseteq Int
      BY DEF Cell
    <3> QED
      BY <3>1
  <2> QED
    BY <1>3, <1>5, <2>1
<1> QED
  BY <1>4, <1>5, <1>6

(* Letters from a place on the page. *)
LEMMA LettersWritten ==
  ASSUME NEW s, OnPage(s), NEW chars \in Seq(Nat)
  PROVE  /\ OnPage(Write(s, chars))
         /\ \/ /\ Write(s, chars).y = Lines - 1
               /\ Address(s.x, s.y) + Len(chars) >= Columns * (Lines - 1)
            \/ Ran(s, Write(s, chars), chars, 0, Len(chars))
<1>1. PICK n \in Nat : n = Len(chars)
  OBVIOUS
<1>2. PICK f : Write(s, chars) = f[n] /\ Written(f, s, chars, n)
  BY <1>1, WriteIs
<1>3. f[0] = s
  BY <1>2 DEF Written
<1>4. 0 \in Nat /\ 0 + n <= n /\ 0 + n = n
  BY <1>1
<1>5. \A i \in 1 .. n : chars[0 + i] \in Nat
  <2>1. \A i \in 1 .. n : 0 + i = i /\ chars[i] \in Nat
    BY <1>1
  <2> QED
    BY <2>1
<1>6. /\ OnPage(f[0 + n])
      /\ \/ /\ f[0 + n].y = Lines - 1
            /\ Address(f[0].x, f[0].y) + n >= Columns * (Lines - 1)
         \/ Ran(f[0], f[0 + n], chars, 0, n)
  BY <1>2, <1>3, <1>4, <1>5, LettersRun
<1> QED
  BY <1>1, <1>2, <1>3, <1>4, <1>6

(* A place on a line above another is in front of it. *)
LEMMA PlacesBefore ==
  ASSUME NEW x \in Nat, NEW y \in Nat, x < Columns, NEW line \in 0 .. Lines - 1
  PROVE  /\ y < line => Address(x, y) < Address(0, line)
         /\ ~(y < line) => Address(0, line) <= Address(x, y)
<1>1. PICK C \in Nat, m \in Nat : C = Columns /\ m = line /\ C >= 2
  BY Layout
<1>2. CASE y < line
  <2>1. PICK d \in Nat : m = y + 1 + d
    BY <1>1, <1>2, m - 1 - y \in Nat, m = y + 1 + (m - 1 - y)
  <2>2. PICK a \in Nat, b \in Nat : a = C * y /\ b = C * d
    BY <1>1
  <2>3. C * m = a + C + b
    BY <1>1, <2>1, <2>2
  <2>4. Address(x, y) = x + a /\ Address(0, line) = 0 + (a + C + b)
    BY <1>1, <2>2, <2>3 DEF Address
  <2> QED
    BY <1>1, <1>2, <2>2, <2>4
<1>3. CASE ~(y < line)
  <2>1. PICK d \in Nat : y = m + d
    BY <1>1, <1>3, y - m \in Nat, y = m + (y - m)
  <2>2. PICK a \in Nat, b \in Nat : a = C * m /\ b = C * d
    BY <1>1
  <2>3. C * y = a + b
    BY <1>1, <2>1, <2>2
  <2>4. Address(0, line) = 0 + a /\ Address(x, y) = x + (a + b)
    BY <1>1, <2>2, <2>3 DEF Address
  <2> QED
    BY <1>1, <1>3, <2>2, <2>4
<1> QED
  BY <1>2, <1>3

(* They leave the lines of the prompt empty as long as they do not reach   *)
(* them, whatever number of lines they take.                               *)
LEMMA LettersAbove ==
  ASSUME NEW s, OnPage(s), NEW chars \in Seq(Nat)
  PROVE  /\ Write(s, chars).y < PromptLine =>
              s.y < PromptLine /\ (Empty(s) => Empty(Write(s, chars)))
         /\ s.x = 0 /\ s.y = OutputLine /\ Empty(s) /\ Len(chars) <= 3 * Columns =>
              Empty(Write(s, chars))
<1>1. PICK B \in Nat, C \in Nat :
        /\ C = Columns /\ C >= 2 /\ B >= 4 * C /\ Columns * (Lines - 1) = B + 3 * C
        /\ \A x \in Int : /\ Address(x, OutputLine) = x + B - 3 * C
                          /\ Address(x, PromptLine) = x + B
  BY LinesBegin
<1>2. PICK n \in Nat : n = Len(chars)
  OBVIOUS
<1>3. PICK r : r = Write(s, chars) /\ OnPage(r)
  BY LettersWritten
<1>4. \/ r.y = Lines - 1 /\ Address(s.x, s.y) + n >= B + 3 * C
      \/ Ran(s, r, chars, 0, n)
  BY <1>1, <1>2, <1>3, LettersWritten
<1>5. PICK a \in Nat : a = Address(s.x, s.y)
  BY OnPageFacts
<1>6. Address(1, PromptLine) = 1 + B
  BY <1>1, 1 \in Int
<1>7. ASSUME a + n <= B, Ran(s, r, chars, 0, n), Empty(s)
      PROVE  Empty(r)
  <2> SUFFICES ASSUME NEW k \in Cell, 1 + B <= k, k <= Address(Columns - 1, ErrorLine)
               PROVE  r.text[k] = Space
    BY <1>6 DEF Empty
  <2>1. k \in Int
    BY DEF Cell
  <2>2. k \notin a .. a + n - 1
    BY <1>7, <2>1
  <2>3. r.text[k] = s.text[k]
    BY <1>5, <1>7, <2>2 DEF Ran
  <2>4. s.text[k] = Space
    BY <1>6, <1>7 DEF Empty
  <2> QED
    BY <2>3, <2>4
<1>8. ASSUME r.y < PromptLine PROVE s.y < PromptLine /\ (Empty(s) => Empty(r))
  <2>1. r.y # Lines - 1
    BY <1>8, Layout DEF PromptLine
  <2>2. Ran(s, r, chars, 0, n)
    BY <1>4, <2>1
  <2>3. Address(r.x, r.y) = a + n
    BY <1>5, <2>2 DEF Ran
  <2>4. Address(r.x, r.y) < B
    <3>1. OnPage(r)
      BY <1>3
    <3>2. r.x \in Nat /\ r.y \in Nat /\ r.x < Columns
      BY <3>1, OnPageFacts
    <3>3. Address(r.x, r.y) < Address(0, PromptLine)
      BY <1>8, <3>2, Layout, PlacesBefore
    <3> QED
      BY <1>1, <3>3, 0 \in Int
  <2>5. a < B /\ a + n <= B
    BY <2>3, <2>4
  <2>6. s.y < PromptLine
    <3>1. s.x \in Nat /\ s.y \in Nat /\ s.x < Columns
      BY OnPageFacts
    <3>2. ~(s.y < PromptLine) => Address(0, PromptLine) <= Address(s.x, s.y)
      BY <3>1, Layout, PlacesBefore
    <3>3. Address(0, PromptLine) = 0 + B
      BY <1>1, 0 \in Int
    <3>4. ~(Address(0, PromptLine) <= Address(s.x, s.y))
      BY <1>1, <1>5, <2>5, <3>3
    <3> QED
      BY <3>2, <3>4
  <2> QED
    BY <1>7, <2>2, <2>5, <2>6
<1>9. ASSUME s.x = 0, s.y = OutputLine, Empty(s), n <= 3 * C PROVE Empty(r)
  <2>1. Address(0, OutputLine) = 0 + B - 3 * C
    BY <1>1, 0 \in Int
  <2>2. a = B - 3 * C
    BY <1>1, <1>5, <1>9, <2>1
  <2>3. a + n <= B /\ ~(a + n >= B + 3 * C)
    BY <1>1, <1>9, <2>2
  <2> QED
    BY <1>4, <1>5, <1>7, <1>9, <2>3
<1> QED
  BY <1>1, <1>2, <1>3, <1>8, <1>9

(* The prompt after the stack was drawn, and after an error. *)
LEMMA StackLeavesPrompt ==
  ASSUME NEW s, Sound(s), Empty(s), NEW st, Tuple(st), NEW hex, Len(StackText(st, hex)) < Columns
  PROVE  Ready(CommandPrompt(DotS(s, st, hex)), <<>>)
<1>1. PICK d : d = DotS(s, st, hex) /\ Sound(d)
  BY DotSBlinks DEF Blinks
<1>2. \A k \in Cell : k < Address(0, StackLine) => d.text[k] = s.text[k]
  BY <1>1, DotSDraws
<1>3. PICK B \in Nat, C \in Nat :
        /\ C = Columns /\ C >= 2
        /\ \A x \in Int : Address(x, ErrorLine) = x + B + C /\ Address(x, StackLine) = x + B + 2 * C
  BY LinesBegin
<1>4. Address(Columns - 1, ErrorLine) = (C - 1) + B + C /\ Address(0, StackLine) = 0 + B + 2 * C
  BY <1>3, 0 \in Int, C - 1 \in Int
<1>5. PICK r : /\ r = CommandPrompt(d) /\ r.text = d.text /\ r.x = 2 /\ r.y = PromptLine
  BY <1>1, PromptFields
<1>6. Empty(r)
  <2> SUFFICES ASSUME NEW k \in Cell, Address(1, PromptLine) <= k, k <= Address(Columns - 1, ErrorLine)
               PROVE  r.text[k] = Space
    BY DEF Empty
  <2>1. k \in Int
    BY DEF Cell
  <2>2. k < Address(0, StackLine)
    BY <1>3, <1>4, <2>1
  <2>3. s.text[k] = Space
    BY DEF Empty
  <2> QED
    BY <1>2, <1>5, <2>2, <2>3
<1> QED
  BY <1>1, <1>5, <1>6, EmptyReads DEF Ready

LEMMA ErrorOnItsLine ==
  ASSUME NEW s, Sound(s), Empty(s)
  PROVE  Ready(CommandPrompt(Write(SetPosition(SetPosition(s, 0, OutputLine), 0, ErrorLine),
                                   <<ErrorText>>)), <<ErrorText>>)
<1>1. PICK B \in Nat, C \in Nat :
        /\ C = Columns /\ C >= 2 /\ Columns * (Lines - 1) = B + 3 * C
        /\ \A x \in Int : Address(x, PromptLine) = x + B /\ Address(x, ErrorLine) = x + B + C
  BY LinesBegin
<1>2. PICK o : o = SetPosition(s, 0, OutputLine) /\ Sound(o) /\ o.text = s.text
  <2>1. 0 \in 0 .. Columns /\ OutputLine \in 0 .. Lines - 1
    BY Layout
  <2> QED
    BY <2>1, SetFields, SoundSetPosition
<1>3. PICK e : /\ e = SetPosition(o, 0, ErrorLine) /\ OnPage(e) /\ e.text = s.text
               /\ e.x = 0 /\ e.y = ErrorLine
  <2>1. 0 \in 0 .. Columns /\ ErrorLine \in 0 .. Lines - 1 /\ 0 < Columns
    BY Layout
  <2>2. /\ SetPosition(o, 0, ErrorLine).text = o.text /\ SetPosition(o, 0, ErrorLine).x = 0
        /\ SetPosition(o, 0, ErrorLine).y = ErrorLine /\ OnPage(SetPosition(o, 0, ErrorLine))
    BY <1>2, <2>1, SetFields
  <2> QED
    BY <1>2, <2>2
<1>4. Address(e.x, e.y) = B + C
  <2>1. Address(0, ErrorLine) = 0 + B + C
    BY <1>1, 0 \in Int
  <2> QED
    BY <1>1, <1>3, <2>1
<1>5. PICK t \in Seq(Nat) : t = <<ErrorText>> /\ Len(t) = 1 /\ t[1] = ErrorText
  <2>1. ErrorText \in Nat
    BY DEF ErrorText
  <2>2. <<ErrorText>> \in Seq(Nat) /\ Len(<<ErrorText>>) = 1 /\ <<ErrorText>>[1] = ErrorText
    BY <2>1
  <2> QED
    BY <2>2
<1>6. PICK w : w = Write(e, t) /\ OnPage(w) /\ Ran(e, w, t, 0, 1)
  <2>1. /\ OnPage(Write(e, t))
        /\ \/ Address(e.x, e.y) + 1 >= Columns * (Lines - 1)
           \/ Ran(e, Write(e, t), t, 0, 1)
    BY <1>3, <1>5, LettersWritten
  <2>2. ~(Address(e.x, e.y) + 1 >= Columns * (Lines - 1))
    BY <1>1, <1>4
  <2> QED
    BY <2>1, <2>2
<1>7. /\ w.text[B + C] = ErrorText
      /\ \A k \in Cell : k # B + C => w.text[k] = s.text[k]
  <2>1. w.text[(B + C) + 1 - 1] = t[0 + 1]
    BY <1>4, <1>6, 1 \in 1 .. 1 DEF Ran
  <2>2. (B + C) + 1 - 1 = B + C /\ t[0 + 1] = ErrorText
    BY <1>5
  <2>3. ASSUME NEW k \in Cell, k # B + C PROVE w.text[k] = s.text[k]
    <3>1. k \notin (B + C) .. (B + C) + 1 - 1
      BY <2>3
    <3> QED
      BY <1>3, <1>4, <1>6, <3>1 DEF Ran
  <2> QED
    BY <2>1, <2>2, <2>3
<1>8. PICK r : /\ r = CommandPrompt(w) /\ r.text = w.text /\ r.x = 2 /\ r.y = PromptLine
  BY <1>6, PromptFields DEF OnPage
<1>9. Address(1, PromptLine) = 1 + B /\ Address(Columns - 1, ErrorLine) = (C - 1) + B + C
  BY <1>1, 1 \in Int, C - 1 \in Int
<1>10. ASSUME NEW k \in Cell, 1 + B <= k, k <= (C - 1) + B + C, k # B + C
       PROVE  r.text[k] = Space
  BY <1>7, <1>8, <1>9, <1>10 DEF Empty
<1>11. ASSUME NEW c \in 1 .. Columns - 1
       PROVE  r.text[Address(c, PromptLine)] = Space /\ r.text[Address(c, ErrorLine)] = Space
  <2>1. c \in 0 .. Columns /\ c \in Int /\ c >= 1 /\ c <= C - 1
    BY <1>1
  <2>2. Address(c, PromptLine) \in Cell /\ Address(c, ErrorLine) \in Cell
    BY <2>1, Layout, PlaceIsCell
  <2>3. Address(c, PromptLine) = c + B /\ Address(c, ErrorLine) = c + B + C
    BY <1>1, <2>1
  <2>4. /\ 1 + B <= c + B /\ c + B <= (C - 1) + B + C /\ c + B # B + C
        /\ 1 + B <= c + B + C /\ c + B + C <= (C - 1) + B + C /\ c + B + C # B + C
    <3>1. C \in Nat /\ B \in Nat /\ C >= 2
      BY <1>1
    <3> QED
      BY <2>1, <3>1
  <2> QED
    BY <1>10, <2>2, <2>3, <2>4
<1>12. LineReads(r.text, PromptLine, 1, <<>>)
  <2>1. \A c \in 1 .. Columns - 1 : ~(c - 1 < 0)
    BY <1>1
  <2> QED
    BY <1>11, <2>1, Len(<<>>) = 0 DEF LineReads
<1>13. LineReads(r.text, ErrorLine, 0, t)
  <2> SUFFICES ASSUME NEW c \in 0 .. Columns - 1
               PROVE  r.text[Address(c, ErrorLine)] = IF c - 0 < Len(t) THEN t[c - 0 + 1] ELSE Space
    BY DEF LineReads
  <2>1. CASE c = 0
    <3>1. Address(c, ErrorLine) = B + C /\ c - 0 < 1 /\ c - 0 + 1 = 1
      BY <1>1, <2>1, 0 \in Int
    <3> QED
      BY <1>5, <1>7, <1>8, <3>1
  <2>2. CASE c # 0
    <3>1. c \in 1 .. Columns - 1 /\ ~(c - 0 < 1)
      BY <1>1, <2>2
    <3> QED
      BY <1>5, <1>11, <3>1
  <2> QED
    BY <2>1, <2>2
<1> QED
  BY <1>2, <1>3, <1>5, <1>6, <1>8, <1>12, <1>13 DEF Ready

-----------------------------------------------------------------------------
(* What a command writes fits on the lines of the output.                  *)
LEMMA SaidFits ==
  ASSUME NEW c
  PROVE  Said(c) \in Seq(Nat) /\ Len(Said(c)) <= 3 * Columns
<1>1. Columns \in Nat /\ CellBits \in Nat /\ 3 * Columns >= CellBits + 3
  BY Layout, DisplayAssumption, WordsAssumption DEF DisplayAssumption, WordsAssumption
<1>2. PICK t \in Seq(Nat) : t = Itoa(FromTop(0), 10) /\ Len(t) <= CellBits + 2
  BY ItoaIsSeq
<1>3. PICK b \in Seq(Nat) : b = <<Space>> /\ Len(b) = 1
  <2>1. Space \in Nat
    BY DEF Space
  <2>2. <<Space>> \in Seq(Nat) /\ Len(<<Space>>) = 1
    BY <2>1
  <2> QED
    BY <2>2
<1>4. t \o b \in Seq(Nat) /\ Len(t \o b) = Len(t) + 1 /\ Len(t) \in Nat
  BY <1>3, Longer
<1>5. Len(t \o b) <= 3 * Columns
  BY <1>1, <1>2, <1>4
<1>6. PICK none \in Seq(Nat) : none = <<>> /\ Len(none) = 0
  BY ZeroIsSeq
<1>7. Len(none) <= 3 * Columns
  BY <1>1, <1>6
<1>8. Said(c) = t \o b \/ Said(c) = none
  BY <1>2, <1>3, <1>6 DEF Said
<1> QED
  BY <1>4, <1>5, <1>7, <1>8

(* The calls that are open: the cell that a block is at is a number. *)
Counted(f) == {"kind", "at", "to"} \subseteq DOMAIN f /\ (f.kind = "run" => f.to \in Nat)

Calls(t) == \E V : t \in Seq(V) /\ \A f \in V : Counted(f)

LEMMA CallsFacts ==
  ASSUME NEW t, Calls(t)
  PROVE  /\ \A f : Counted(f) => Calls(Append(t, f)) /\ Append(t, f) # <<>>
         /\ t # <<>> => Calls(Front(t)) /\ Counted(Last(t))
<1>1. PICK V : t \in Seq(V) /\ \A f \in V : Counted(f)
  BY DEF Calls
<1>2. ASSUME NEW f, Counted(f) PROVE Calls(Append(t, f)) /\ Append(t, f) # <<>>
  <2>0. PICK W : W = V \cup {f}
    OBVIOUS
  <2>1. f \in W /\ \A g \in W : Counted(g)
    BY <1>1, <1>2, <2>0
  <2>2. t \in Seq(W)
    BY <1>1, <2>0, LargerSeq
  <2>3. Append(t, f) \in Seq(W) /\ Append(t, f) # <<>>
    BY <2>1, <2>2
  <2> QED
    BY <2>1, <2>3 DEF Calls
<1>3. ASSUME t # <<>> PROVE Calls(Front(t)) /\ Counted(Last(t))
  <2>1. PICK n \in Nat : n = Len(t) - 1 /\ n + 1 = Len(t) /\ Len(t) \in 1 .. Len(t)
    BY <1>1, <1>3
  <2>2. Front(t) \in Seq(V)
    BY <1>1, <2>1 DEF Front
  <2>3. Last(t) \in V
    BY <1>1, <2>1 DEF Last
  <2> QED
    BY <1>1, <2>2, <2>3 DEF Calls
<1> QED
  BY <1>2, <1>3

LEMMA NoCalls == Calls(<<>>)
<1>1. PICK V : V = {}
  OBVIOUS
<1>2. <<>> \in Seq(V) /\ \A f \in V : Counted(f)
  BY <1>1
<1> QED
  BY <1>2 DEF Calls

(* The calls that are open after a cell. *)
LEMMA DispatchCalls ==
  ASSUME NEW c, NEW calls, Dispatch(c, calls)
  PROVE  frames' = calls \/ frames' = frames \/ \E f : Counted(f) /\ frames' = Append(calls, f)
<1>1. ASSUME NEW v, Push(v, calls) PROVE frames' = calls \/ frames' = frames
  BY <1>1 DEF Push, Becomes, Breaks
<1>2. ASSUME NEW code, Execute(code, calls)
      PROVE  frames' = calls \/ frames' = frames \/ \E f : Counted(f) /\ frames' = Append(calls, f)
  <2>1. CASE Load(calls)
    <3>1. Counted(Run(FromTop(0)))
      BY DEF Counted, Run
    <3> QED
      BY <2>1, <3>1 DEF Load, Becomes, Breaks
  <2>2. CASE Loads(calls)
    <3>1. Counted(Span(FromTop(1), FromTop(0)))
      BY DEF Counted, Span
    <3> QED
      BY <2>2, <3>1 DEF Loads, Becomes, Breaks
  <2>3. CASE Becomes(stack, calls) \/ Add(calls) \/ Divide(calls) \/ Dot(calls)
    BY <2>3 DEF Add, Divide, Dot, Becomes, Breaks
  <2> QED
    BY <1>2, <2>1, <2>2, <2>3 DEF Execute
<1> QED
  BY <1>1, <1>2 DEF Dispatch, Becomes

(* While a block runs, the position is on the page, and the lines of the   *)
(* prompt are empty as long as the output has not reached them.            *)
RunInv ==
  /\ Calls(frames) /\ (~booted => frames = <<>>)
  /\ frames # <<>> => OnPage(screen) /\ (screen.y < PromptLine => Empty(screen))

LEMMA RunInvInit == DInit => RunInv
  BY NoCalls DEF DInit, Init, ForthInit, RunInv

LEMMA PlainKeyWaits ==
  ASSUME PlainKey
  PROVE  frames = <<>> /\ frames' = frames
<1>1. CASE \E c \in {Newline, Backspace, Tab, NoLetter} : ControlKey(c)
  BY <1>1 DEF ControlKey, Control, Waiting, forthVars
<1>2. CASE \E dx, dy \in {-1, 0, 1} : dx * dy = 0 /\ dx # dy /\ ArrowKey(dx, dy)
  BY <1>2 DEF ArrowKey, OtherKey, Show, Waiting, forthVars
<1>3. CASE \E w \in Vocabulary : LetterKey(w)
  BY <1>3 DEF LetterKey, Type, Waiting, forthVars
<1>4. CASE (\E k \in ColorLetter : ColorKey(k)) \/ LeaveKey
  BY <1>4 DEF ColorKey, LeaveKey, Select, Waiting, forthVars
<1>5. CASE BlankKey \/ EscapeKey \/ F2Key
  BY <1>5 DEF BlankKey, Blank, EscapeKey, Escape, F2Key, F2, Waiting, forthVars
<1>6. CASE F1Key
  BY <1>6 DEF F1Key, vars, Waiting, forthVars
<1>7. CASE NoPageKey \/ PageKey
  BY <1>7 DEF NoPageKey, OtherKey, PageKey, PageUp, PageDown, Show, Waiting, forthVars
<1> QED
  BY <1>1, <1>2, <1>3, <1>4, <1>5, <1>6, <1>7 DEF PlainKey

(* What the screen is after a command. *)
LEMMA CommandScreens ==
  ASSUME Sound(screen), CommandKey
  PROVE  \E e : /\ Sound(e) /\ Empty(e) /\ e.x = 2 /\ e.y = PromptLine /\ e.led = 0
                /\ \/ NoLetter \in Range(word)
                   \/ IsNumber(word) /\ screen' = Answered(e)
                   \/ /\ Named /\ Lookup(Pack(word)) = "none"
                      /\ screen' = CommandPrompt(Write(SetPosition(SetPosition(e, 0, OutputLine), 0, ErrorLine),
                                                       <<ErrorText>>))
                   \/ /\ Named /\ Lookup(Pack(word)) # "none"
                      /\ \E said \in Seq(Nat) :
                           /\ Len(said) <= 3 * Columns
                           /\ screen' = Answered(Write(SetPosition(e, 0, OutputLine), said))
<1>1. PICK e : /\ e = CommandPromptErase(screen)
               /\ Sound(e) /\ Empty(e) /\ e.x = 2 /\ e.y = PromptLine /\ e.led = 0
  BY ErasedIsEmpty
<1>2. screen' = IF NoLetter \in Range(word) THEN screen
                ELSE IF IsNumber(word) THEN Answered(e)
                ELSE IF Lookup(Pack(word)) = "none"
                THEN CommandPrompt(Write(SetPosition(SetPosition(e, 0, OutputLine), 0, ErrorLine), <<ErrorText>>))
                ELSE Answered(Write(SetPosition(e, 0, OutputLine), Said(Word(Pack(word)))))
  BY <1>1 DEF CommandKey
<1>3. PICK said \in Seq(Nat) : said = Said(Word(Pack(word))) /\ Len(said) <= 3 * Columns
  BY SaidFits
<1> QED
  BY <1>1, <1>2, <1>3 DEF Named

(* The output of a command begins on its line. *)
LEMMA OutputBegins ==
  ASSUME NEW e, Sound(e), Empty(e)
  PROVE  \E o : /\ o = SetPosition(e, 0, OutputLine) /\ OnPage(o) /\ Empty(o)
                /\ o.x = 0 /\ o.y = OutputLine
<1>1. 0 \in 0 .. Columns /\ OutputLine \in 0 .. Lines - 1 /\ 0 < Columns
  BY Layout
<1>2. PICK o : /\ o = SetPosition(e, 0, OutputLine) /\ o.text = e.text /\ OnPage(o)
               /\ o.x = 0 /\ o.y = OutputLine
  BY <1>1, SetFields
<1>3. Empty(o)
  BY <1>2 DEF Empty
<1> QED
  BY <1>2, <1>3

(* Only a built-in word goes on with a block. *)
LEMMA OnlyBuiltInRuns ==
  ASSUME Command, frames' # <<>>
  PROVE  Named /\ Lookup(Pack(word)) # "none"
<1>1. frames = <<>>
  BY DEF Command, Waiting
<1>2. ASSUME NEW v, Dispatch(Number(v), <<>>) PROVE FALSE
  <2>1. Number(v).color = NumberTag /\ NumberTag # WordTag
    BY DEF Number, NumberTag, WordTag
  <2>2. Push(Number(v).cell \div 32, <<>>)
    BY <1>2, <2>1 DEF Dispatch
  <2> QED
    BY <1>1, <2>2 DEF Push, Becomes, Breaks
<1> QED
  BY <1>1, <1>2 DEF Command, Breaks, forthVars

LEMMA CommandRuns ==
  ASSUME DrawInv, RunInv, CommandKey, booted, booted' = booted
  PROVE  RunInv'
<1>1. Command /\ frames = <<>> /\ Sound(screen)
  BY DEF CommandKey, Command, Waiting, DrawInv
<1>2. frames' = <<>> \/ \E f : Counted(f) /\ frames' = Append(<<>>, f)
  BY <1>1, DispatchCalls DEF Command, Breaks, forthVars
<1>3. Calls(frames')
  BY <1>2, NoCalls, CallsFacts
<1>4. ~booted' => frames' = <<>>
  OBVIOUS
<1>5. ASSUME frames' # <<>> PROVE OnPage(screen') /\ (screen'.y < PromptLine => Empty(screen'))
  <2>1. PICK e : /\ Sound(e) /\ Empty(e) /\ e.x = 2 /\ e.y = PromptLine /\ e.led = 0
                 /\ \/ NoLetter \in Range(word)
                    \/ IsNumber(word) /\ screen' = Answered(e)
                    \/ /\ Named /\ Lookup(Pack(word)) = "none"
                       /\ screen' = CommandPrompt(Write(SetPosition(SetPosition(e, 0, OutputLine), 0, ErrorLine),
                                                        <<ErrorText>>))
                    \/ /\ Named /\ Lookup(Pack(word)) # "none"
                       /\ \E said \in Seq(Nat) :
                            /\ Len(said) <= 3 * Columns
                            /\ screen' = Answered(Write(SetPosition(e, 0, OutputLine), said))
    BY <1>1, CommandScreens
  <2>2. \A s : Answered(s) = s
    BY <1>5 DEF Answered
  <2>4. CASE \E said \in Seq(Nat) : screen' = Answered(Write(SetPosition(e, 0, OutputLine), said))
    <3>1. PICK said \in Seq(Nat) : screen' = Write(SetPosition(e, 0, OutputLine), said)
      BY <2>2, <2>4
    <3>2. PICK o : o = SetPosition(e, 0, OutputLine) /\ OnPage(o) /\ Empty(o)
      BY <2>1, OutputBegins
    <3>3. OnPage(Write(o, said)) /\ (Write(o, said).y < PromptLine => Empty(Write(o, said)))
      BY <3>2, LettersWritten, LettersAbove
    <3> QED
      BY <3>1, <3>2, <3>3
  <2>5. Named /\ Lookup(Pack(word)) # "none"
    BY <1>1, <1>5, OnlyBuiltInRuns
  <2> QED
    BY <2>1, <2>4, <2>5 DEF Named
<1> QED
  BY <1>3, <1>4, <1>5 DEF RunInv

LEMMA InterpretCalls ==
  ASSUME Calls(frames), Interpret
  PROVE  /\ Calls(frames')
         /\ frames' = <<>> => RunDone \/ LoadsDone
         /\ RunDone => ~(Last(frames).to < BlockCells)
<1>1. frames # <<>>
  BY DEF Interpret, RunCell, RunDone, LoadNext, LoadsDone, Open
<1>2. \A t, f : Calls(t) /\ Counted(f) => Calls(Append(t, f)) /\ Append(t, f) # <<>>
  BY CallsFacts
<1>3. Calls(Front(frames)) /\ Counted(Last(frames))
  BY <1>1, CallsFacts
<1>4. CASE RunCell
  <2>1. Last(frames).kind = "run"
    BY <1>4 DEF RunCell, Open
  <2>2. PICK f : f = [Last(frames) EXCEPT !.to = @ + 1]
    OBVIOUS
  <2>3. Counted(f)
    BY <1>3, <2>1, <2>2 DEF Counted
  <2>4. PICK t : t = Append(Front(frames), f) /\ Calls(t) /\ t # <<>>
    BY <1>2, <1>3, <2>3
  <2>5. Dispatch(blocks[Last(frames).at][Last(frames).to], t)
    BY <1>4, <2>2, <2>4 DEF RunCell, Advanced
  <2>6. frames' = t \/ frames' = frames \/ \E g : Counted(g) /\ frames' = Append(t, g)
    BY <2>5, DispatchCalls
  <2>7. Calls(frames') /\ frames' # <<>>
    BY <1>1, <1>2, <2>4, <2>6
  <2>8. ~RunDone
    <3>1. Last(frames).to \in Nat
      BY <1>3, <2>1 DEF Counted
    <3>2. BlockCells \in Nat
      BY WordsAssumption DEF WordsAssumption
    <3> QED
      BY <1>4, <3>1, <3>2 DEF RunCell, RunDone
  <2> QED
    BY <2>7, <2>8
<1>5. CASE RunDone
  <2>1. Last(frames).kind = "run" /\ Last(frames).to >= BlockCells /\ frames' = Front(frames)
    BY <1>5 DEF RunDone, Open, Becomes
  <2>2. Last(frames).to \in Nat /\ BlockCells \in Nat
    BY <1>3, <2>1, WordsAssumption DEF Counted, WordsAssumption
  <2>3. ~(Last(frames).to < BlockCells)
    BY <2>1, <2>2
  <2> QED
    BY <1>3, <1>5, <2>1, <2>3
<1>6. CASE LoadsDone
  <2>1. Last(frames).kind = "loads" /\ frames' = Front(frames)
    BY <1>6 DEF LoadsDone, Open, Becomes
  <2>2. ~RunDone
    BY <2>1 DEF RunDone, Open
  <2> QED
    BY <1>3, <1>6, <2>1, <2>2
<1>7. CASE LoadNext
  <2>1. Last(frames).kind = "loads"
    BY <1>7 DEF LoadNext, Open
  <2>2. PICK f : f = [Last(frames) EXCEPT !.at = @ + Stride]
    OBVIOUS
  <2>3. Counted(f)
    BY <1>3, <2>1, <2>2 DEF Counted
  <2>4. PICK t : t = Append(Front(frames), f) /\ Calls(t) /\ t # <<>>
    BY <1>2, <1>3, <2>3
  <2>5. Counted(Run(Last(frames).at))
    BY DEF Counted, Run
  <2>6. frames' = Append(t, Run(Last(frames).at)) \/ frames' = frames
    BY <1>7, <2>2, <2>4 DEF LoadNext, Advanced, Becomes, Breaks
  <2>7. Calls(frames') /\ frames' # <<>>
    BY <1>1, <1>2, <2>4, <2>5, <2>6
  <2>8. ~RunDone
    BY <2>1 DEF RunDone, Open
  <2> QED
    BY <2>7, <2>8
<1> QED
  BY <1>4, <1>5, <1>6, <1>7 DEF Interpret

(* What a cell of a block writes. *)
LEMMA StepSays ==
  ASSUME RunStep
  PROVE  \E said \in Seq(Nat) : screen' = Answered(Write(screen, said))
<1> DEFINE f == Last(frames)
           said == IF f.kind = "run" /\ f.to < BlockCells THEN Said(blocks[f.at][f.to]) ELSE <<>>
<1>1. said \in Seq(Nat)
  BY SaidFits, ZeroIsSeq
<1>2. screen' = Answered(Write(screen, said))
  BY DEF RunStep
<1> HIDE DEF said
<1> QED
  BY <1>1, <1>2

LEMMA WriteNothing ==
  ASSUME NEW s
  PROVE  Write(s, <<>>) = s
<1>1. Len(<<>>) = 0
  OBVIOUS
<1>2. PICK f : Write(s, <<>>) = f[0] /\ Written(f, s, <<>>, 0)
  BY <1>1, WriteIs
<1> QED
  BY <1>2 DEF Written

LEMMA StepRuns ==
  ASSUME RunInv, RunStep, booted' = booted
  PROVE  RunInv'
<1>1. Interpret /\ frames # <<>> /\ OnPage(screen) /\ (screen.y < PromptLine => Empty(screen))
  BY DEF RunStep, Go, Interpret, RunCell, RunDone, LoadNext, LoadsDone, Open, RunInv
<1>2. Calls(frames') /\ booted'
  BY <1>1, InterpretCalls DEF RunInv
<1>3. PICK said \in Seq(Nat) : screen' = Answered(Write(screen, said))
  BY StepSays
<1>4. ASSUME frames' # <<>> PROVE OnPage(screen') /\ (screen'.y < PromptLine => Empty(screen'))
  <2>1. screen' = Write(screen, said)
    BY <1>3, <1>4 DEF Answered
  <2>2. /\ OnPage(Write(screen, said))
        /\ Write(screen, said).y < PromptLine =>
             screen.y < PromptLine /\ (Empty(screen) => Empty(Write(screen, said)))
    BY <1>1, LettersWritten, LettersAbove
  <2> QED
    BY <1>1, <2>1, <2>2
<1> QED
  BY <1>2, <1>4 DEF RunInv

LEMMA RunInvStep == DrawInv /\ RunInv /\ [DNext]_displayVars => RunInv'
<1> SUFFICES ASSUME DrawInv, RunInv, [DNext]_displayVars PROVE RunInv'
  OBVIOUS
<1>1. CASE UNCHANGED <<vars, screen, booted>>
  BY <1>1 DEF RunInv, Empty, vars, forthVars
<1>2. CASE ~booted /\ Boot
  BY <1>2 DEF Boot, RunInv
<1>3. CASE booted /\ booted' = booted /\ PlainKey
  BY <1>3, PlainKeyWaits DEF RunInv
<1>4. CASE booted /\ booted' = booted /\ CommandKey
  BY <1>4, CommandRuns
<1>5. CASE booted /\ booted' = booted /\ RunStep
  BY <1>5, StepRuns
<1>6. CASE UNCHANGED displayVars
  BY <1>1, <1>6 DEF displayVars
<1> QED
  BY <1>1, <1>2, <1>3, <1>4, <1>5, <1>6, DisplaySteps

(* A command that is over leaves the prompt ready for the next one. *)
LEMMA CommandLeavesPrompt ==
  ASSUME DrawInv, Tuple(stack'), CommandKey, Waiting', Len(StackText(stack', isHex)) < Columns
  PROVE  Ready(screen', IF Named /\ Lookup(Pack(word)) = "none" THEN <<ErrorText>> ELSE <<>>)
<1>1. Command /\ Sound(screen) /\ frames' = <<>> /\ ~broken'
  BY DEF CommandKey, DrawInv, Waiting
<1>2. NoLetter \notin Range(word)
  <2>1. ASSUME NoLetter \in Range(word), IsNumber(word) PROVE FALSE
    BY <2>1 DEF Range, IsNumber, NoLetter, Digit, Zero
  <2> QED
    BY <1>1, <2>1 DEF Command, Breaks, Named
<1>3. PICK e : /\ Sound(e) /\ Empty(e) /\ e.x = 2 /\ e.y = PromptLine /\ e.led = 0
               /\ \/ NoLetter \in Range(word)
                  \/ IsNumber(word) /\ screen' = Answered(e)
                  \/ /\ Named /\ Lookup(Pack(word)) = "none"
                     /\ screen' = CommandPrompt(Write(SetPosition(SetPosition(e, 0, OutputLine), 0, ErrorLine),
                                                      <<ErrorText>>))
                  \/ /\ Named /\ Lookup(Pack(word)) # "none"
                     /\ \E said \in Seq(Nat) :
                          /\ Len(said) <= 3 * Columns
                          /\ screen' = Answered(Write(SetPosition(e, 0, OutputLine), said))
  BY <1>1, CommandScreens
<1>4. \A s : Answered(s) = CommandPrompt(DotS(s, stack', isHex))
  BY <1>1 DEF Answered
<1>5. CASE IsNumber(word) /\ screen' = Answered(e)
  <2>1. Ready(screen', <<>>)
    BY <1>3, <1>4, <1>5, StackLeavesPrompt
  <2> QED
    BY <1>5, <2>1 DEF Named
<1>6. CASE /\ Named /\ Lookup(Pack(word)) = "none"
           /\ screen' = CommandPrompt(Write(SetPosition(SetPosition(e, 0, OutputLine), 0, ErrorLine),
                                            <<ErrorText>>))
  BY <1>3, <1>6, ErrorOnItsLine
<1>7. CASE /\ Named /\ Lookup(Pack(word)) # "none"
           /\ \E said \in Seq(Nat) :
                /\ Len(said) <= 3 * Columns
                /\ screen' = Answered(Write(SetPosition(e, 0, OutputLine), said))
  <2>1. PICK said \in Seq(Nat) : /\ Len(said) <= 3 * Columns
                                 /\ screen' = Answered(Write(SetPosition(e, 0, OutputLine), said))
    BY <1>7
  <2>2. PICK o : /\ o = SetPosition(e, 0, OutputLine) /\ OnPage(o) /\ Empty(o)
                 /\ o.x = 0 /\ o.y = OutputLine
    BY <1>3, OutputBegins
  <2>3. PICK r : r = Write(o, said) /\ OnPage(r) /\ Empty(r)
    BY <2>1, <2>2, LettersWritten, LettersAbove
  <2>4. Sound(r)
    BY <2>3 DEF OnPage
  <2>5. screen' = CommandPrompt(DotS(r, stack', isHex))
    BY <1>4, <2>1, <2>2, <2>3
  <2>6. Ready(screen', <<>>)
    BY <2>3, <2>4, <2>5, StackLeavesPrompt
  <2> QED
    BY <1>7, <2>6
<1> QED
  BY <1>2, <1>3, <1>5, <1>6, <1>7

LEMMA StepLeavesPrompt ==
  ASSUME RunInv, WordInv, Tuple(stack'), RunStep, screen.y < PromptLine, Waiting',
         Len(StackText(stack', isHex)) < Columns
  PROVE  Ready(screen', <<>>) /\ ~Named
<1>1. Interpret /\ frames # <<>> /\ OnPage(screen) /\ Empty(screen)
  BY DEF RunStep, Go, Interpret, RunCell, RunDone, LoadNext, LoadsDone, Open, RunInv
<1>2. frames' = <<>> /\ ~broken'
  BY DEF Waiting
<1>3. RunDone \/ LoadsDone
  BY <1>1, <1>2, InterpretCalls DEF RunInv
<1>4. screen' = Answered(Write(screen, <<>>))
  <2>1. ~(Last(frames).kind = "run" /\ Last(frames).to < BlockCells)
    <3>1. RunDone => ~(Last(frames).to < BlockCells)
      BY <1>1, InterpretCalls DEF RunInv
    <3>2. LoadsDone => Last(frames).kind # "run"
      BY DEF LoadsDone, Open
    <3> QED
      BY <1>3, <3>1, <3>2
  <2> QED
    BY <2>1 DEF RunStep
<1>5. Write(screen, <<>>) = screen
  BY WriteNothing
<1>6. screen' = CommandPrompt(DotS(screen, stack', isHex))
  BY <1>2, <1>4, <1>5 DEF Answered
<1>7. Sound(screen)
  BY <1>1 DEF OnPage
<1>8. ~Named
  <2>1. word = <<>>
    BY <1>1 DEF WordInv
  <2> QED
    BY <2>1 DEF Named, IsNumber
<1> QED
  BY <1>1, <1>6, <1>7, <1>8, StackLeavesPrompt

(* Once a command is over, and unless the output of a block was longer     *)
(* than the lines it has, the next one is typed on an empty line.          *)
THEOREM DisplayPromptReady == DSpec => PromptReady
<1>1. DrawInv /\ WordInv /\ RunInv /\ [DNext]_displayVars =>
        [(CommandKey \/ (RunStep /\ screen.y < PromptLine))
           /\ Waiting' /\ Len(StackText(stack', isHex)) < Columns =>
           LET unknown == Named /\ Lookup(Pack(word)) = "none"
           IN  /\ screen'.x = 2 /\ screen'.y = PromptLine
               /\ LineReads(screen'.text, PromptLine, 1, <<>>)
               /\ LineReads(screen'.text, ErrorLine, 0, IF unknown THEN <<ErrorText>> ELSE <<>>)]_displayVars
  <2> SUFFICES ASSUME DrawInv, WordInv, RunInv, [DNext]_displayVars,
                      CommandKey \/ (RunStep /\ screen.y < PromptLine),
                      Waiting', Len(StackText(stack', isHex)) < Columns
               PROVE  Ready(screen', IF Named /\ Lookup(Pack(word)) = "none"
                                     THEN <<ErrorText>> ELSE <<>>)
    BY DEF Ready
  <2>1. Tuple(stack')
    BY DrawInvStep DEF DrawInv
  <2>2. CASE CommandKey
    BY <2>1, <2>2, CommandLeavesPrompt
  <2>3. CASE RunStep /\ screen.y < PromptLine
    <3>1. Ready(screen', <<>>) /\ ~Named
      BY <2>1, <2>3, StepLeavesPrompt
    <3> QED
      BY <3>1
  <2> QED
    BY <2>2, <2>3
<1> QED
  BY <1>1, DrawInvInit, DrawInvStep, WordInvInit, WordInvStep, RunInvInit, RunInvStep,
     PTL DEF DSpec, PromptReady

-----------------------------------------------------------------------------
(* Numerals: the digits that itoa() finds from the last one on are those   *)
(* of the number.                                                          *)

LEMMA TimesLess ==
  ASSUME NEW a \in Nat, NEW b \in Nat, NEW p \in Nat, a < b
  PROVE  a * p + p <= b * p
<1>1. PICK d \in Nat : b = a + 1 + d
  BY b - a - 1 \in Nat, b = a + 1 + (b - a - 1)
<1>2. PICK x \in Nat, y \in Nat : x = a * p /\ y = d * p
  OBVIOUS
<1>3. b * p = x + p + y
  BY <1>1, <1>2
<1> QED
  BY <1>2, <1>3

LEMMA QuotientIs ==
  ASSUME NEW n \in Nat, NEW p \in Nat, p > 0, NEW q \in Nat, q * p <= n, n < q * p + p
  PROVE  n \div p = q
<1>1. PICK d : d = n \div p
  OBVIOUS
<1>2. d \in 0 .. n
  BY <1>1, DivLess
<1>3. PICK r : r = n % p
  OBVIOUS
<1>4. n = p * d + r /\ r \in 0 .. p - 1
  BY <1>1, <1>3
<1>5. PICK x \in Nat, y \in Nat : x = d * p /\ y = q * p
  BY <1>2
<1>6. p * d = x
  BY <1>2, <1>5
<1>7. x <= n /\ n < x + p /\ y <= n /\ n < y + p
  BY <1>4, <1>5, <1>6
<1>8. d < q => x + p <= y
  BY <1>2, <1>5, TimesLess
<1>9. q < d => y + p <= x
  BY <1>2, <1>5, TimesLess
<1> QED
  BY <1>1, <1>2, <1>7, <1>8, <1>9

(* One digit less. *)
LEMMA NextQuotient ==
  ASSUME NEW b \in {10, 16}, NEW v \in Nat, NEW p \in Nat, NEW n \in Nat,
         v * p <= n, n < v * p + p
  PROVE  /\ v \div b \in Nat /\ b * p \in Nat
         /\ (v \div b) * (b * p) <= n /\ n < (v \div b) * (b * p) + b * p
         /\ v - b * (v \div b) = v % b
<1>1. PICK w \in Nat, r \in 0 .. b - 1 : w = v \div b /\ v = b * w + r /\ r = v % b
  <2>1. CASE b = 10
    BY <2>1
  <2>2. CASE b = 16
    BY <2>2
  <2> QED
    BY <2>1, <2>2
<1>2. PICK a \in Nat, c \in Nat : a = w * p /\ c = r * p
  <2>1. w * p \in Nat /\ r * p \in Nat
    BY <1>1
  <2> QED
    BY <2>1
<1>3. v * p = b * a + c
  <2>1. CASE b = 10
    BY <1>1, <1>2, <2>1
  <2>2. CASE b = 16
    BY <1>1, <1>2, <2>2
  <2> QED
    BY <2>1, <2>2
<1>4. w * (b * p) = b * a
  <2>1. CASE b = 10
    BY <1>2, <2>1
  <2>2. CASE b = 16
    BY <1>2, <2>2
  <2> QED
    BY <2>1, <2>2
<1>5. c + p <= b * p
  BY <1>1, <1>2, TimesLess, b \in Nat, r \in Nat, r < b
<1>6. b * p \in Nat /\ b * a \in Nat
  BY <1>2, b \in Nat
<1>7. b * a <= n /\ n < b * a + b * p
  <2>1. PICK e \in Nat, g \in Nat : e = b * a /\ g = b * p
    BY <1>6
  <2> QED
    BY <1>2, <1>3, <1>5, <2>1
<1>8. v - b * w = r
  <2>1. CASE b = 10
    BY <1>1, <2>1
  <2>2. CASE b = 16
    BY <1>1, <2>2
  <2> QED
    BY <2>1, <2>2
<1> QED
  BY <1>1, <1>4, <1>6, <1>7, <1>8

(* P are the values of the places, q what is left of n above them. *)
Counts(P, q, n, b, N) ==
  /\ P[0] = 1 /\ q[0] = n
  /\ \A i \in 1 .. N : P[i] = b * P[i - 1] /\ q[i] = q[i - 1] \div b

LEMMA PlacesCount ==
  ASSUME NEW b \in {10, 16}, NEW N \in Nat, NEW P, NEW q, NEW n \in Nat, Counts(P, q, n, b, N)
  PROVE  \A i \in 0 .. N :
           /\ P[i] \in Nat /\ P[i] >= 2 ^ i /\ 2 ^ i \in Nat /\ 2 ^ i > 0 /\ q[i] \in Nat
           /\ q[i] * P[i] <= n /\ n < q[i] * P[i] + P[i]
<1> DEFINE S == {i \in Nat : i <= N =>
                   /\ P[i] \in Nat /\ P[i] >= 2 ^ i /\ 2 ^ i \in Nat /\ 2 ^ i > 0 /\ q[i] \in Nat
                   /\ q[i] * P[i] <= n /\ n < q[i] * P[i] + P[i]}
<1>1. 0 \in S
  <2>1. 2 ^ 0 = 1
    OBVIOUS
  <2>2. P[0] = 1 /\ q[0] = n
    BY DEF Counts
  <2>3. n * 1 = n
    OBVIOUS
  <2> QED
    BY <2>1, <2>2, <2>3
<1>2. ASSUME NEW i \in Nat, i \in S PROVE i + 1 \in S
  <2> SUFFICES ASSUME i + 1 <= N
               PROVE  /\ P[i + 1] \in Nat /\ P[i + 1] >= 2 ^ (i + 1) /\ 2 ^ (i + 1) \in Nat /\ 2 ^ (i + 1) > 0
                      /\ q[i + 1] \in Nat
                      /\ q[i + 1] * P[i + 1] <= n /\ n < q[i + 1] * P[i + 1] + P[i + 1]
    OBVIOUS
  <2>1. i <= N /\ i + 1 \in 1 .. N /\ (i + 1) - 1 = i
    OBVIOUS
  <2>2. PICK p \in Nat, v \in Nat : /\ p = P[i] /\ v = q[i] /\ p >= 2 ^ i /\ 2 ^ i \in Nat /\ 2 ^ i > 0
                                    /\ v * p <= n /\ n < v * p + p
    BY <1>2, <2>1
  <2>3. P[i + 1] = b * p /\ q[i + 1] = v \div b
    BY <2>1, <2>2 DEF Counts
  <2>4. /\ v \div b \in Nat /\ b * p \in Nat
        /\ (v \div b) * (b * p) <= n /\ n < (v \div b) * (b * p) + b * p
    BY <2>2, NextQuotient
  <2>5. PICK t \in Nat : t = 2 ^ i /\ t > 0 /\ 2 ^ (i + 1) = 2 * t
    BY <2>2, PowerDoubles
  <2>6. b * p >= 2 * t /\ 2 * t \in Nat /\ 2 * t > 0
    <3>1. CASE b = 10
      BY <2>2, <2>5, <3>1
    <3>2. CASE b = 16
      BY <2>2, <2>5, <3>2
    <3> QED
      BY <3>1, <3>2
  <2> QED
    BY <2>3, <2>4, <2>5, <2>6
<1> HIDE DEF S
<1>3. \A i \in 0 .. N : i \in S /\ i <= N
  BY <1>1, <1>2, Induct
<1> QED
  BY <1>3 DEF S

(* A place holds nothing once the value of the place is too high. *)
LEMMA PlaceIsUsed ==
  ASSUME NEW n \in Nat, NEW p \in Nat, NEW v \in Nat, v * p <= n, n < v * p + p
  PROVE  v # 0 <=> p <= n
<1>1. CASE v = 0
  <2>1. v * p = 0
    BY <1>1
  <2> QED
    BY <1>1, <2>1
<1>2. CASE v # 0
  <2>1. PICK d \in Nat : v = d + 1
    BY <1>2, v - 1 \in Nat, v = (v - 1) + 1
  <2>2. PICK x \in Nat : x = d * p
    OBVIOUS
  <2>3. v * p = x + p
    BY <2>1, <2>2
  <2> QED
    BY <1>2, <2>2, <2>3
<1> QED
  BY <1>1, <1>2

(* The places of a number, and the value of each. *)
LEMMA PlacesAre ==
  ASSUME NEW b \in {10, 16}, NEW N \in Nat, NEW P, NEW q, NEW n \in Nat, Counts(P, q, n, b, N)
  PROVE  /\ \A i \in 0 .. N : /\ P[i] \in Nat /\ q[i] \in Nat /\ P[i] > 0
                              /\ n \div P[i] = q[i] /\ (q[i] # 0 <=> P[i] <= n)
         /\ \A i \in 1 .. N : P[i - 1] < P[i] /\ q[i - 1] - b * q[i] = q[i - 1] % b
<1>1. ASSUME NEW i \in 0 .. N
      PROVE  /\ P[i] \in Nat /\ q[i] \in Nat /\ P[i] > 0
             /\ q[i] * P[i] <= n /\ n < q[i] * P[i] + P[i]
             /\ n \div P[i] = q[i] /\ (q[i] # 0 <=> P[i] <= n)
  <2>1. /\ P[i] \in Nat /\ P[i] >= 2 ^ i /\ 2 ^ i \in Nat /\ 2 ^ i > 0 /\ q[i] \in Nat
        /\ q[i] * P[i] <= n /\ n < q[i] * P[i] + P[i]
    BY PlacesCount
  <2>2. PICK p \in Nat, v \in Nat : p = P[i] /\ v = q[i] /\ p > 0 /\ v * p <= n /\ n < v * p + p
    BY <2>1
  <2>3. n \div p = v /\ (v # 0 <=> p <= n)
    BY <2>2, QuotientIs, PlaceIsUsed
  <2> QED
    BY <2>2, <2>3
<1>2. ASSUME NEW i \in 1 .. N PROVE P[i - 1] < P[i] /\ q[i - 1] - b * q[i] = q[i - 1] % b
  <2>1. i - 1 \in 0 .. N
    OBVIOUS
  <2>2. PICK p \in Nat, v \in Nat : p = P[i - 1] /\ v = q[i - 1] /\ p > 0 /\ v * p <= n /\ n < v * p + p
    BY <1>1, <2>1
  <2>3. P[i] = b * p /\ q[i] = v \div b
    BY <2>2 DEF Counts
  <2>4. v - b * (v \div b) = v % b
    BY <2>2, NextQuotient
  <2>5. p < b * p
    <3>1. CASE b = 10
      BY <2>2, <3>1
    <3>2. CASE b = 16
      BY <2>2, <3>2
    <3> QED
      BY <3>1, <3>2
  <2> QED
    BY <2>2, <2>3, <2>4, <2>5
<1> QED
  BY <1>1, <1>2

(* The number of digits, as itoa() counts them and as the places are. *)
Occupied(q, N, m) == \A i \in 0 .. N : (q[i] # 0) <=> (i < m)

LEMMA HowManyDigits ==
  ASSUME NEW b \in {10, 16}, NEW N \in Nat, NEW P, NEW q, NEW n \in Nat, Counts(P, q, n, b, N),
         n > 0, q[N] = 0
  PROVE  \E m \in 1 .. N :
           /\ Cardinality({i \in 0 .. N : q[i] # 0}) = m
           /\ m = CHOOSE p \in 1 .. N : P[p] > n /\ (p = 1 \/ P[p - 1] <= n)
           /\ Occupied(q, N, m)
<1>1. PICK Z : Z = {i \in Nat : i <= N /\ q[i] = 0}
  OBVIOUS
<1>2. PICK m \in Z : \A i \in Z : m <= i
  <2>1. Z \in SUBSET Nat /\ Z # {}
    BY <1>1
  <2> QED
    BY <2>1, LeastMember
<1>3. m \in Nat /\ m <= N /\ q[m] = 0
  BY <1>1, <1>2
<1>4. m # 0
  BY <1>3 DEF Counts
<1>5. \A i \in 0 .. N : /\ P[i] \in Nat /\ q[i] \in Nat /\ P[i] > 0 /\ (q[i] # 0 <=> P[i] <= n)
  BY PlacesAre
<1>6. \A i \in 1 .. N : P[i - 1] < P[i]
  BY PlacesAre
<1>7. ASSUME NEW i \in 0 .. N, i < m PROVE q[i] # 0
  <2> SUFFICES ASSUME q[i] = 0 PROVE FALSE
    OBVIOUS
  <2>1. i \in Z
    BY <1>1
  <2> QED
    BY <1>2, <1>3, <1>7, <2>1
<1>8. \A d \in Nat : d \in {e \in Nat : m + e <= N => q[m + e] = 0}
  <2> DEFINE S == {e \in Nat : m + e <= N => q[m + e] = 0}
  <2>1. 0 \in S
    BY <1>3
  <2>2. ASSUME NEW d \in Nat, d \in S PROVE d + 1 \in S
    <3> SUFFICES ASSUME m + (d + 1) <= N PROVE q[m + (d + 1)] = 0
      OBVIOUS
    <3>1. PICK j \in Nat : j = m + d /\ j + 1 = m + (d + 1) /\ j + 1 <= N
      BY <1>3
    <3>2. j \in 0 .. N /\ j + 1 \in 1 .. N /\ j + 1 \in 0 .. N /\ (j + 1) - 1 = j
      BY <3>1
    <3>3. q[j] = 0
      BY <2>2, <3>1
    <3>4. n < P[j] /\ P[j] < P[j + 1]
      BY <1>5, <1>6, <3>2, <3>3
    <3>5. ~(P[j + 1] <= n)
      BY <1>5, <3>2, <3>4
    <3> QED
      BY <1>5, <3>1, <3>2, <3>5
  <2> HIDE DEF S
  <2>3. \A d \in Nat : d \in S
    BY <2>1, <2>2, Induct
  <2> QED
    BY <2>3 DEF S
<1>9. ASSUME NEW i \in 0 .. N, m <= i PROVE q[i] = 0
  <2>1. i - m \in Nat /\ m + (i - m) = i
    BY <1>3, <1>9
  <2> QED
    BY <1>8, <2>1
<1>10. {i \in 0 .. N : q[i] # 0} = 0 .. m - 1
  <2>1. ASSUME NEW i \in 0 .. N, q[i] # 0 PROVE i \in 0 .. m - 1
    <3>1. ~(m <= i)
      BY <1>9, <2>1
    <3> QED
      BY <1>3, <3>1
  <2>2. ASSUME NEW i \in 0 .. m - 1 PROVE i \in 0 .. N /\ q[i] # 0
    <3>1. i \in 0 .. N /\ i < m
      BY <1>3
    <3> QED
      BY <1>7, <3>1
  <2> QED
    BY <2>1, <2>2
<1>11. Cardinality(0 .. m - 1) = m
  <2>1. Cardinality(0 .. m - 1) = (m - 1) - 0 + 1
    BY <1>3, <1>4, FS_Interval, 0 \in Int, m - 1 \in Int, ~(0 > m - 1)
  <2> QED
    BY <1>3, <2>1
<1>12. m \in 1 .. N /\ m \in 0 .. N /\ m - 1 \in 0 .. N
  BY <1>3, <1>4
<1>13. P[m] > n /\ (m = 1 \/ P[m - 1] <= n)
  <2>1. q[m - 1] # 0
    BY <1>3, <1>7, <1>12
  <2> QED
    BY <1>3, <1>5, <1>12, <2>1
<1>14. ASSUME NEW p \in 1 .. N, P[p] > n, p = 1 \/ P[p - 1] <= n PROVE p = m
  <2>1. p \in 0 .. N /\ p - 1 \in 0 .. N
    OBVIOUS
  <2>2. q[p] = 0
    BY <1>5, <1>14, <2>1
  <2>3. ~(p < m)
    BY <1>7, <2>1, <2>2
  <2>4. p = 1 \/ ~(m <= p - 1)
    BY <1>5, <1>9, <1>14, <2>1
  <2> QED
    BY <1>3, <1>4, <2>3, <2>4
<1>15. m = CHOOSE p \in 1 .. N : P[p] > n /\ (p = 1 \/ P[p - 1] <= n)
  BY <1>12, <1>13, <1>14
<1>16. Occupied(q, N, m)
  BY <1>3, <1>7, <1>9 DEF Occupied
<1> QED
  BY <1>10, <1>11, <1>12, <1>15, <1>16

(* The quotients that itoa() takes, their number and the digits they give. *)
Divided(q, u, b) == q[0] = u /\ \A i \in 1 .. CellBits : q[i] = q[i - 1] \div b

Count(q) == Cardinality({i \in 0 .. CellBits : q[i] # 0})

DigitAt(q, c, b, k) == HexDigit(q[(c + 1 - k) - 1] - b * q[c + 1 - k])

Digits(q, c, b) == [k \in 1 .. c |-> DigitAt(q, c, b, k)]

Sign(v, b) == IF v < 0 /\ b = 10 THEN <<Minus>> ELSE <<>>

LEMMA PlaceValuesAre ==
  ASSUME NEW b \in {10, 16}
  PROVE  /\ PlaceValues(b)[0] = 1
         /\ \A i \in 1 .. CellBits : PlaceValues(b)[i] = b * PlaceValues(b)[i - 1]
<1> DEFINE power[k \in 0 .. CellBits] == IF k = 0 THEN 1 ELSE b * power[k - 1]
           G == [i \in 1 .. CellBits |-> [x \in Nat |-> b * x]]
<1>1. PlaceValues(b) = power
  BY DEF PlaceValues
<1>2. PICK N \in Nat : N = CellBits
  BY WordsAssumption DEF WordsAssumption
<1>3. G \in [1 .. N -> [Nat -> Nat]]
  <2>1. ASSUME NEW x \in Nat PROVE b * x \in Nat
    OBVIOUS
  <2> QED
    BY <1>2, <2>1
<1>4. PICK f \in [0 .. N -> Nat] : f[0] = 1 /\ \A i \in 1 .. N : f[i] = G[i][f[i - 1]]
  <2>1. PICK T, c : T = Nat /\ c = 1
    OBVIOUS
  <2>2. c \in T
    BY <2>1
  <2>3. PICK H : H = G
    OBVIOUS
  <2>4. H \in [1 .. N -> [T -> T]]
    BY <1>3, <2>1, <2>3
  <2>5. \E f \in [0 .. N -> T] : Follows(f, c, H, N)
    BY <2>2, <2>4, Recursion
  <2> HIDE DEF G
  <2>6. \E f \in [0 .. N -> T] : f[0] = c /\ \A i \in 1 .. N : f[i] = G[i][f[i - 1]]
    BY <2>3, <2>5 DEF Follows
  <2> QED
    BY <2>1, <2>6
<1>5. ASSUME NEW k \in 0 .. N PROVE f[k] = IF k = 0 THEN 1 ELSE b * f[k - 1]
  <2>1. CASE k # 0
    <3>1. k \in 1 .. N /\ k - 1 \in 0 .. N /\ f[k - 1] \in Nat
      BY <2>1
    <3>2. G[k][f[k - 1]] = b * f[k - 1]
      BY <1>2, <3>1 DEF G
    <3> HIDE DEF G
    <3> QED
      BY <1>4, <2>1, <3>1, <3>2
  <2> QED
    BY <1>4, <2>1
<1> HIDE DEF G
<1>6. f = [k \in 0 .. CellBits |-> IF k = 0 THEN 1 ELSE b * f[k - 1]]
  BY <1>2, <1>5
<1>7. power = [k \in 0 .. CellBits |-> IF k = 0 THEN 1 ELSE b * power[k - 1]]
  <2> DEFINE is(g) == g = [k \in 0 .. CellBits |-> IF k = 0 THEN 1 ELSE b * g[k - 1]]
  <2>1. \E g : is(g)
    BY <1>6
  <2>2. power = CHOOSE g : is(g)
    OBVIOUS
  <2> QED
    BY <2>1, <2>2
<1>8. PICK P : P = power
  OBVIOUS
<1> HIDE DEF power
<1>9. ASSUME NEW k \in 0 .. N PROVE P[k] = IF k = 0 THEN 1 ELSE b * P[k - 1]
  BY <1>2, <1>7, <1>8
<1>10. \A i \in 1 .. N : i \in 0 .. N /\ i # 0
  OBVIOUS
<1> QED
  BY <1>1, <1>2, <1>8, <1>9, <1>10, 0 \in 0 .. N

(* What itoa() divides, one digit after the other. *)
LEMMA ItoaIs ==
  ASSUME NEW v, NEW b \in {10, 16}, NEW u \in Nat, v # 0,
         u = IF v < 0 /\ b = 10 THEN Signed(-v) ELSE v
  PROVE  \E q : Divided(q, u, b) /\ Itoa(v, b) = Sign(v, b) \o Digits(q, Count(q), b)
<1> DEFINE negative == v < 0 /\ b = 10
           value[n \in 0 .. CellBits] ==
             IF n = 0 THEN (IF negative THEN Signed(-v) ELSE v) ELSE Quotient(value[n - 1], b)
           length == Cardinality({n \in 0 .. CellBits : value[n] # 0})
           remainder(n) == value[n - 1] - b * value[n]
           G == [i \in 1 .. CellBits |-> [x \in Nat |-> x \div b]]
<1>1. Itoa(v, b) = (IF negative THEN <<Minus>> ELSE <<>>)
                     \o [n \in 1 .. length |-> HexDigit(remainder(length + 1 - n))]
  BY DEF Itoa
<1>2. PICK N \in Nat : N = CellBits
  BY WordsAssumption DEF WordsAssumption
<1>3. ASSUME NEW x \in Nat PROVE Quotient(x, b) = x \div b /\ x \div b \in Nat
  <2>1. CASE b = 10
    BY <2>1 DEF Quotient
  <2>2. CASE b = 16
    BY <2>2 DEF Quotient
  <2> QED
    BY <2>1, <2>2
<1>4. G \in [1 .. N -> [Nat -> Nat]]
  BY <1>2, <1>3
<1>5. PICK f \in [0 .. N -> Nat] : f[0] = u /\ \A i \in 1 .. N : f[i] = G[i][f[i - 1]]
  <2>1. PICK T : T = Nat
    OBVIOUS
  <2>2. u \in T
    BY <2>1
  <2>3. PICK H : H = G
    OBVIOUS
  <2>4. H \in [1 .. N -> [T -> T]]
    BY <1>4, <2>1, <2>3
  <2>5. \E f \in [0 .. N -> T] : Follows(f, u, H, N)
    BY <2>2, <2>4, Recursion
  <2> HIDE DEF G
  <2>6. \E f \in [0 .. N -> T] : f[0] = u /\ \A i \in 1 .. N : f[i] = G[i][f[i - 1]]
    BY <2>3, <2>5 DEF Follows
  <2> QED
    BY <2>1, <2>6
<1>6. ASSUME NEW n \in 0 .. N
      PROVE  f[n] = IF n = 0 THEN (IF negative THEN Signed(-v) ELSE v) ELSE Quotient(f[n - 1], b)
  <2>1. CASE n # 0
    <3>1. n \in 1 .. N /\ n - 1 \in 0 .. N /\ f[n - 1] \in Nat
      BY <2>1
    <3>2. G[n][f[n - 1]] = f[n - 1] \div b
      BY <1>2, <3>1 DEF G
    <3>3. Quotient(f[n - 1], b) = f[n - 1] \div b
      BY <1>3, <3>1
    <3> HIDE DEF G
    <3> QED
      BY <1>5, <2>1, <3>1, <3>2, <3>3
  <2>2. CASE n = 0
    BY <1>5, <2>2
  <2> QED
    BY <2>1, <2>2
<1> HIDE DEF G
<1>7. PICK h : h = IF negative THEN Signed(-v) ELSE v
  OBVIOUS
<1>8. f = [n \in 0 .. CellBits |->
             IF n = 0 THEN (IF negative THEN Signed(-v) ELSE v) ELSE Quotient(f[n - 1], b)]
  <2> HIDE DEF negative
  <2> QED
    BY <1>2, <1>6
<1>9. value = [n \in 0 .. CellBits |->
                 IF n = 0 THEN (IF negative THEN Signed(-v) ELSE v) ELSE Quotient(value[n - 1], b)]
  <2> DEFINE is(g) == g = [n \in 0 .. CellBits |->
                             IF n = 0 THEN (IF negative THEN Signed(-v) ELSE v) ELSE Quotient(g[n - 1], b)]
  <2>1. \E g : is(g)
    BY <1>8
  <2>2. value = CHOOSE g : is(g)
    OBVIOUS
  <2> HIDE DEF is
  <2>3. is(value)
    BY <2>1, <2>2
  <2> QED
    BY <2>3 DEF is
<1>10. PICK q : q = value
  OBVIOUS
<1>11. PICK c : c = length
  OBVIOUS
<1>12. c = Cardinality({i \in 0 .. CellBits : q[i] # 0})
  BY <1>10, <1>11
<1>13. Itoa(v, b) = (IF v < 0 /\ b = 10 THEN <<Minus>> ELSE <<>>)
                      \o [k \in 1 .. c |-> HexDigit(q[(c + 1 - k) - 1] - b * q[c + 1 - k])]
  BY <1>1, <1>10, <1>11
<1> HIDE DEF value, length, remainder
<1>14. ASSUME NEW n \in 0 .. N
       PROVE  q[n] = IF n = 0 THEN u ELSE Quotient(q[n - 1], b)
  <2> HIDE DEF negative
  <2>1. q[n] = IF n = 0 THEN (IF negative THEN Signed(-v) ELSE v) ELSE Quotient(q[n - 1], b)
    BY <1>2, <1>9, <1>10
  <2>2. u = IF negative THEN Signed(-v) ELSE v
    BY DEF negative
  <2> QED
    BY <2>1, <2>2
<1>15. \A d \in Nat : d \in {e \in Nat : e <= N => q[e] \in Nat}
  <2> DEFINE S == {e \in Nat : e <= N => q[e] \in Nat}
  <2>1. 0 \in S
    BY <1>14, 0 \in 0 .. N
  <2>2. ASSUME NEW d \in Nat, d \in S PROVE d + 1 \in S
    <3> SUFFICES ASSUME d + 1 <= N PROVE q[d + 1] \in Nat
      OBVIOUS
    <3>1. d + 1 \in 0 .. N /\ d + 1 # 0 /\ (d + 1) - 1 = d /\ q[d] \in Nat
      BY <2>2
    <3>2. q[d + 1] = Quotient(q[d], b)
      BY <1>14, <3>1
    <3> QED
      BY <1>3, <3>1, <3>2
  <2> HIDE DEF S
  <2>3. \A d \in Nat : d \in S
    BY <2>1, <2>2, Induct
  <2> QED
    BY <2>3 DEF S
<1>16. ASSUME NEW i \in 1 .. N PROVE q[i] = q[i - 1] \div b
  <2>1. i \in 0 .. N /\ i # 0 /\ i - 1 \in Nat /\ i - 1 <= N
    OBVIOUS
  <2>2. q[i - 1] \in Nat /\ q[i] = Quotient(q[i - 1], b)
    BY <1>14, <1>15, <2>1
  <2> QED
    BY <1>3, <2>2
<1>17. q[0] = u
  BY <1>14, 0 \in 0 .. N
<1>18. Divided(q, u, b)
  BY <1>2, <1>16, <1>17 DEF Divided
<1>19. c = Count(q)
  BY <1>12 DEF Count
<1>20. Itoa(v, b) = Sign(v, b) \o Digits(q, c, b)
  BY <1>13 DEF Sign, Digits, DigitAt
<1> QED
  BY <1>18, <1>19, <1>20

(* The numeral, once its number of places is known. *)
PlaceDigit(P, u, b, j) == HexDigit((u \div P[j]) % b)

HasPlaces(u, b, m) ==
  m = CHOOSE p \in 1 .. CellBits : PlaceValues(b)[p] > u /\ (p = 1 \/ PlaceValues(b)[p - 1] <= u)

LEMMA PositionalIs ==
  ASSUME NEW u, NEW b, NEW m, HasPlaces(u, b, m)
  PROVE  Positional(u, b) = [k \in 1 .. m |-> PlaceDigit(PlaceValues(b), u, b, m - k)]
<1> DEFINE places == CHOOSE p \in 1 .. CellBits :
                       PlaceValues(b)[p] > u /\ (p = 1 \/ PlaceValues(b)[p - 1] <= u)
<1>1. Positional(u, b) = [k \in 1 .. places |-> HexDigit((u \div PlaceValues(b)[places - k]) % b)]
  BY Zenon DEF Positional
<1>2. m = places
  BY DEF HasPlaces
<1> HIDE DEF places
<1>3. Positional(u, b) = [k \in 1 .. m |-> HexDigit((u \div PlaceValues(b)[m - k]) % b)]
  BY <1>1, <1>2
<1> QED
  BY <1>3 DEF PlaceDigit

LEMMA DigitsAgree ==
  ASSUME NEW b \in {10, 16}, NEW u \in Nat, u > 0, u < 2 ^ (CellBits - 1), NEW q,
         Divided(q, u, b)
  PROVE  Digits(q, Count(q), b) = Positional(u, b) /\ Positional(u, b) \in Seq(Nat)
<1>1. PICK N \in Nat : N = CellBits /\ N - 1 \in 0 .. N /\ N \in 0 .. N /\ N \in 1 .. N
  BY WordsAssumption DEF WordsAssumption
<1>2. PICK P : P = PlaceValues(b)
  OBVIOUS
<1>3. Counts(P, q, u, b, N)
  BY <1>1, <1>2, PlaceValuesAre DEF Counts, Divided
<1>4. \A i \in 0 .. N : /\ P[i] \in Nat /\ q[i] \in Nat /\ P[i] > 0
                        /\ u \div P[i] = q[i] /\ (q[i] # 0 <=> P[i] <= u)
  BY <1>3, PlacesAre
<1>5. \A i \in 1 .. N : P[i - 1] < P[i] /\ q[i - 1] - b * q[i] = q[i - 1] % b
  BY <1>3, PlacesAre
<1>6. q[N] = 0
  <2>1. P[N - 1] >= 2 ^ (N - 1) /\ 2 ^ (N - 1) \in Nat
    BY <1>1, <1>3, PlacesCount
  <2>2. P[N - 1] < P[N] /\ P[N - 1] \in Nat /\ P[N] \in Nat
    BY <1>1, <1>4, <1>5
  <2>3. u < 2 ^ (N - 1)
    BY <1>1
  <2>4. ~(P[N] <= u)
    BY <2>1, <2>2, <2>3
  <2> QED
    BY <1>1, <1>4, <2>4
<1>7. PICK m \in 1 .. N : /\ Cardinality({i \in 0 .. N : q[i] # 0}) = m
                          /\ m = CHOOSE p \in 1 .. N : P[p] > u /\ (p = 1 \/ P[p - 1] <= u)
  BY <1>3, <1>6, HowManyDigits
<1>8. Count(q) = m
  BY <1>1, <1>7 DEF Count
<1>9. Positional(u, b) = [k \in 1 .. m |-> PlaceDigit(P, u, b, m - k)]
  <2>1. HasPlaces(u, b, m)
    BY <1>1, <1>2, <1>7 DEF HasPlaces
  <2> QED
    BY <1>2, <2>1, PositionalIs
<1>10. ASSUME NEW k \in 1 .. m
       PROVE  DigitAt(q, m, b, k) = PlaceDigit(P, u, b, m - k)
  <2>1. m + 1 - k \in 1 .. N /\ (m + 1 - k) - 1 = m - k /\ m - k \in 0 .. N
    OBVIOUS
  <2>2. PICK j \in 1 .. N : j = m + 1 - k /\ j - 1 = m - k
    BY <2>1
  <2>3. q[j - 1] - b * q[j] = q[j - 1] % b
    BY <1>5
  <2>4. u \div P[m - k] = q[m - k]
    BY <1>4, <2>1
  <2>5. q[(m + 1 - k) - 1] - b * q[m + 1 - k] = (u \div P[m - k]) % b
    BY <2>2, <2>3, <2>4
  <2> QED
    BY <2>5 DEF DigitAt, PlaceDigit
<1>11. Digits(q, m, b) = Positional(u, b)
  BY <1>9, <1>10 DEF Digits
<1>12. Positional(u, b) \in Seq(Nat)
  <2>1. PICK d : d = Positional(u, b)
    OBVIOUS
  <2>2. \A k \in 1 .. m : PlaceDigit(P, u, b, m - k) \in Nat
    BY HexDigitIsNat DEF PlaceDigit
  <2>3. d = [k \in 1 .. m |-> d[k]] /\ \A k \in 1 .. m : d[k] \in Nat
    BY <1>9, <2>1, <2>2
  <2>4. m \in Nat
    OBVIOUS
  <2> QED
    BY <2>1, <2>3, <2>4, DigitsAreSeq
<1> QED
  BY <1>8, <1>11, <1>12

LEMMA PositionalZero ==
  ASSUME NEW b \in {10, 16}
  PROVE  Positional(0, b) = <<Zero>>
<1>1. PICK N \in Nat : N = CellBits /\ 1 \in 1 .. N
  BY WordsAssumption DEF WordsAssumption
<1>2. PICK P : P = PlaceValues(b) /\ P[0] = 1 /\ \A i \in 1 .. N : P[i] = b * P[i - 1]
  BY <1>1, PlaceValuesAre
<1>3. PICK q : q = [i \in 0 .. N |-> 0]
  OBVIOUS
<1>4. \A i \in 0 .. N : q[i] = 0
  BY <1>3
<1>5. Counts(P, q, 0, b, N)
  <2>1. 0 \div b = 0
    <3>1. CASE b = 10
      BY <3>1
    <3>2. CASE b = 16
      BY <3>2
    <3> QED
      BY <3>1, <3>2
  <2>2. \A i \in 1 .. N : i \in 0 .. N /\ i - 1 \in 0 .. N
    OBVIOUS
  <2> QED
    BY <1>2, <1>4, <2>1, <2>2, 0 \in 0 .. N DEF Counts
<1>6. \A i \in 0 .. N : P[i] \in Nat /\ P[i] > 0
  BY <1>5, PlacesAre, 0 \in Nat
<1>7. 1 = CHOOSE p \in 1 .. N : P[p] > 0 /\ (p = 1 \/ P[p - 1] <= 0)
  <2>1. P[1] > 0 /\ (1 = 1 \/ P[1 - 1] <= 0)
    BY <1>1, <1>6
  <2>2. ASSUME NEW p \in 1 .. N, P[p] > 0, p = 1 \/ P[p - 1] <= 0 PROVE p = 1
    <3>1. p - 1 \in 0 .. N
      OBVIOUS
    <3>2. ~(P[p - 1] <= 0)
      BY <1>6, <3>1
    <3> QED
      BY <2>2, <3>2
  <2> QED
    BY <1>1, <2>1, <2>2
<1>8. Positional(0, b) = [k \in 1 .. 1 |-> PlaceDigit(P, 0, b, 1 - k)]
  <2>1. 1 = CHOOSE p \in 1 .. CellBits : PlaceValues(b)[p] > 0 /\ (p = 1 \/ PlaceValues(b)[p - 1] <= 0)
    BY <1>1, <1>2, <1>7
  <2>2. PICK m \in 1 .. N, u \in Nat : m = 1 /\ u = 0
    BY <1>1, 0 \in Nat
  <2>3. HasPlaces(u, b, m)
    BY <2>1, <2>2 DEF HasPlaces
  <2>4. Positional(u, b) = [k \in 1 .. m |-> PlaceDigit(PlaceValues(b), u, b, m - k)]
    BY <2>3, PositionalIs
  <2> QED
    BY <1>2, <2>2, <2>4
<1>9. (0 \div P[1 - 1]) % b = 0
  <2>1. 1 - 1 = 0 /\ 0 \div 1 = 0
    OBVIOUS
  <2>2. 0 % b = 0
    <3>1. CASE b = 10
      BY <3>1
    <3>2. CASE b = 16
      BY <3>2
    <3> QED
      BY <3>1, <3>2
  <2> QED
    BY <1>2, <2>1, <2>2
<1>10. HexDigit(0) = Zero
  <2>1. Zero + 0 = Zero
    BY DEF Zero
  <2> QED
    BY <2>1, 0 \in 0 .. 9 DEF HexDigit
<1>11. PlaceDigit(P, 0, b, 1 - 1) = Zero
  BY <1>9, <1>10 DEF PlaceDigit
<1>12. [k \in 1 .. 1 |-> PlaceDigit(P, 0, b, 1 - k)] = [k \in 1 .. 1 |-> Zero]
  BY <1>11
<1>13. [k \in 1 .. 1 |-> Zero] = <<Zero>>
  OBVIOUS
<1> QED
  BY <1>8, <1>12, <1>13

(* itoa() gives the decimal numeral of every number but the least, and the *)
(* hexadecimal one of those that are not negative.                         *)
LEMMA ItoaIsNumeral ==
  ASSUME NEW v \in CellRange
  PROVE  /\ v # -(2 ^ (CellBits - 1)) => Itoa(v, 10) = Decimal(v)
         /\ v >= 0 => Itoa(v, 16) = Hexadecimal(v)
<1>1. PICK m \in Nat \ {0} : m = 2 ^ (CellBits - 1) /\ 2 ^ CellBits = 2 * m
  BY CellSize
<1>2. v \in -m .. m - 1
  BY <1>1 DEF CellRange
<1>3. ASSUME NEW b \in {10, 16}, v = 0 PROVE Itoa(v, b) = <<Zero>>
  BY <1>3 DEF Itoa
<1>4. ASSUME NEW b \in {10, 16}, NEW u \in Nat, u > 0, u < m,
             u = IF v < 0 /\ b = 10 THEN Signed(-v) ELSE v, v # 0
      PROVE  Itoa(v, b) = Sign(v, b) \o Positional(u, b) /\ Positional(u, b) \in Seq(Nat)
  <2>1. PICK q : Divided(q, u, b) /\ Itoa(v, b) = Sign(v, b) \o Digits(q, Count(q), b)
    BY <1>4, ItoaIs
  <2>2. u < 2 ^ (CellBits - 1)
    BY <1>1, <1>4
  <2>3. Digits(q, Count(q), b) = Positional(u, b) /\ Positional(u, b) \in Seq(Nat)
    BY <1>4, <2>1, <2>2, DigitsAgree
  <2> QED
    BY <2>1, <2>3
<1>6. CASE v = 0
  <2>1. Itoa(v, 10) = <<Zero>> /\ Itoa(v, 16) = <<Zero>>
    BY <1>3, <1>6
  <2>2. Decimal(v) = Positional(0, 10)
    BY <1>6 DEF Decimal
  <2>3. Unsigned(v) = 0
    BY <1>1, <1>6 DEF Unsigned
  <2>4. Hexadecimal(v) = Positional(0, 16)
    BY <2>3 DEF Hexadecimal
  <2>5. Positional(0, 10) = <<Zero>> /\ Positional(0, 16) = <<Zero>>
    BY PositionalZero
  <2> QED
    BY <2>1, <2>2, <2>4, <2>5
<1>7. CASE v > 0
  <2>1. v \in Nat /\ v > 0 /\ v < m /\ ~(v < 0)
    BY <1>1, <1>2, <1>7
  <2>2. ASSUME NEW b \in {10, 16} PROVE Itoa(v, b) = Positional(v, b)
    <3>1. Sign(v, b) = <<>>
      BY <2>1 DEF Sign
    <3>2. PICK s \in Seq(Nat) : s = Positional(v, b) /\ Itoa(v, b) = <<>> \o s
      BY <1>4, <2>1, <3>1
    <3>3. <<>> \o s = s
      OBVIOUS
    <3> QED
      BY <3>2, <3>3
  <2>4. Decimal(v) = Positional(v, 10)
    BY <2>1 DEF Decimal
  <2>5. Unsigned(v) = v
    BY <1>1, <2>1 DEF Unsigned
  <2>6. Hexadecimal(v) = Positional(v, 16)
    BY <2>5 DEF Hexadecimal
  <2> QED
    BY <2>2, <2>4, <2>6
<1>8. CASE v < 0
  <2>1. PICK u \in Nat : u = -v /\ u > 0 /\ u <= m
    BY <1>1, <1>2, <1>8
  <2>2. ~(v >= 0)
    BY <1>2, <1>8
  <2>3. ASSUME v # -m PROVE Itoa(v, 10) = Decimal(v)
    <3>1. u < m
      BY <1>1, <1>2, <2>1, <2>3
    <3>2. Signed(u) = u
      BY <1>1, <2>1, <3>1 DEF Signed
    <3>3. Itoa(v, 10) = <<Minus>> \o Positional(u, 10)
      BY <1>2, <1>4, <1>8, <2>1, <3>1, <3>2 DEF Sign
    <3> QED
      BY <1>8, <2>1, <3>3 DEF Decimal
  <2> QED
    BY <1>1, <2>2, <2>3
<1> QED
  BY <1>2, <1>6, <1>7, <1>8

-----------------------------------------------------------------------------
(* What is on the stack, and what its line says.                           *)

(* The line of the stack is made of the numerals it is meant to have. *)
LEMMA StackTextMeant ==
  ASSUME NEW st, Tuple(st), Len(st) <= StackSize, NEW hex,
         \A i \in DOMAIN st :
           st[i] \in CellRange \ {-(2 ^ (CellBits - 1))} /\ (hex => st[i] >= 0)
  PROVE  StackText(st, hex) = StackMeant(st, hex)
<1>1. PICK m \in Nat \ {0} : m = 2 ^ (CellBits - 1)
  BY CellSize
<1>2. PICK n \in Nat : n = Len(st)
  BY DEF Tuple
<1>3. Itoa(n, 10) = Decimal(n)
  <2>1. n < m
    BY <1>1, <1>2, ForthAssumption, DisplayAssumption DEF ForthAssumption, DisplayAssumption
  <2>2. n \in CellRange /\ n # -m
    BY <1>1, <2>1 DEF CellRange
  <2> QED
    BY <1>1, <2>2, ItoaIsNumeral
<1>4. ASSUME NEW i \in DOMAIN st
      PROVE  Itoa(st[i], IF hex THEN 16 ELSE 10)
               = IF hex THEN Hexadecimal(st[i]) ELSE Decimal(st[i])
  <2>1. PICK v : v = st[i] /\ v \in CellRange /\ v # -(2 ^ (CellBits - 1)) /\ (hex => v >= 0)
    OBVIOUS
  <2>2. Itoa(v, 10) = Decimal(v) /\ (v >= 0 => Itoa(v, 16) = Hexadecimal(v))
    BY <2>1, ItoaIsNumeral
  <2> QED
    BY <2>1, <2>2
<1> DEFINE shown(i) == Itoa(st[i], IF hex THEN 16 ELSE 10) \o <<Space>>
           meant(i) == (IF hex THEN Hexadecimal(st[i]) ELSE Decimal(st[i])) \o <<Space>>
<1>5. \A i \in DOMAIN st : shown(i) = meant(i)
  BY <1>4, Zenon
<1>6. StackText(st, hex) = <<StackLabel>> \o Itoa(n, 10) \o <<Space>>
                             \o FlattenSeq([i \in DOMAIN st |-> shown(i)])
  BY <1>2, Zenon DEF StackText
<1>7. StackMeant(st, hex) = <<StackLabel>> \o Decimal(n) \o <<Space>>
                              \o FlattenSeq([i \in DOMAIN st |-> meant(i)])
  BY <1>2, Zenon DEF StackMeant
<1> HIDE DEF shown, meant
<1>8. [i \in DOMAIN st |-> shown(i)] = [i \in DOMAIN st |-> meant(i)]
  BY <1>5
<1> QED
  BY <1>3, <1>6, <1>7, <1>8

(* Only the line of the stack, up to the number of the block, is looked at. *)
SameLine(page, other) ==
  \A c \in 0 .. BlockColumn - 1 : page[Address(c, StackLine)] = other[Address(c, StackLine)]

LEMMA StackReadsLine ==
  ASSUME NEW s, Sound(s), NEW st, Tuple(st), Len(st) <= StackSize, NEW hex,
         NEW page, SameLine(page, DotS(s, st, hex).text)
  PROVE  StackReads(st, hex, page)
<1>1. PICK t \in Seq(Nat) : t = StackText(st, hex)
  BY StackTextIsSeq
<1> DEFINE chars == StackMeant(st, hex)
           room  == Len(chars) <= BlockColumn
           has   == \A i \in DOMAIN st :
                      st[i] \in CellRange \ {-(2 ^ (CellBits - 1))} /\ (hex => st[i] >= 0)
           says  == \A c \in 0 .. BlockColumn - 1 :
                      page[Address(c, StackLine)] = IF c < Len(chars) THEN chars[c + 1] ELSE Space
<1>0. StackReads(st, hex, page) <=> (room /\ has => says)
  BY Zenon DEF StackReads
<1>2. SUFFICES ASSUME room, has PROVE says
  <2> HIDE DEF room, has, says
  <2> QED
    BY <1>0, Zenon
<1>3. StackMeant(st, hex) = t
  BY <1>1, <1>2, StackTextMeant
<1>4. BlockColumn \in Nat /\ BlockColumn < Columns /\ Columns \in Nat
  BY Layout, DisplayAssumption DEF DisplayAssumption
<1>5. Len(StackText(st, hex)) < Columns
  BY <1>1, <1>2, <1>3, <1>4
<1>6. \A c \in 0 .. Columns - 1 :
        DotS(s, st, hex).text[Address(c, StackLine)] = IF c < Len(t) THEN t[c + 1] ELSE Space
  BY <1>1, <1>5, DotSDraws
<1>7. \A c \in 0 .. BlockColumn - 1 : c \in 0 .. Columns - 1
  BY <1>4
<1> QED
  BY <1>3, <1>6, <1>7 DEF SameLine

(* The number of the block is written behind it. *)
LEMMA StatusBarKeeps ==
  ASSUME NEW s, Sound(s), NEW n \in 0 .. Len(Source)
  PROVE  \A j \in Cell : j < Address(BlockColumn, StackLine) => StatusBar(s, n).text[j] = s.text[j]
<1>1. PICK B \in Nat, C \in Nat :
        /\ C = Columns /\ C >= 2 /\ Columns * (Lines - 1) = B + 3 * C
        /\ Columns * Lines = B + 4 * C
        /\ \A x \in Int : Address(x, StackLine) = x + B + 2 * C
  BY LinesBegin
<1>2. PICK b \in Nat : b = BlockColumn /\ b < C
  BY <1>1, DisplayAssumption DEF DisplayAssumption
<1>3. PICK t \in Seq(Nat) : t = Itoa(n, 10) /\ b + 1 + Len(t) < C
  <2>1. PICK t \in Seq(Nat) : t = Itoa(n, 10)
    BY ItoaIsSeq
  <2>2. BlockColumn + 1 + Len(Itoa(n, 10)) < Columns
    BY DisplayAssumption DEF DisplayAssumption
  <2> QED
    BY <1>1, <1>2, <2>1, <2>2
<1>4. PICK l \in Seq(Nat) : l = <<BlockLabel>> \o t /\ Len(l) = 1 + Len(t)
  <2>1. <<BlockLabel>> \in Seq(Nat) /\ Len(<<BlockLabel>>) = 1
    BY DEF BlockLabel
  <2> QED
    BY <2>1, Longer
<1>5. PICK k \in Nat : k = Len(l) /\ b + k < C
  BY <1>3, <1>4
<1>6. PICK u : u = <<BlockLabel>> \o t \o <<Newline>>
  OBVIOUS
<1>7. Len(u) = k + 1 /\ u[k + 1] = Newline /\ \A i \in 1 .. k : u[i] \in Nat
  <2>1. u = l \o <<Newline>> /\ <<Newline>> \in Seq(Int) /\ Len(<<Newline>>) = 1 /\ <<Newline>>[1] = Newline
    BY <1>4, <1>6 DEF Newline
  <2>2. l \in Seq(Int)
    OBVIOUS
  <2>3. PICK w \in Seq(Int) : w = <<Newline>> /\ Len(w) = 1 /\ w[1] = Newline
    BY <2>1
  <2>4. u = l \o w
    BY <2>1, <2>3
  <2>5. Len(u) = k + 1 /\ u[k + 1] = w[1] /\ \A i \in 1 .. k : u[i] = l[i]
    BY <1>5, <2>2, <2>3, <2>4
  <2> QED
    BY <1>5, <2>3, <2>5
<1>8. PICK r : /\ r = SetPosition(s, BlockColumn, StackLine) /\ r.text = s.text
               /\ r.x = b /\ r.y = StackLine /\ OnPage(r)
  <2>1. BlockColumn \in 0 .. Columns /\ StackLine \in 0 .. Lines - 1 /\ BlockColumn < Columns
    BY <1>1, <1>2, Layout
  <2>2. /\ SetPosition(s, BlockColumn, StackLine).text = s.text
        /\ SetPosition(s, BlockColumn, StackLine).x = BlockColumn
        /\ SetPosition(s, BlockColumn, StackLine).y = StackLine
        /\ OnPage(SetPosition(s, BlockColumn, StackLine))
    BY <2>1, SetFields
  <2> QED
    BY <1>2, <2>2
<1>9. Address(r.x, r.y) = b + B + 2 * C
  BY <1>1, <1>8
<1>10. PICK f : Write(r, u) = f[k + 1] /\ Written(f, r, u, k + 1)
  <2>1. Len(u) \in Nat
    BY <1>7
  <2> QED
    BY <1>7, <2>1, WriteIs
<1>11. PICK q : /\ q = f[k] /\ OnPage(q) /\ Address(q.x, q.y) = b + B + 2 * C + k
                /\ \A j \in Cell : j \notin b + B + 2 * C .. b + B + 2 * C + k - 1 => q.text[j] = s.text[j]
  <2>1. f[0] = r
    BY <1>10 DEF Written
  <2>2. \A i \in 1 .. k : u[0 + i] \in Nat
    BY <1>7
  <2>3. 0 \in Nat /\ k + 1 \in Nat /\ 0 + k <= k + 1 /\ 0 + k = k
    OBVIOUS
  <2>4. /\ OnPage(f[0 + k])
        /\ \/ Address(f[0].x, f[0].y) + k >= Columns * (Lines - 1)
           \/ Ran(f[0], f[0 + k], u, 0, k)
    BY <1>8, <1>10, <2>1, <2>2, <2>3, LettersRun
  <2>5. ~(Address(f[0].x, f[0].y) + k >= Columns * (Lines - 1))
    BY <1>1, <1>5, <1>9, <2>1
  <2>6. OnPage(f[k]) /\ Ran(r, f[k], u, 0, k)
    BY <2>1, <2>3, <2>4, <2>5
  <2> QED
    BY <1>8, <1>9, <2>6 DEF Ran
<1>12. PICK z : z = Write(r, u) /\ Sound(z) /\ z.text = q.text
  <2>1. k + 1 \in 1 .. k + 1 /\ (k + 1) - 1 = k
    OBVIOUS
  <2>2. f[k + 1] = DisplayCharacter(q, Newline)
    BY <1>7, <1>10, <1>11, <2>1 DEF Written
  <2>3. q.y + 1 < Lines
    <3>1. /\ q.y \in Nat /\ q.y < Lines
          /\ q.y = Lines - 1 => Address(q.x, q.y) >= Columns * (Lines - 1)
      <4>1. OnPage(q)
        BY <1>11
      <4> QED
        BY <4>1, OnPageFacts
    <3>2. ~(Address(q.x, q.y) >= Columns * (Lines - 1))
      <4>1. PICK a : a = Address(q.x, q.y) /\ a = b + B + 2 * C + k
        BY <1>11
      <4> QED
        BY <1>1, <1>5, <4>1
    <3>3. Lines \in Nat
      BY Layout
    <3> QED
      BY <3>1, <3>2, <3>3
  <2>4. OnPage(DisplayCharacter(q, Newline)) /\ DisplayCharacter(q, Newline).text = q.text
    BY <1>11, <2>3, NewlineMoves
  <2> QED
    BY <1>10, <2>2, <2>4 DEF OnPage
<1>13. StatusBar(s, n).text = z.text
  <2>1. StatusBar(s, n) = UpdateCursor(SetPosition(z, 0, 0))
    BY <1>3, <1>6, <1>8, <1>12 DEF StatusBar
  <2>2. 0 \in 0 .. Columns /\ 0 \in 0 .. Lines - 1
    BY Layout
  <2>3. PICK p : p = SetPosition(z, 0, 0) /\ p.text = z.text /\ Shaped(p)
    BY <1>12, <2>2, SetFields, SoundSetPosition DEF Sound
  <2> QED
    BY <2>1, <2>3, UpdatedFields
<1>14. ASSUME NEW j \in Cell, j < Address(BlockColumn, StackLine) PROVE z.text[j] = s.text[j]
  <2>1. j \in Int
    BY DEF Cell
  <2>2. Address(BlockColumn, StackLine) = b + B + 2 * C
    BY <1>1, <1>2
  <2>3. j \notin b + B + 2 * C .. b + B + 2 * C + k - 1
    BY <1>14, <2>1, <2>2
  <2> QED
    BY <1>11, <1>12, <2>3
<1> QED
  BY <1>13, <1>14

LEMMA StatusBarBehind ==
  ASSUME NEW s, Sound(s), NEW n \in 0 .. Len(Source)
  PROVE  SameLine(StatusBar(s, n).text, s.text)
<1>1. PICK B \in Nat, C \in Nat :
        /\ C = Columns /\ C >= 2
        /\ \A x \in Int : Address(x, StackLine) = x + B + 2 * C
  BY LinesBegin
<1>2. PICK b \in Nat : b = BlockColumn /\ b < C
  BY <1>1, DisplayAssumption DEF DisplayAssumption
<1>3. ASSUME NEW c \in 0 .. BlockColumn - 1
      PROVE  StatusBar(s, n).text[Address(c, StackLine)] = s.text[Address(c, StackLine)]
  <2>1. c \in Int /\ c >= 0 /\ c < b /\ c \in 0 .. Columns
    BY <1>1, <1>2
  <2>2. Address(c, StackLine) \in Cell
    BY <2>1, Layout, PlaceIsCell
  <2>3. Address(c, StackLine) < Address(BlockColumn, StackLine)
    BY <1>1, <1>2, <2>1
  <2> QED
    BY <2>2, <2>3, StatusBarKeeps
<1> QED
  BY <1>3 DEF SameLine

-----------------------------------------------------------------------------
(* The data stack stays in its array. *)
LEMMA BecomesShort ==
  ASSUME Tuple(stack), Len(stack) <= StackSize, NEW v, NEW calls, NEW m \in {1, 2}
  PROVE  /\ Becomes(stack, calls) => Len(stack') <= StackSize
         /\ Len(stack) < StackSize /\ Becomes(Append(stack, v), calls) => Len(stack') <= StackSize
         /\ Pops(m) /\ Becomes(Dropped(m), calls) => Len(stack') <= StackSize
         /\ Pops(m) /\ Becomes(Append(Dropped(m), v), calls) => Len(stack') <= StackSize
         /\ Breaks => Len(stack') <= StackSize
<1>1. PICK V : stack \in Seq(V)
  BY DEF Tuple
<1>2. PICK W : W = V \cup {v}
  OBVIOUS
<1>3. v \in W /\ stack \in Seq(W) /\ StackSize \in Nat
  BY <1>1, <1>2, LargerSeq, ForthAssumption DEF ForthAssumption
<1>4. PICK n \in Nat : n = Len(stack)
  BY <1>3
<1>5. Len(Append(stack, v)) = n + 1
  BY <1>3, <1>4
<1>6. Pops(m) => Dropped(m) \in Seq(W) /\ Len(Dropped(m)) = n - m
  BY <1>3, <1>4 DEF Pops, Dropped
<1>7. Pops(m) => Len(Append(Dropped(m), v)) = n - m + 1
  BY <1>3, <1>6
<1> QED
  BY <1>3, <1>4, <1>5, <1>6, <1>7 DEF Becomes, Breaks

LEMMA DispatchShort ==
  ASSUME Tuple(stack), Len(stack) <= StackSize, NEW c, NEW calls, Dispatch(c, calls)
  PROVE  Len(stack') <= StackSize
<1>1. 1 \in {1, 2} /\ 2 \in {1, 2}
  OBVIOUS
<1>2. ASSUME NEW d, Push(d, calls) PROVE Len(stack') <= StackSize
  BY <1>1, <1>2, BecomesShort DEF Push
<1>3. ASSUME NEW code, Execute(code, calls) PROVE Len(stack') <= StackSize
  <2>1. CASE Becomes(stack, calls)
    BY <1>1, <2>1, BecomesShort
  <2>2. CASE Load(calls)
    BY <1>1, <2>2, BecomesShort DEF Load
  <2>3. CASE Loads(calls)
    BY <1>1, <2>3, BecomesShort DEF Loads
  <2>4. CASE Dot(calls)
    BY <1>1, <2>4, BecomesShort DEF Dot
  <2>5. CASE Add(calls)
    BY <1>1, <2>5, BecomesShort DEF Add
  <2>6. CASE Divide(calls)
    BY <1>1, <2>6, BecomesShort DEF Divide, Divides
  <2> QED
    BY <1>3, <2>1, <2>2, <2>3, <2>4, <2>5, <2>6 DEF Execute
<1>4. CASE Becomes(stack, calls)
  BY <1>1, <1>4, BecomesShort
<1> QED
  BY <1>2, <1>3, <1>4 DEF Dispatch

(* The blocks are those of the text, and the page is of one of them. *)
PageInv ==
  /\ Len(stack) <= StackSize
  /\ Tuple(source) /\ Len(source) >= 1
  /\ Len(source) = 1 \/ Len(source) <= Len(Source)
  /\ nbBlock \in 0 .. Len(source) - 1
  /\ booted => DOMAIN blocks = 0 .. Len(source) - 1

LEMMA PageInvInit == DInit => PageInv
<1> SUFFICES ASSUME DInit PROVE PageInv
  OBVIOUS
<1>1. stack = <<>> /\ source = << <<>> >> /\ nbBlock = 0 /\ booted = FALSE
  BY DEF DInit, Init, ForthInit
<1>2. Tuple(source) /\ Len(source) = 1
  BY <1>1, OneCharacter
<1>3. Len(stack) = 0 /\ StackSize \in Nat
  BY <1>1, ForthAssumption DEF ForthAssumption
<1> QED
  BY <1>1, <1>2, <1>3 DEF PageInv

(* A text that grows keeps a block for each of its parts. *)
LEMMA TextGrows ==
  ASSUME PageInv, (\E item \in Items : AddItem(item)) \/ AddBlock
  PROVE  PageInv'
<1>1. PICK V : source \in Seq(V) /\ source # <<>>
  BY DEF PageInv, Tuple
<1>2. PICK n \in Nat : n = Len(source) /\ n >= 1
  BY <1>1
<1>3. Len(Source) \in Nat
  BY DisplayAssumption DEF DisplayAssumption
<1>4. \E e : source' = Append(Front(source), e) \/ (n < Len(Source) /\ source' = Append(source, e))
  BY <1>2 DEF AddItem, AddBlock, Text
<1>5. PICK e : source' = Append(Front(source), e) \/ (n < Len(Source) /\ source' = Append(source, e))
  BY <1>4
<1>6. PICK W : W = V \cup {e}
  OBVIOUS
<1>7. e \in W /\ source \in Seq(W)
  BY <1>1, <1>6, LargerSeq
<1>8. Front(source) \in Seq(W) /\ Len(Front(source)) = n - 1
  BY <1>2, <1>7 DEF Front
<1>9. /\ Append(Front(source), e) \in Seq(W) /\ Len(Append(Front(source), e)) = n
      /\ Append(source, e) \in Seq(W) /\ Len(Append(source, e)) = n + 1
  BY <1>2, <1>7, <1>8
<1>10. PICK m \in Nat : /\ source' \in Seq(W) /\ m = Len(source') /\ m >= n
                        /\ m = n \/ m <= Len(Source)
  <2>1. CASE source' = Append(Front(source), e)
    <3>1. source' \in Seq(W) /\ Len(source') = n
      BY <1>9, <2>1
    <3> QED
      BY <3>1
  <2>2. CASE n < Len(Source) /\ source' = Append(source, e)
    <3>1. source' \in Seq(W) /\ Len(source') = n + 1
      BY <1>9, <2>2
    <3>2. n + 1 \in Nat /\ n + 1 >= n /\ n + 1 <= Len(Source)
      BY <1>3, <2>2
    <3> QED
      BY <3>1, <3>2
  <2> QED
    BY <1>5, <2>1, <2>2
<1>11. UNCHANGED <<vars, booted>> /\ ~booted
  BY DEF AddItem, AddBlock, Text
<1>12. stack' = stack /\ nbBlock' = nbBlock /\ ~booted'
  BY <1>11 DEF vars, forthVars, editorVars
<1>13. Tuple(source')
  BY <1>10 DEF Tuple
<1>14. nbBlock \in 0 .. n - 1 /\ (n = 1 \/ n <= Len(Source)) /\ Len(stack) <= StackSize
  BY <1>2 DEF PageInv
<1>15. nbBlock \in 0 .. m - 1 /\ (m = 1 \/ m <= Len(Source)) /\ m >= 1
  BY <1>2, <1>3, <1>10, <1>14
<1>16. /\ nbBlock' \in 0 .. Len(source') - 1 /\ Len(source') >= 1
       /\ Len(source') = 1 \/ Len(source') <= Len(Source)
  BY <1>10, <1>12, <1>15
<1> QED
  BY <1>12, <1>13, <1>14, <1>16 DEF PageInv

(* What the keys leave as it is. *)
LEMMA PlainKeyKeeps ==
  ASSUME PlainKey
  PROVE  /\ stack' = stack /\ blocks' = blocks /\ frames' = frames
         /\ \/ isHex' = isHex /\ nbBlock' = nbBlock
            \/ F1Key /\ nbBlock' = nbBlock
            \/ PageKey /\ isHex' = isHex
<1>1. CASE \E c \in {Newline, Backspace, Tab, NoLetter} : ControlKey(c)
  BY <1>1 DEF ControlKey, Control, Edits, Draws, forthVars
<1>2. CASE \E dx, dy \in {-1, 0, 1} : dx * dy = 0 /\ dx # dy /\ ArrowKey(dx, dy)
  BY <1>2 DEF ArrowKey, OtherKey, Show, Edits, Draws, forthVars
<1>3. CASE \E w \in Vocabulary : LetterKey(w)
  BY <1>3 DEF LetterKey, Type, forthVars
<1>4. CASE (\E k \in ColorLetter : ColorKey(k)) \/ LeaveKey
  BY <1>4 DEF ColorKey, LeaveKey, Select, forthVars
<1>5. CASE BlankKey \/ EscapeKey \/ F2Key
  BY <1>5 DEF BlankKey, Blank, EscapeKey, Escape, F2Key, F2, Edits, Draws, forthVars
<1>6. CASE F1Key
  BY <1>6 DEF F1Key, vars, forthVars, editorVars
<1>7. CASE NoPageKey
  BY <1>7 DEF NoPageKey, OtherKey, Show, forthVars
<1>8. CASE PageKey
  BY <1>8 DEF PageKey, PageUp, PageDown, Show, forthVars
<1> QED
  BY <1>1, <1>2, <1>3, <1>4, <1>5, <1>6, <1>7, <1>8 DEF PlainKey

LEMMA PageTurns ==
  ASSUME PageInv, booted, PageKey
  PROVE  nbBlock' \in 0 .. Len(source) - 1 /\ nbBlock' \in 0 .. Len(Source)
<1>1. PICK n \in Nat : n = Len(source) /\ n >= 1
  BY DEF PageInv, Tuple
<1>2. Cardinality(DOMAIN blocks) = n
  <2>1. DOMAIN blocks = 0 .. n - 1
    BY <1>1 DEF PageInv
  <2>2. PICK m \in Int : m = n - 1 /\ ~(0 > m) /\ m - 0 + 1 = n
    BY <1>1
  <2>3. Cardinality(0 .. m) = IF 0 > m THEN 0 ELSE m - 0 + 1
    BY 0 \in Int, FS_Interval
  <2> QED
    BY <2>1, <2>2, <2>3
<1>3. nbBlock' \in 0 .. n - 1
  BY <1>1, <1>2 DEF PageKey, PageUp, PageDown, Show, TotalBlocks, PageInv
<1>4. n = 1 \/ n <= Len(Source)
  BY <1>1 DEF PageInv
<1>5. Len(Source) \in Nat
  BY DisplayAssumption DEF DisplayAssumption
<1> QED
  BY <1>1, <1>3, <1>4, <1>5

(* Commands change neither the blocks nor the page that is shown.          *)
LEMMA RunsKeep ==
  ASSUME CommandKey \/ RunStep
  PROVE  blocks' = blocks /\ nbBlock' = nbBlock
<1>1. \A c, calls : Dispatch(c, calls) => blocks' = blocks
  BY DEF Dispatch, Execute, Push, Load, Loads, Dot, Add, Divide, Becomes, Breaks
<1>2. CASE CommandKey
  BY <1>1, <1>2 DEF CommandKey, Command, Breaks, forthVars
<1>3. CASE RunStep
  BY <1>1, <1>3 DEF RunStep, Go, Interpret, RunCell, RunDone, LoadNext, LoadsDone,
                    Becomes, Breaks, editorVars
<1> QED
  BY <1>2, <1>3

LEMMA PageInvStep == DrawInv /\ PageInv /\ [DNext]_displayVars => PageInv'
<1> SUFFICES ASSUME DrawInv, PageInv, [DNext]_displayVars PROVE PageInv'
  OBVIOUS
<1>1. CASE (\E item \in Items : AddItem(item)) \/ AddBlock
  BY <1>1, TextGrows
<1>2. CASE Boot
  <2>1. DOMAIN blocks' = 0 .. Len(source) - 1
    BY <1>2 DEF Boot
  <2>2. stack' = stack /\ source' = source /\ nbBlock' = nbBlock
    BY <1>2 DEF Boot, editorVars
  <2> QED
    BY <2>1, <2>2 DEF PageInv
<1>3. CASE booted /\ PlainKey /\ UNCHANGED <<source, booted>>
  <2>1. stack' = stack /\ blocks' = blocks
    BY <1>3, PlainKeyKeeps
  <2>2. nbBlock' \in 0 .. Len(source) - 1
    BY <1>3, PlainKeyKeeps, PageTurns DEF PageInv
  <2> QED
    BY <1>3, <2>1, <2>2 DEF PageInv
<1>4. CASE booted /\ (CommandKey \/ RunStep) /\ UNCHANGED <<source, booted>>
  <2>1. Tuple(stack) /\ Len(stack) <= StackSize
    BY DEF DrawInv, PageInv
  <2>2. Len(stack') <= StackSize
    <3>1. CASE CommandKey
      BY <2>1, <3>1, DispatchShort DEF CommandKey, Command, Breaks, forthVars
    <3>2. CASE RunStep
      <4>1. CASE RunCell
        BY <2>1, <4>1, DispatchShort DEF RunCell
      <4>2. CASE RunDone \/ LoadNext \/ LoadsDone
        BY <2>1, <4>2 DEF RunDone, LoadNext, LoadsDone, Becomes, Breaks
      <4> QED
        BY <3>2, <4>1, <4>2 DEF RunStep, Go, Interpret
    <3> QED
      BY <1>4, <3>1, <3>2
  <2>3. blocks' = blocks /\ nbBlock' = nbBlock
    BY <1>4, RunsKeep
  <2> QED
    BY <1>4, <2>2, <2>3 DEF PageInv
<1>5. CASE UNCHANGED displayVars
  BY <1>5 DEF PageInv, displayVars, vars, forthVars, editorVars
<1>6. CASE booted /\ (PageKey \/ (source = Source /\ KeyOrStep)) /\ UNCHANGED <<source, booted>>
  <2>1. PlainKey \/ CommandKey \/ RunStep
    BY <1>6 DEF KeyOrStep, PlainKey
  <2> QED
    BY <1>3, <1>4, <1>6, <2>1
<1> QED
  BY <1>1, <1>2, <1>5, <1>6 DEF DNext

-----------------------------------------------------------------------------
(* The keys and the commands after which the stack is shown.               *)
LEMMA SameStack ==
  ASSUME NEW s, Sound(s), NEW st, Tuple(st), Len(st) <= StackSize, NEW hex
  PROVE  /\ StackReads(st, hex, DotS(s, st, hex).text)
         /\ StackReads(st, hex, CommandPrompt(DotS(s, st, hex)).text)
<1>1. PICK d : d = DotS(s, st, hex) /\ Sound(d)
  BY DotSBlinks DEF Blinks
<1>2. CommandPrompt(d).text = d.text
  BY <1>1, PromptFields
<1>3. SameLine(d.text, d.text)
  BY DEF SameLine
<1> QED
  BY <1>1, <1>2, <1>3, StackReadsLine

LEMMA KeyShowsStack ==
  ASSUME DrawInv, PageInv, booted, PlainKey, isHex' # isHex \/ nbBlock' # nbBlock
  PROVE  StackReads(stack', isHex', screen'.text)
<1>1. stack' = stack /\ Tuple(stack) /\ Len(stack) <= StackSize /\ Sound(screen)
  BY PlainKeyKeeps DEF DrawInv, PageInv
<1>2. CASE F1Key
  <2>1. screen' = DotS(screen, stack, isHex')
    BY <1>2 DEF F1Key
  <2> QED
    BY <1>1, <2>1, SameStack
<1>3. CASE PageKey /\ isHex' = isHex
  <2>1. PICK s : /\ Sound(s)
                 /\ DisplayCommandPrompt(BlockWords(blocks, nbBlock'), stack, isHex) = DotS(s, stack, isHex)
    <3>1. PICK b : b = BlockWords(blocks, nbBlock') /\ Sound(b)
      BY BlockWordsSound
    <3>2. Sound(SetPosition(b, 0, PromptLine))
      BY <3>1, Layout, SoundSetPosition
    <3>3. Sound(Write(SetPosition(b, 0, PromptLine), <<PromptSign, Space>>))
      BY <3>2, TwoCharacters, WriteSound
    <3> QED
      BY <3>1, <3>3 DEF DisplayCommandPrompt
  <2>2. PICK d : d = DotS(s, stack, isHex) /\ Sound(d)
    BY <1>1, <2>1, DotSBlinks DEF Blinks
  <2>3. PICK n \in 0 .. Len(Source) : n = nbBlock'
    BY <1>3, PageTurns
  <2>4. screen' = StatusBar(d, n)
    BY <1>3, <2>1, <2>2, <2>3 DEF PageKey, DisplayBlock
  <2>5. SameLine(StatusBar(d, n).text, d.text)
    BY <2>2, StatusBarBehind
  <2> QED
    BY <1>1, <1>3, <2>1, <2>2, <2>4, <2>5, StackReadsLine
<1> QED
  BY <1>2, <1>3, PlainKeyKeeps

LEMMA CommandShowsStack ==
  ASSUME DrawInv, PageInv', Tuple(stack'), CommandKey, Waiting',
         stack' # stack \/ frames' # frames \/ isHex' # isHex \/ nbBlock' # nbBlock
  PROVE  StackReads(stack', isHex', screen'.text)
<1>1. Command /\ Sound(screen) /\ frames' = <<>> /\ ~broken' /\ isHex' = isHex /\ nbBlock' = nbBlock
  BY DEF CommandKey, Command, DrawInv, Waiting
<1>2. NoLetter \notin Range(word)
  <2>1. ASSUME NoLetter \in Range(word), IsNumber(word) PROVE FALSE
    BY <2>1 DEF Range, IsNumber, NoLetter, Digit, Zero
  <2> QED
    BY <1>1, <2>1 DEF Command, Breaks, Named
<1>3. PICK e : /\ Sound(e) /\ Empty(e) /\ e.x = 2 /\ e.y = PromptLine /\ e.led = 0
               /\ \/ NoLetter \in Range(word)
                  \/ IsNumber(word) /\ screen' = Answered(e)
                  \/ /\ Named /\ Lookup(Pack(word)) = "none"
                     /\ screen' = CommandPrompt(Write(SetPosition(SetPosition(e, 0, OutputLine), 0, ErrorLine),
                                                      <<ErrorText>>))
                  \/ /\ Named /\ Lookup(Pack(word)) # "none"
                     /\ \E said \in Seq(Nat) :
                          /\ Len(said) <= 3 * Columns
                          /\ screen' = Answered(Write(SetPosition(e, 0, OutputLine), said))
  BY <1>1, CommandScreens
<1>4. \A s : Answered(s) = CommandPrompt(DotS(s, stack', isHex))
  BY <1>1 DEF Answered
<1>5. Len(stack') <= StackSize
  BY DEF PageInv
<1>6. CASE Named /\ Lookup(Pack(word)) = "none"
  <2>1. UNCHANGED forthVars
    BY <1>1, <1>2, <1>6 DEF Command, Named
  <2>2. stack' = stack /\ frames' = frames
    BY <2>1 DEF forthVars
  <2> QED
    BY <1>1, <2>2
<1>7. CASE screen' = Answered(e)
  BY <1>1, <1>3, <1>4, <1>5, <1>7, SameStack
<1>8. CASE \E said \in Seq(Nat) : screen' = Answered(Write(SetPosition(e, 0, OutputLine), said))
  <2>1. PICK said \in Seq(Nat) : screen' = Answered(Write(SetPosition(e, 0, OutputLine), said))
    BY <1>8
  <2>2. PICK o : o = SetPosition(e, 0, OutputLine) /\ OnPage(o)
    BY <1>3, OutputBegins
  <2>3. PICK r : r = Write(o, said) /\ OnPage(r)
    BY <2>2, LettersWritten
  <2>4. screen' = CommandPrompt(DotS(r, stack', isHex'))
    BY <1>1, <1>4, <2>1, <2>2, <2>3
  <2>5. Sound(r)
    BY <2>3 DEF OnPage
  <2> QED
    BY <1>5, <2>4, <2>5, SameStack
<1> QED
  BY <1>2, <1>3, <1>6, <1>7, <1>8

LEMMA StepShowsStack ==
  ASSUME DrawInv, PageInv', Tuple(stack'), RunInv, RunStep, Waiting'
  PROVE  StackReads(stack', isHex', screen'.text)
<1>1. Interpret /\ frames # <<>> /\ OnPage(screen) /\ isHex' = isHex
  BY DEF RunStep, Go, Interpret, RunCell, RunDone, LoadNext, LoadsDone, Open, RunInv
<1>2. frames' = <<>> /\ ~broken'
  BY DEF Waiting
<1>3. PICK said \in Seq(Nat) : screen' = Answered(Write(screen, said))
  BY StepSays
<1>4. PICK r : r = Write(screen, said) /\ OnPage(r)
  BY <1>1, LettersWritten
<1>5. Sound(r)
  BY <1>4 DEF OnPage
<1>6. screen' = CommandPrompt(DotS(r, stack', isHex'))
  BY <1>1, <1>2, <1>3, <1>4 DEF Answered
<1>7. Len(stack') <= StackSize
  BY DEF PageInv
<1> QED
  BY <1>5, <1>6, <1>7, SameStack

(* Whatever is keyed and whatever blocks run: once the stack has changed,  *)
(* or its base, or the page, its line says what is on it, in numerals that *)
(* are those of the numbers.                                               *)
THEOREM DisplayStackShown == DSpec => StackShown
<1>1. DrawInv /\ RunInv /\ PageInv /\ [DNext]_displayVars =>
        [(stack' # stack \/ frames' # frames \/ isHex' # isHex \/ nbBlock' # nbBlock) /\ Waiting'
           => StackReads(stack', isHex', screen'.text)]_displayVars
  <2> SUFFICES ASSUME DrawInv, RunInv, PageInv, DNext, Waiting',
                      stack' # stack \/ frames' # frames \/ isHex' # isHex \/ nbBlock' # nbBlock
               PROVE  StackReads(stack', isHex', screen'.text)
    OBVIOUS
  <2>1. Tuple(stack') /\ PageInv'
    BY DrawInvStep, PageInvStep DEF DrawInv
  <2>2. CASE (\E item \in Items : AddItem(item)) \/ AddBlock
    BY <2>2 DEF AddItem, AddBlock, Text, vars, forthVars, editorVars
  <2>3. CASE Boot
    BY <2>3 DEF Boot, editorVars
  <2>4. CASE booted /\ PlainKey
    BY <2>4, KeyShowsStack, PlainKeyKeeps
  <2>5. CASE CommandKey
    BY <2>1, <2>5, CommandShowsStack
  <2>6. CASE RunStep
    BY <2>1, <2>6, StepShowsStack
  <2>7. KeyOrStep \/ PageKey => PlainKey \/ CommandKey \/ RunStep
    BY DEF KeyOrStep, PlainKey
  <2> QED
    BY <2>2, <2>3, <2>4, <2>5, <2>6, <2>7 DEF DNext
<1> QED
  BY <1>1, DrawInvInit, DrawInvStep, RunInvInit, RunInvStep, PageInvInit, PageInvStep,
     PTL DEF DSpec, StackShown

-----------------------------------------------------------------------------
(* Sequences that are joined, and the steps of the recursion that does it. *)

(* t gives the sequences of ss joined so far. *)
FlattensTo(t, ss) == t[0] = <<>> /\ \A i \in 1 .. Len(ss) : t[i] = t[i - 1] \o ss[i]

LEMMA FlattenIs ==
  ASSUME NEW V, NEW ss \in Seq(Seq(V))
  PROVE  \E t \in [0 .. Len(ss) -> Seq(V)] : FlattensTo(t, ss) /\ FlattenSeq(ss) = t[Len(ss)]
<1>1. PICK N \in Nat : N = Len(ss)
  OBVIOUS
<1>2. PICK T : T = Seq(V)
  OBVIOUS
<1>3. \A i \in 1 .. N : ss[i] \in T
  BY <1>1, <1>2
<1>4. PICK H : H = [i \in 1 .. N |-> [v \in T |-> v \o ss[i]]]
  OBVIOUS
<1>5. H \in [1 .. N -> [T -> T]]
  <2>1. ASSUME NEW i \in 1 .. N, NEW v \in T PROVE v \o ss[i] \in T
    BY <1>2, <1>3
  <2> QED
    BY <1>4, <2>1
<1>6. ASSUME NEW i \in 1 .. N, NEW v \in T PROVE H[i][v] = v \o ss[i]
  BY <1>4
<1>7. PICK c : c = <<>> /\ c \in T
  BY <1>2, EmptySeq
<1>8. PICK f \in [0 .. N -> T] : Follows(f, c, H, N)
  BY <1>5, <1>7, Recursion
<1>9. ASSUME NEW i \in 1 .. N PROVE f[i] = f[i - 1] \o ss[i]
  <2>1. i - 1 \in 0 .. N /\ f[i - 1] \in T
    OBVIOUS
  <2> QED
    BY <1>6, <1>8, <2>1 DEF Follows
<1>10. f[0] = <<>>
  BY <1>7, <1>8 DEF Follows
<1>11. FlattensTo(f, ss)
  BY <1>1, <1>9, <1>10 DEF FlattensTo
<1>12. CASE N = 0
  <2>1. FlattenSeq(ss) = ss
    BY <1>1, <1>12 DEF FlattenSeq
  <2>2. ss \in Seq(T) /\ Len(ss) = 0
    BY <1>1, <1>2, <1>12
  <2>3. ss = <<>>
    BY <2>2
  <2> QED
    BY <1>1, <1>2, <1>10, <1>11, <1>12, <2>1, <2>3
<1>13. CASE N # 0
  <2> DEFINE flatten[i \in 1 .. Len(ss)] == IF i = 1 THEN ss[i] ELSE flatten[i - 1] \o ss[i]
             is(g) == g = [i \in 1 .. Len(ss) |-> IF i = 1 THEN ss[i] ELSE g[i - 1] \o ss[i]]
  <2>1. FlattenSeq(ss) = flatten[N]
    BY <1>1, <1>13 DEF FlattenSeq
  <2>2. PICK h : h = [i \in 1 .. N |-> f[i]]
    OBVIOUS
  <2>3. ASSUME NEW i \in 1 .. N
        PROVE  h[i] = IF i = 1 THEN ss[i] ELSE h[i - 1] \o ss[i]
    <3>1. CASE i = 1
      <4>1. f[i] = <<>> \o ss[i] /\ ss[i] \in T
        <5>1. i - 1 = 0
          BY <3>1
        <5> QED
          BY <1>3, <1>9, <1>10, <5>1
      <4>2. <<>> \o ss[i] = ss[i]
        BY <1>2, <4>1
      <4> QED
        BY <2>2, <3>1, <4>1, <4>2
    <3>2. CASE i # 1
      <4>1. i - 1 \in 1 .. N /\ h[i - 1] = f[i - 1]
        BY <2>2, <3>2
      <4> QED
        BY <1>9, <2>2, <3>2, <4>1
    <3> QED
      BY <3>1, <3>2
  <2>4. is(h)
    BY <1>1, <2>2, <2>3
  <2>5. flatten = CHOOSE g : is(g)
    OBVIOUS
  <2>6. PICK g : g = flatten
    OBVIOUS
  <2>7. is(g)
    BY <2>4, <2>5, <2>6
  <2> HIDE DEF flatten
  <2>8. ASSUME NEW i \in 1 .. N
        PROVE  g[i] = IF i = 1 THEN ss[i] ELSE g[i - 1] \o ss[i]
    BY <1>1, <2>7
  <2> HIDE DEF is
  <2> DEFINE S == {d \in Nat : d \in 1 .. N => g[d] = f[d]}
  <2>9. 0 \in S
    OBVIOUS
  <2>10. ASSUME NEW d \in Nat, d \in S PROVE d + 1 \in S
    <3> SUFFICES ASSUME d + 1 \in 1 .. N PROVE g[d + 1] = f[d + 1]
      OBVIOUS
    <3>1. CASE d = 0
      <4>1. f[1] = <<>> \o ss[1] /\ ss[1] \in T
        <5>1. 1 \in 1 .. N /\ 1 - 1 = 0
          BY <3>1
        <5> QED
          BY <1>3, <1>9, <1>10, <5>1
      <4>2. g[1] = ss[1]
        BY <2>8, <3>1
      <4>3. <<>> \o ss[1] = ss[1]
        BY <1>2, <4>1
      <4> QED
        BY <3>1, <4>1, <4>2, <4>3
    <3>2. CASE d # 0
      <4>1. d \in 1 .. N /\ (d + 1) - 1 = d /\ d + 1 # 1
        BY <3>2
      <4>2. g[d] = f[d]
        BY <2>10, <4>1
      <4>3. g[d + 1] = g[d] \o ss[d + 1]
        BY <2>8, <4>1
      <4>4. f[d + 1] = f[d] \o ss[d + 1]
        BY <1>9, <4>1
      <4> QED
        BY <4>2, <4>3, <4>4
    <3> QED
      BY <3>1, <3>2
  <2> HIDE DEF S
  <2>11. N \in S
    BY <2>9, <2>10, Induct
  <2>12. FlattenSeq(ss) = f[N]
    BY <1>13, <2>1, <2>6, <2>11 DEF S
  <2> QED
    BY <1>1, <1>2, <1>11, <2>12
<1> QED
  BY <1>12, <1>13

(* There is one such t. *)
SameBegin(ss, rr, N) ==
  /\ Len(ss) \in Nat /\ Len(rr) \in Nat /\ N <= Len(ss) /\ N <= Len(rr)
  /\ \A i \in 1 .. N : ss[i] = rr[i]

LEMMA OneFlatten ==
  ASSUME NEW N \in Nat, NEW ss, NEW rr, SameBegin(ss, rr, N), NEW t, NEW u,
         FlattensTo(t, ss), FlattensTo(u, rr)
  PROVE  \A i \in 0 .. N : t[i] = u[i]
<1> DEFINE S == {i \in Nat : i <= N => t[i] = u[i]}
<1>1. 0 \in S
  BY DEF FlattensTo
<1>2. ASSUME NEW i \in Nat, i \in S PROVE i + 1 \in S
  <2> SUFFICES ASSUME i + 1 <= N PROVE t[i + 1] = u[i + 1]
    OBVIOUS
  <2>1. /\ i + 1 \in 1 .. Len(ss) /\ i + 1 \in 1 .. Len(rr) /\ i + 1 \in 1 .. N
        /\ (i + 1) - 1 = i /\ t[i] = u[i]
    BY <1>2 DEF SameBegin
  <2> QED
    BY <2>1 DEF FlattensTo, SameBegin
<1> HIDE DEF S
<1>3. \A i \in Nat : i \in S
  BY <1>1, <1>2, Induct
<1> QED
  BY <1>3 DEF S

LEMMA FlattenAppend ==
  ASSUME NEW V, NEW ss \in Seq(Seq(V)), NEW s \in Seq(V)
  PROVE  FlattenSeq(Append(ss, s)) = FlattenSeq(ss) \o s
<1>1. PICK N \in Nat : N = Len(ss)
  OBVIOUS
<1>0. PICK T : T = Seq(V)
  OBVIOUS
<1>2. PICK rr : rr = Append(ss, s)
  OBVIOUS
<1>3. /\ rr \in Seq(T) /\ Len(rr) = N + 1 /\ rr[N + 1] = s
      /\ \A i \in 1 .. N : ss[i] = rr[i]
  BY <1>0, <1>1, <1>2
<1>4. PICK t \in [0 .. Len(ss) -> Seq(V)] : FlattensTo(t, ss) /\ FlattenSeq(ss) = t[Len(ss)]
  BY FlattenIs
<1>5. rr \in Seq(Seq(V))
  BY <1>0, <1>3
<1>6. PICK u \in [0 .. Len(rr) -> Seq(V)] : FlattensTo(u, rr) /\ FlattenSeq(rr) = u[Len(rr)]
  BY <1>5, FlattenIs
<1>7. \A i \in 0 .. N : t[i] = u[i]
  <2>1. SameBegin(ss, rr, N)
    BY <1>1, <1>3 DEF SameBegin
  <2> QED
    BY <1>4, <1>6, <2>1, OneFlatten
<1>8. u[N + 1] = u[N] \o s
  <2>1. N + 1 \in 1 .. Len(rr) /\ (N + 1) - 1 = N
    BY <1>3
  <2> QED
    BY <1>3, <1>6, <2>1 DEF FlattensTo
<1>9. FlattenSeq(rr) = u[N + 1] /\ FlattenSeq(ss) = u[N]
  BY <1>1, <1>3, <1>4, <1>6, <1>7
<1> QED
  BY <1>2, <1>8, <1>9

LEMMA FlattenEmpty == FlattenSeq(<<>>) = <<>>
  BY DEF FlattenSeq

-----------------------------------------------------------------------------
(* The parts of a word.                                                    *)

Codes(w) == [i \in 1 .. Len(w) |-> CodeOf(w[i])]

LEMMA CodedFlattens ==
  ASSUME NEW w \in Seq(Letter)
  PROVE  Codes(w) \in Seq(Seq(Bit)) /\ Coded(w) = FlattenSeq(Codes(w))
<1>1. PICK N \in Nat : N = Len(w)
  OBVIOUS
<1>2. PICK T : T = Seq(Bit)
  OBVIOUS
<1>3. PICK cs : cs = Codes(w)
  OBVIOUS
<1>4. ASSUME NEW i \in 1 .. N PROVE CodeOf(w[i]) \in T
  BY <1>1, <1>2, CodeBits
<1>5. cs \in Seq(T) /\ Len(cs) = N /\ \A i \in 1 .. N : cs[i] = CodeOf(w[i])
  BY <1>1, <1>3, <1>4 DEF Codes
<1>6. PICK u : CodedUpTo(u, w) /\ Coded(w) = u[Len(w)]
  BY CodedIs
<1>7. FlattensTo(u, cs)
  BY <1>1, <1>5, <1>6 DEF CodedUpTo, FlattensTo
<1>8. cs \in Seq(Seq(Bit))
  BY <1>2, <1>5
<1>9. PICK t \in [0 .. Len(cs) -> Seq(Bit)] : FlattensTo(t, cs) /\ FlattenSeq(cs) = t[Len(cs)]
  BY <1>8, FlattenIs
<1>10. SameBegin(cs, cs, N)
  BY <1>5 DEF SameBegin
<1>11. \A i \in 0 .. N : t[i] = u[i]
  BY <1>7, <1>9, <1>10, OneFlatten
<1>12. t[N] = u[N]
  BY <1>11
<1> QED
  BY <1>1, <1>3, <1>5, <1>6, <1>8, <1>9, <1>12

LEMMA CodedAppend ==
  ASSUME NEW w \in Seq(Letter), NEW k \in Letter
  PROVE  Coded(Append(w, k)) = Coded(w) \o CodeOf(k)
<1>1. PICK N \in Nat : N = Len(w)
  OBVIOUS
<1>2. PICK v : v = Append(w, k)
  OBVIOUS
<1>3. /\ v \in Seq(Letter) /\ Len(v) = N + 1 /\ v[N + 1] = k
      /\ \A i \in 1 .. N : v[i] = w[i]
  BY <1>1, <1>2
<1>4. PICK cs, ds, c : cs = Codes(w) /\ ds = Codes(v) /\ c = CodeOf(k)
  OBVIOUS
<1>5. cs \in Seq(Seq(Bit)) /\ ds \in Seq(Seq(Bit)) /\ Coded(w) = FlattenSeq(cs) /\ Coded(v) = FlattenSeq(ds)
  BY <1>3, <1>4, CodedFlattens
<1>6. c \in Seq(Bit)
  BY <1>4, CodeBits
<1>7. PICK T : T = Seq(Bit)
  OBVIOUS
<1>8. Len(cs) = N /\ Len(ds) = N + 1 /\ ds[N + 1] = c /\ \A i \in 1 .. N : ds[i] = cs[i]
  <2>1. cs = [i \in 1 .. N |-> CodeOf(w[i])]
    BY <1>1, <1>4 DEF Codes
  <2>2. ds = [i \in 1 .. N + 1 |-> CodeOf(v[i])]
    BY <1>3, <1>4 DEF Codes
  <2>3. cs \in Seq(T) /\ ds \in Seq(T)
    BY <1>5, <1>7
  <2>4. Len(cs) = N /\ Len(ds) = N + 1
    BY <2>1, <2>2
  <2> QED
    BY <1>3, <1>4, <2>1, <2>2, <2>4
<1>9. ds = Append(cs, c)
  <2>1. cs \in Seq(T) /\ ds \in Seq(T) /\ c \in T
    BY <1>5, <1>6, <1>7
  <2> QED
    BY <1>8, <2>1
<1> QED
  BY <1>2, <1>4, <1>5, <1>6, <1>9, FlattenAppend

(* A part takes one more letter, or the letter begins the next part. *)
WithLetter(parts, k) ==
  IF Fits(Last(parts), k) THEN Append(Front(parts), Append(Last(parts), k))
  ELSE Append(parts, <<k>>)

PartsTo(u, w) == u[0] = << <<>> >> /\ \A i \in 1 .. Len(w) : u[i] = WithLetter(u[i - 1], w[i])

(* What parts are made of. *)
IsParts(parts) == parts \in Seq(Seq(Letter)) /\ parts # <<>>

LEMMA LastAndFront ==
  ASSUME NEW parts, IsParts(parts)
  PROVE  /\ Len(parts) \in Nat \ {0} /\ Last(parts) = parts[Len(parts)] /\ Last(parts) \in Seq(Letter)
         /\ Front(parts) \in Seq(Seq(Letter)) /\ Len(Front(parts)) = Len(parts) - 1
         /\ \A i \in 1 .. Len(parts) - 1 : Front(parts)[i] = parts[i]
         /\ parts = Append(Front(parts), Last(parts))
<1>1. PICK T : T = Seq(Letter)
  OBVIOUS
<1>2. parts \in Seq(T) /\ parts # <<>>
  BY <1>1 DEF IsParts
<1>3. PICK n, f, l : n = Len(parts) /\ f = SubSeq(parts, 1, n - 1) /\ l = parts[n]
  OBVIOUS
<1>4. n \in Nat /\ n >= 1 /\ l \in T
  BY <1>2, <1>3
<1>5. f \in Seq(T) /\ Len(f) = n - 1 /\ \A i \in 1 .. n - 1 : f[i] = parts[i]
  BY <1>2, <1>3, <1>4
<1>6. parts = Append(f, l)
  <2>1. Append(f, l) \in Seq(T) /\ Len(Append(f, l)) = n
    BY <1>4, <1>5
  <2>2. ASSUME NEW i \in 1 .. n PROVE Append(f, l)[i] = parts[i]
    BY <1>3, <1>4, <1>5
  <2> QED
    BY <1>2, <1>3, <2>1, <2>2
<1>7. Last(parts) = l /\ Front(parts) = f
  BY <1>3 DEF Last, Front
<1>8. Len(parts) \in Nat \ {0} /\ Last(parts) = parts[Len(parts)] /\ Last(parts) \in Seq(Letter)
  BY <1>1, <1>3, <1>4, <1>7
<1>9. Front(parts) \in Seq(Seq(Letter)) /\ Len(Front(parts)) = Len(parts) - 1
  BY <1>1, <1>3, <1>5, <1>7
<1>10. \A i \in 1 .. Len(parts) - 1 : Front(parts)[i] = parts[i]
  BY <1>3, <1>5, <1>7
<1>11. parts = Append(Front(parts), Last(parts))
  BY <1>6, <1>7
<1> QED
  BY <1>8, <1>9, <1>10, <1>11

LEMMA WithLetterIs ==
  ASSUME NEW parts, IsParts(parts), NEW k \in Letter
  PROVE  IsParts(WithLetter(parts, k))
<1>1. PICK T : T = Seq(Letter)
  OBVIOUS
<1>2. Last(parts) \in T /\ Front(parts) \in Seq(T) /\ parts \in Seq(T)
  BY <1>1, LastAndFront DEF IsParts
<1>3. Append(Last(parts), k) \in T /\ <<k>> \in T
  BY <1>1, <1>2
<1>4. PICK a, b : a = Append(Front(parts), Append(Last(parts), k)) /\ b = Append(parts, <<k>>)
  OBVIOUS
<1>5. a \in Seq(T) /\ a # <<>> /\ b \in Seq(T) /\ b # <<>>
  BY <1>2, <1>3, <1>4
<1>6. WithLetter(parts, k) \in {a, b}
  BY <1>4 DEF WithLetter
<1> QED
  BY <1>1, <1>5, <1>6 DEF IsParts

LEMMA PartsAre ==
  ASSUME NEW w \in Seq(Letter)
  PROVE  \E u : /\ PartsTo(u, w) /\ Parts(w) = u[Len(w)]
                /\ \A i \in 0 .. Len(w) : IsParts(u[i])
<1> DEFINE upto[i \in 0 .. Len(w)] ==
             IF i = 0 THEN << <<>> >> ELSE WithLetter(upto[i - 1], w[i])
           is(g) == g = [i \in 0 .. Len(w) |->
                           IF i = 0 THEN << <<>> >> ELSE WithLetter(g[i - 1], w[i])]
<1>1. Parts(w) = upto[Len(w)]
  BY DEF Parts, WithLetter
<1>2. PICK N \in Nat : N = Len(w)
  OBVIOUS
<1>3. PICK T : T = {parts \in Seq(Seq(Letter)) : parts # <<>>}
  OBVIOUS
<1>4. \A v : v \in T <=> IsParts(v)
  BY <1>3 DEF IsParts
<1>5. PICK H : H = [i \in 1 .. N |-> [v \in T |-> WithLetter(v, w[i])]]
  OBVIOUS
<1>6. H \in [1 .. N -> [T -> T]]
  <2>1. ASSUME NEW i \in 1 .. N, NEW v \in T PROVE WithLetter(v, w[i]) \in T
    BY <1>2, <1>4, WithLetterIs
  <2> QED
    BY <1>5, <2>1
<1>7. ASSUME NEW i \in 1 .. N, NEW v \in T PROVE H[i][v] = WithLetter(v, w[i])
  BY <1>5
<1>8. PICK c : c = << <<>> >> /\ c \in T
  <2>1. PICK s : s = Seq(Letter) /\ <<>> \in s
    BY EmptySeq
  <2>2. << <<>> >> \in Seq(s) /\ << <<>> >> # <<>>
    BY <2>1
  <2> QED
    BY <1>3, <2>1, <2>2
<1>9. PICK f \in [0 .. N -> T] : Follows(f, c, H, N)
  BY <1>6, <1>8, Recursion
<1>10. ASSUME NEW i \in 0 .. N
       PROVE  f[i] = IF i = 0 THEN << <<>> >> ELSE WithLetter(f[i - 1], w[i])
  <2>1. CASE i # 0
    <3>1. i \in 1 .. N /\ i - 1 \in 0 .. N /\ f[i - 1] \in T
      BY <2>1
    <3>2. f[i] = H[i][f[i - 1]]
      BY <1>9, <3>1 DEF Follows
    <3> QED
      BY <1>7, <2>1, <3>1, <3>2
  <2> QED
    BY <1>8, <1>9, <2>1 DEF Follows
<1>11. is(f)
  BY <1>2, <1>10
<1>12. upto = CHOOSE g : is(g)
  OBVIOUS
<1>13. PICK u : u = upto
  OBVIOUS
<1>14. is(u)
  BY <1>11, <1>12, <1>13
<1> HIDE DEF upto
<1>15. ASSUME NEW i \in 0 .. N
       PROVE  u[i] = IF i = 0 THEN << <<>> >> ELSE WithLetter(u[i - 1], w[i])
  BY <1>2, <1>14
<1> HIDE DEF is
<1>16. PartsTo(u, w)
  <2>1. 0 \in 0 .. N /\ \A i \in 1 .. N : i \in 0 .. N /\ i # 0
    OBVIOUS
  <2> QED
    BY <1>2, <1>15, <2>1 DEF PartsTo
<1> DEFINE S == {d \in Nat : d <= N => IsParts(u[d])}
<1>17. 0 \in S
  BY <1>4, <1>8, <1>16 DEF PartsTo
<1>18. ASSUME NEW d \in Nat, d \in S PROVE d + 1 \in S
  <2> SUFFICES ASSUME d + 1 <= N PROVE IsParts(u[d + 1])
    OBVIOUS
  <2>1. d + 1 \in 1 .. Len(w) /\ (d + 1) - 1 = d /\ IsParts(u[d]) /\ w[d + 1] \in Letter
    BY <1>2, <1>18
  <2> QED
    BY <1>16, <2>1, WithLetterIs DEF PartsTo
<1> HIDE DEF S
<1>19. \A d \in Nat : d \in S
  BY <1>17, <1>18, Induct
<1> QED
  BY <1>1, <1>2, <1>13, <1>16, <1>19 DEF S

LEMMA EmptyCoded == Coded(<<>>) = <<>>
<1>1. PICK w : w = <<>>
  OBVIOUS
<1>2. w \in Seq(Letter) /\ Len(w) = 0
  BY <1>1, EmptySeq
<1>3. PICK u : CodedUpTo(u, w) /\ Coded(w) = u[Len(w)]
  BY <1>2, CodedIs
<1> QED
  BY <1>1, <1>2, <1>3 DEF CodedUpTo

LEMMA FitsInName ==
  ASSUME NEW w \in Seq(Letter), NEW k \in Letter, Fits(w, k)
  PROVE  InName(Append(w, k))
<1>1. PICK a, c, b : a = Coded(w) /\ c = CodeOf(k) /\ b = Coded(Append(w, k))
  OBVIOUS
<1>2. a \in Seq(Bit) /\ c \in Seq(Bit) /\ b = a \o c
  BY <1>1, CodedBits, CodeBits, CodedAppend
<1>3. Len(c) = CodeLength(k)
  BY <1>1, CodeBits
<1>4. PICK m, n \in Nat : m = Len(a) /\ n = Len(c) /\ Len(b) = m + n
  BY <1>2
<1>5. 28 - m > 0 /\ \A i \in (28 - m) + 1 .. n : c[i] = 0
  BY <1>1, <1>3, <1>4 DEF Fits, NameBits
<1>6. ASSUME NEW p \in 29 .. m + n PROVE b[p] = 0
  <2>1. m \in Nat
    BY <1>2, <1>4
  <2>2. p - m \in (28 - m) + 1 .. n /\ p - m \in 1 .. n /\ p \in 1 .. m + n /\ p > m
    BY <1>5, <2>1
  <2>3. b[p] = c[p - m]
    BY <1>2, <1>4, <2>2
  <2> QED
    BY <1>5, <2>2, <2>3
<1> QED
  BY <1>1, <1>4, <1>6 DEF InName, NameBits

LEMMA RoomFits ==
  ASSUME NEW w \in Seq(Letter), NEW k \in Letter, Len(Coded(Append(w, k))) <= NameBits
  PROVE  Fits(w, k) /\ Len(Coded(w)) <= NameBits
<1>1. PICK a, c, b : a = Coded(w) /\ c = CodeOf(k) /\ b = Coded(Append(w, k))
  OBVIOUS
<1>2. a \in Seq(Bit) /\ c \in Seq(Bit) /\ b = a \o c
  BY <1>1, CodedBits, CodeBits, CodedAppend
<1>3. Len(c) = CodeLength(k) /\ CodeLength(k) \in {4, 5, 7}
  BY <1>1, CodeBits
<1>4. PICK m \in Nat, n \in Nat : m = Len(a) /\ n = Len(c) /\ Len(b) = m + n
  BY <1>2
<1>5. n > 0 /\ m + n <= 28
  BY <1>1, <1>3, <1>4 DEF NameBits
<1>6. 28 - m > 0 /\ (28 - m) + 1 .. n = {}
  BY <1>5
<1> QED
  BY <1>1, <1>3, <1>4, <1>5, <1>6 DEF Fits, NameBits

LEMMA EmptyFits ==
  ASSUME NEW k \in Letter
  PROVE  Fits(<<>>, k)
<1>1. PICK w : w = <<>> /\ w \in Seq(Letter)
  BY EmptySeq
<1>2. PICK c, b : c = CodeOf(k) /\ b = Coded(Append(w, k))
  OBVIOUS
<1>3. c \in Seq(Bit) /\ Len(c) = CodeLength(k) /\ CodeLength(k) \in {4, 5, 7}
  BY <1>2, CodeBits
<1>4. b = c
  <2>1. b = <<>> \o c
    BY <1>1, <1>2, EmptyCoded, CodedAppend
  <2> QED
    BY <1>3, <2>1
<1>5. Len(b) <= NameBits
  BY <1>3, <1>4 DEF NameBits
<1> QED
  BY <1>1, <1>2, <1>5, RoomFits

AllInName(parts) == \A i \in 1 .. Len(parts) : InName(parts[i])

LEMMA WithLetterKeeps ==
  ASSUME NEW parts, IsParts(parts), AllInName(parts), NEW k \in Letter
  PROVE  /\ AllInName(WithLetter(parts, k))
         /\ FlattenSeq(WithLetter(parts, k)) = Append(FlattenSeq(parts), k)
<1>1. PICK T : T = Seq(Letter)
  OBVIOUS
<1>2. PICK f, l, n : f = Front(parts) /\ l = Last(parts) /\ n = Len(parts)
  OBVIOUS
<1>3. /\ n \in Nat /\ n >= 1 /\ l = parts[n] /\ l \in T /\ f \in Seq(T) /\ Len(f) = n - 1
      /\ \A i \in 1 .. n - 1 : f[i] = parts[i]
      /\ parts = Append(f, l)
  BY <1>1, <1>2, LastAndFront
<1>4. parts \in Seq(T)
  BY <1>1 DEF IsParts
<1>5. PICK x : x = FlattenSeq(f)
  OBVIOUS
<1>6. x \in Seq(Letter)
  BY <1>1, <1>3, <1>5, FlattenIsSeq
<1>7. FlattenSeq(parts) = x \o l
  BY <1>1, <1>3, <1>5, FlattenAppend
<1>8. l \in Seq(Letter)
  BY <1>1, <1>3
<1>9. CASE Fits(l, k)
  <2>1. PICK e, ps : e = Append(l, k) /\ ps = Append(f, e)
    OBVIOUS
  <2>2. WithLetter(parts, k) = ps
    BY <1>2, <1>9, <2>1 DEF WithLetter
  <2>3. e \in T /\ InName(e)
    BY <1>1, <1>8, <1>9, <2>1, FitsInName
  <2>4. Len(ps) = n /\ ps[n] = e /\ \A i \in 1 .. n - 1 : ps[i] = parts[i]
    BY <1>3, <2>1, <2>3
  <2>5. AllInName(ps)
    <3>1. ASSUME NEW i \in 1 .. n PROVE InName(ps[i])
      <4>1. i = n \/ i \in 1 .. n - 1
        BY <1>3
      <4>2. i \in 1 .. Len(parts)
        BY <1>2
      <4> QED
        BY <2>3, <2>4, <4>1, <4>2 DEF AllInName
    <3> QED
      BY <2>4, <3>1 DEF AllInName
  <2>6. FlattenSeq(ps) = x \o e
    BY <1>1, <1>3, <1>5, <2>1, <2>3, FlattenAppend
  <2>7. x \o Append(l, k) = Append(x \o l, k)
    BY <1>6, <1>8
  <2> QED
    BY <1>7, <2>1, <2>2, <2>5, <2>6, <2>7
<1>10. CASE ~Fits(l, k)
  <2>1. PICK e, ps : e = <<k>> /\ ps = Append(parts, e)
    OBVIOUS
  <2>2. WithLetter(parts, k) = ps
    BY <1>2, <1>10, <2>1 DEF WithLetter
  <2>3. e \in T /\ InName(e)
    <3>1. PICK w : w = <<>> /\ w \in Seq(Letter)
      BY EmptySeq
    <3>2. Append(w, k) = e /\ <<k>> \in Seq(Letter)
      BY <2>1, <3>1
    <3>3. Fits(w, k)
      BY <3>1, EmptyFits
    <3>4. InName(Append(w, k))
      BY <3>1, <3>3, FitsInName
    <3> QED
      BY <1>1, <2>1, <3>2, <3>4
  <2>4. Len(ps) = n + 1 /\ ps[n + 1] = e /\ \A i \in 1 .. n : ps[i] = parts[i]
    BY <1>2, <1>3, <1>4, <2>1, <2>3
  <2>5. AllInName(ps)
    <3>1. ASSUME NEW i \in 1 .. n + 1 PROVE InName(ps[i])
      <4>1. i = n + 1 \/ i \in 1 .. n
        BY <1>3
      <4> QED
        BY <1>2, <2>3, <2>4, <4>1 DEF AllInName
    <3> QED
      BY <2>4, <3>1 DEF AllInName
  <2>6. FlattenSeq(ps) = FlattenSeq(parts) \o e
    BY <1>1, <1>4, <2>1, <2>3, FlattenAppend
  <2>7. (x \o l) \o <<k>> = Append(x \o l, k)
    BY <1>6, <1>8
  <2> QED
    BY <1>7, <2>1, <2>2, <2>5, <2>6, <2>7
<1> QED
  BY <1>2, <1>9, <1>10

(* The parts make up the word, none of them loses a letter, and a word that *)
(* fits a name is one part.                                                *)
LEMMA PartsOfWord ==
  ASSUME NEW w \in Seq(Letter)
  PROVE  /\ IsParts(Parts(w)) /\ AllInName(Parts(w)) /\ FlattenSeq(Parts(w)) = w
         /\ Len(Coded(w)) <= NameBits => Parts(w) = <<w>>
<1>1. PICK N \in Nat : N = Len(w)
  OBVIOUS
<1>2. PICK u : /\ PartsTo(u, w) /\ Parts(w) = u[N]
               /\ \A i \in 0 .. N : IsParts(u[i])
  BY <1>1, PartsAre
<1>3. PICK x : x = [i \in 0 .. N |-> SubSeq(w, 1, i)]
  OBVIOUS
<1>4. /\ x[0] = <<>> /\ x[N] = w
      /\ \A i \in 0 .. N : x[i] \in Seq(Letter)
      /\ \A i \in 1 .. N : x[i] = Append(x[i - 1], w[i]) /\ w[i] \in Letter
  <2>1. \A i \in 0 .. N : x[i] = SubSeq(w, 1, i) /\ SubSeq(w, 1, i) \in Seq(Letter)
    BY <1>1, <1>3
  <2>2. SubSeq(w, 1, 0) = <<>> /\ SubSeq(w, 1, N) = w
    BY <1>1
  <2>3. ASSUME NEW i \in 1 .. N PROVE SubSeq(w, 1, i) = Append(SubSeq(w, 1, i - 1), w[i]) /\ w[i] \in Letter
    BY <1>1
  <2>4. \A i \in 1 .. N : i \in 0 .. N /\ i - 1 \in 0 .. N
    OBVIOUS
  <2> QED
    BY <2>1, <2>2, <2>3, <2>4
<1> DEFINE S == {d \in Nat : d <= N => AllInName(u[d]) /\ FlattenSeq(u[d]) = x[d]}
<1>5. 0 \in S
  <2>1. PICK e : e = <<>> /\ e \in Seq(Letter)
    BY EmptySeq
  <2>2. u[0] = <<e>>
    BY <1>2, <2>1 DEF PartsTo
  <2>3. InName(e)
    <3>1. Coded(e) = <<>> /\ Len(<<>>) = 0
      BY <2>1, EmptyCoded
    <3> QED
      BY <3>1 DEF InName, NameBits
  <2>4. FlattenSeq(<<e>>) = <<>>
    <3>1. PICK T : T = Seq(Letter)
      OBVIOUS
    <3>2. PICK z : z = <<>> /\ z \in Seq(T) /\ Append(z, e) = <<e>>
      <4>1. <<>> \in Seq(T)
        BY EmptySeq
      <4>2. Append(<<>>, e) = <<e>>
        OBVIOUS
      <4> QED
        BY <4>1, <4>2
    <3>3. FlattenSeq(Append(z, e)) = FlattenSeq(z) \o e
      BY <2>1, <3>1, <3>2, FlattenAppend
    <3>4. <<>> \o e = <<>>
      BY <2>1
    <3> QED
      BY <3>2, <3>3, <3>4, FlattenEmpty
  <2>5. AllInName(<<e>>)
    BY <2>3 DEF AllInName
  <2> QED
    BY <1>4, <2>2, <2>4, <2>5
<1>6. ASSUME NEW d \in Nat, d \in S PROVE d + 1 \in S
  <2> SUFFICES ASSUME d + 1 <= N
               PROVE  AllInName(u[d + 1]) /\ FlattenSeq(u[d + 1]) = x[d + 1]
    OBVIOUS
  <2>1. /\ d + 1 \in 1 .. N /\ (d + 1) - 1 = d /\ d \in 0 .. N
        /\ AllInName(u[d]) /\ FlattenSeq(u[d]) = x[d]
    BY <1>6
  <2>2. u[d + 1] = WithLetter(u[d], w[d + 1]) /\ IsParts(u[d])
    BY <1>1, <1>2, <2>1 DEF PartsTo
  <2>3. x[d + 1] = Append(x[d], w[d + 1]) /\ w[d + 1] \in Letter
    BY <1>4, <2>1
  <2> QED
    BY <2>1, <2>2, <2>3, WithLetterKeeps
<1> HIDE DEF S
<1>7. N \in S
  BY <1>5, <1>6, Induct
<1>8. AllInName(u[N]) /\ FlattenSeq(u[N]) = w
  BY <1>4, <1>7 DEF S
<1>9. ASSUME Len(Coded(w)) <= NameBits PROVE Parts(w) = <<w>>
  <2> DEFINE R == {d \in Nat : d <= N => Len(Coded(x[N - d])) <= NameBits}
  <2>1. 0 \in R
    BY <1>4, <1>9, N - 0 = N
  <2>2. ASSUME NEW d \in Nat, d \in R PROVE d + 1 \in R
    <3> SUFFICES ASSUME d + 1 <= N PROVE Len(Coded(x[N - (d + 1)])) <= NameBits
      OBVIOUS
    <3>1. PICK j \in 1 .. N : j = N - d /\ j - 1 = N - (d + 1)
      OBVIOUS
    <3>2. Len(Coded(x[j])) <= NameBits
      BY <2>2, <3>1
    <3>3. x[j] = Append(x[j - 1], w[j]) /\ w[j] \in Letter /\ x[j - 1] \in Seq(Letter)
      BY <1>4
    <3>4. Len(Coded(x[j - 1])) <= NameBits
      BY <3>2, <3>3, RoomFits
    <3> QED
      BY <3>1, <3>4
  <2> HIDE DEF R
  <2>3. \A d \in Nat : d \in R
    BY <2>1, <2>2, Induct
  <2>4. ASSUME NEW j \in 0 .. N PROVE Len(Coded(x[j])) <= NameBits
    <3>1. N - j \in Nat /\ N - j <= N /\ N - (N - j) = j
      OBVIOUS
    <3> QED
      BY <2>3, <3>1 DEF R
  <2> DEFINE Q == {d \in Nat : d <= N => u[d] = <<x[d]>>}
  <2>5. 0 \in Q
    BY <1>2, <1>4 DEF PartsTo
  <2>6. ASSUME NEW d \in Nat, d \in Q PROVE d + 1 \in Q
    <3> SUFFICES ASSUME d + 1 <= N PROVE u[d + 1] = <<x[d + 1]>>
      OBVIOUS
    <3>1. d + 1 \in 1 .. N /\ d + 1 \in 0 .. N /\ (d + 1) - 1 = d /\ d \in 0 .. N /\ u[d] = <<x[d]>>
      BY <2>6
    <3>2. u[d + 1] = WithLetter(u[d], w[d + 1])
      BY <1>1, <1>2, <3>1 DEF PartsTo
    <3>3. x[d + 1] = Append(x[d], w[d + 1]) /\ w[d + 1] \in Letter /\ x[d] \in Seq(Letter)
      BY <1>4, <3>1
    <3>4. Fits(x[d], w[d + 1])
      BY <2>4, <3>1, <3>3, RoomFits
    <3>5. PICK y, z : y = x[d] /\ z = Append(y, w[d + 1])
      OBVIOUS
    <3>6. Last(<<y>>) = y /\ Append(Front(<<y>>), z) = <<z>>
      <4>1. Last(<<y>>) = y
        BY DEF Last
      <4>2. Len(<<y>>) - 1 = 0
        OBVIOUS
      <4>3. SubSeq(<<y>>, 1, 0) = <<>>
        OBVIOUS
      <4>4. Front(<<y>>) = <<>>
        BY <4>2, <4>3 DEF Front
      <4>5. Append(<<>>, z) = <<z>>
        OBVIOUS
      <4> QED
        BY <4>1, <4>4, <4>5
    <3> QED
      BY <3>1, <3>2, <3>3, <3>4, <3>5, <3>6 DEF WithLetter
  <2> HIDE DEF Q
  <2>7. N \in Q
    BY <2>5, <2>6, Induct
  <2> QED
    BY <1>2, <1>4, <2>7 DEF Q
<1> QED
  BY <1>2, <1>8, <1>9

-----------------------------------------------------------------------------
(* The cells of an entry, and what cf2html.c finds in them.                *)

LEMMA SignedMod ==
  ASSUME NEW v \in Int
  PROVE  Signed(v) \in Int /\ Signed(v) % 32 = v % 32
<1>1. PICK L \in Nat \ {0} : 2 ^ (CellBits - 1) = 32 * L /\ 2 ^ CellBits = 64 * L
  BY TagSize
<1>2. PICK N \in Nat \ {0} : N = 64 * L
  OBVIOUS
<1>3. PICK q \in Int : v = N * q + (v % N) /\ v % N \in 0 .. N - 1
  BY DivMod
<1>4. PICK c : c = Signed(v)
  OBVIOUS
<1>5. c = v % N \/ c = (v % N) - N
  BY <1>1, <1>2, <1>4 DEF Signed
<1>6. PICK k \in Int : c = v - N * k
  <2>1. N * (q + 1) = N * q + N
    BY <1>2
  <2>2. c = v - N * q \/ c = v - N * (q + 1)
    <3>1. PICK m, r \in Int : m = N * q /\ r = v % N
      BY <1>3
    <3>2. v = m + r /\ (c = r \/ c = r - N) /\ N * (q + 1) = m + N
      BY <1>3, <1>5, <2>1, <3>1
    <3>3. c = v - m \/ c = v - (m + N)
      BY <3>1, <3>2
    <3> QED
      BY <3>1, <3>2, <3>3
  <2> QED
    BY <1>3, <2>2, q + 1 \in Int
<1>7. PICK p \in Int : p = L * k
  OBVIOUS
<1>8. N * k = 64 * p
  BY <1>2, <1>7
<1>9. c = v - 32 * (2 * p)
  BY <1>6, <1>8
<1> QED
  BY <1>4, <1>9

LEMMA TagBits ==
  ASSUME NEW tag \in 0 .. 15, NEW hex \in {0, 1}, NEW n \in Int
  PROVE  Tagged(tag, hex, n).color = tag /\ Tagged(tag, hex, n).cell % 32 = 16 * hex + tag
<1>1. PICK v \in Int : v = 32 * n + 16 * hex + tag
  OBVIOUS
<1>2. v % 32 = 16 * hex + tag
  BY <1>1
<1>3. Signed(v) % 32 = v % 32
  BY SignedMod
<1> QED
  BY <1>1, <1>2, <1>3 DEF Tagged

LEMMA TagsAre ==
  DOMAIN Tags = {"execute", "executelong", "define", "compileword", "compilelong",
                 "compileshort", "compilemacro", "executeshort", "text", "textcapitalized",
                 "textallcaps", "variable", "compiler_feedback", "display_macro",
                 "commented_number"}
  BY DEF Tags

(* The class of the element of a number. *)
NumberClass(e) == IF e.hex = 1 THEN HexFamily[Family(e)] ELSE Family(e)

LEMMA NumberListed ==
  ASSUME NEW e, e.f \in LongNumber \cup ShortNumber, e.hex \in {0, 1}, NEW n \in Int,
         NEW c, c = Tagged(Tags[e.f], e.hex, n)
  PROVE  /\ e.f \in LongNumber => c.color \in {2, 5}
         /\ e.f \in ShortNumber => c.color \in {6, 8, 15}
         /\ e.f = "commented_number" \/ HtmlClass(c) = NumberClass(e)
<1>1. PICK tag : tag = Tags[e.f]
  OBVIOUS
<1>2. /\ e.f = "executelong" => tag = 2
      /\ e.f = "compilelong" => tag = 5
      /\ e.f = "compileshort" => tag = 6
      /\ e.f = "executeshort" => tag = 8
      /\ e.f = "commented_number" => tag = 15
  BY <1>1 DEF Tags
<1>3. e.f \in {"executelong", "compilelong", "compileshort", "executeshort", "commented_number"}
  BY DEF LongNumber, ShortNumber
<1>4. tag \in 0 .. 15
  BY <1>2, <1>3
<1>5. c.color = tag /\ c.cell % 32 = 16 * e.hex + tag
  BY <1>1, <1>4, TagBits
<1>6. /\ Classes[2 + 1] = "execute" /\ Classes[18 + 1] = "executehex"
      /\ Classes[5 + 1] = "compile" /\ Classes[21 + 1] = "compilehex"
      /\ Classes[6 + 1] = "compile" /\ Classes[22 + 1] = "compilehex"
      /\ Classes[8 + 1] = "execute" /\ Classes[24 + 1] = "executehex"
  BY DEF Classes
<1>7. HexFamily["execute"] = "executehex" /\ HexFamily["compile"] = "compilehex"
  BY DEF HexFamily
<1>8. ASSUME e.f \in {"executelong", "executeshort"}
      PROVE  Family(e) = "execute" /\ HtmlClass(c) = NumberClass(e)
  <2>1. Family(e) = "execute"
    BY <1>8 DEF Family
  <2>2. tag \in {2, 8}
    BY <1>2, <1>8
  <2>3. HtmlClass(c) = IF e.hex = 1 THEN "executehex" ELSE "execute"
    <3>1. CASE e.hex = 1
      <4>1. c.cell % 32 \in {18, 24}
        BY <1>5, <2>2, <3>1
      <4> QED
        BY <1>6, <3>1, <4>1 DEF HtmlClass
    <3>2. CASE e.hex = 0
      <4>1. c.cell % 32 \in {2, 8}
        BY <1>5, <2>2, <3>2
      <4> QED
        BY <1>6, <3>2, <4>1 DEF HtmlClass
    <3> QED
      BY <3>1, <3>2
  <2> QED
    BY <1>7, <2>1, <2>3 DEF NumberClass
<1>9. ASSUME e.f \in {"compilelong", "compileshort"}
      PROVE  Family(e) = "compile" /\ HtmlClass(c) = NumberClass(e)
  <2>1. Family(e) = "compile"
    BY <1>9 DEF Family
  <2>2. tag \in {5, 6}
    BY <1>2, <1>9
  <2>3. HtmlClass(c) = IF e.hex = 1 THEN "compilehex" ELSE "compile"
    <3>1. CASE e.hex = 1
      <4>1. c.cell % 32 \in {21, 22}
        BY <1>5, <2>2, <3>1
      <4> QED
        BY <1>6, <3>1, <4>1 DEF HtmlClass
    <3>2. CASE e.hex = 0
      <4>1. c.cell % 32 \in {5, 6}
        BY <1>5, <2>2, <3>2
      <4> QED
        BY <1>6, <3>2, <4>1 DEF HtmlClass
    <3> QED
      BY <3>1, <3>2
  <2> QED
    BY <1>7, <2>1, <2>3 DEF NumberClass
<1>10. e.f \in LongNumber => c.color \in {2, 5}
  BY <1>2, <1>5 DEF LongNumber
<1>11. e.f \in ShortNumber => c.color \in {6, 8, 15}
  BY <1>2, <1>5 DEF ShortNumber
<1> QED
  BY <1>3, <1>8, <1>9, <1>10, <1>11

LEMMA WordListed ==
  ASSUME NEW e, e.f \in DOMAIN Tags \ (LongNumber \cup ShortNumber)
  PROVE  /\ Tags[e.f] \in {1, 3, 4, 7, 9, 10, 11, 12, 13, 14}
         /\ Classes[Tags[e.f] + 1] = Family(e)
         /\ e.f = "variable" <=> Tags[e.f] = 12
<1>1. e.f \in {"execute", "define", "compileword", "compilemacro", "text", "textcapitalized",
               "textallcaps", "variable", "compiler_feedback", "display_macro"}
  BY TagsAre DEF LongNumber, ShortNumber
<1>2. PICK tag : tag = Tags[e.f]
  OBVIOUS
<1>3. /\ e.f = "execute" => tag = 1
      /\ e.f = "define" => tag = 3
      /\ e.f = "compileword" => tag = 4
      /\ e.f = "compilemacro" => tag = 7
      /\ e.f = "text" => tag = 9
      /\ e.f = "textcapitalized" => tag = 10
      /\ e.f = "textallcaps" => tag = 11
      /\ e.f = "variable" => tag = 12
      /\ e.f = "compiler_feedback" => tag = 13
      /\ e.f = "display_macro" => tag = 14
  BY <1>2 DEF Tags
<1>4. /\ Classes[1 + 1] = "execute" /\ Classes[3 + 1] = "define" /\ Classes[4 + 1] = "compile"
      /\ Classes[7 + 1] = "compilemacro" /\ Classes[9 + 1] = "text"
      /\ Classes[10 + 1] = "textcapitalized" /\ Classes[11 + 1] = "textallcaps"
      /\ Classes[12 + 1] = "variable" /\ Classes[13 + 1] = "compiler_feedback"
      /\ Classes[14 + 1] = "display_macro"
  BY DEF Classes
<1>5. Family(e) = IF e.f = "compileword" THEN "compile" ELSE e.f
  BY <1>1 DEF Family
<1> QED
  BY <1>1, <1>2, <1>3, <1>4, <1>5

-----------------------------------------------------------------------------
(* The rounds of cf2html.c over the cells of a block.                      *)

HtmlFirst == [at |-> 1, page |-> <<>>]
HtmlNext(cells, s) == IF s.at > BlockCells THEN s ELSE HtmlRound(cells, s)

HtmlRounds(f, cells, N) ==
  f[0] = HtmlFirst /\ \A i \in 1 .. N : f[i] = HtmlNext(cells, f[i - 1])

LEMMA HtmlRoundsAre ==
  ASSUME NEW cells
  PROVE  \E f : Html(cells) = f[BlockCells].page /\ HtmlRounds(f, cells, BlockCells)
<1> DEFINE rounds[k \in 0 .. BlockCells] ==
             IF k = 0 THEN HtmlFirst ELSE HtmlNext(cells, rounds[k - 1])
<1>1. Html(cells) = rounds[BlockCells].page
  BY DEF Html, HtmlFirst, HtmlNext
<1>2. PICK N \in Nat : N = BlockCells
  BY WordsAssumption DEF WordsAssumption
<1> DEFINE S == {d \in Nat : d <= N => \E f : f = [i \in 0 .. N |-> f[i]] /\ HtmlRounds(f, cells, d)}
<1>3. 0 \in S
  <2>1. PICK f : f = [i \in 0 .. N |-> HtmlFirst]
    OBVIOUS
  <2>2. f = [i \in 0 .. N |-> f[i]] /\ f[0] = HtmlFirst
    BY <2>1
  <2>3. HtmlRounds(f, cells, 0)
    BY <2>2 DEF HtmlRounds
  <2> QED
    BY <2>2, <2>3
<1>4. ASSUME NEW d \in Nat, d \in S PROVE d + 1 \in S
  <2> SUFFICES ASSUME d + 1 <= N
               PROVE  \E g : g = [i \in 0 .. N |-> g[i]] /\ HtmlRounds(g, cells, d + 1)
    OBVIOUS
  <2>1. PICK f : f = [i \in 0 .. N |-> f[i]] /\ HtmlRounds(f, cells, d)
    BY <1>4
  <2>2. PICK e : e = d + 1
    OBVIOUS
  <2>3. PICK v : v = HtmlNext(cells, f[d])
    OBVIOUS
  <2>4. PICK g : g = [f EXCEPT ![e] = v]
    OBVIOUS
  <2>5. /\ g = [i \in 0 .. N |-> g[i]] /\ g[e] = v
        /\ \A i \in 0 .. N : i # e => g[i] = f[i]
    BY <2>1, <2>2, <2>4
  <2>6. ASSUME NEW i \in 1 .. e PROVE g[i] = HtmlNext(cells, g[i - 1])
    <3>1. i - 1 \in 0 .. N /\ i - 1 # e /\ g[i - 1] = f[i - 1]
      BY <2>2, <2>5
    <3>2. CASE i = e
      <4>1. i - 1 = d
        BY <2>2, <3>2
      <4> QED
        BY <2>3, <2>5, <3>1, <3>2, <4>1
    <3>3. CASE i # e
      <4>1. i \in 1 .. d /\ g[i] = f[i]
        BY <2>2, <2>5, <3>3
      <4> QED
        BY <2>1, <3>1, <4>1 DEF HtmlRounds
    <3> QED
      BY <3>2, <3>3
  <2>7. g[0] = HtmlFirst
    BY <2>1, <2>2, <2>5 DEF HtmlRounds
  <2>8. HtmlRounds(g, cells, d + 1)
    BY <2>2, <2>6, <2>7 DEF HtmlRounds
  <2> QED
    BY <2>5, <2>8
<1> HIDE DEF S
<1>5. PICK f : f = [i \in 0 .. N |-> f[i]] /\ HtmlRounds(f, cells, N)
  <2>1. N \in S
    BY <1>3, <1>4, Induct
  <2> QED
    BY <2>1 DEF S
<1>6. rounds = [k \in 0 .. BlockCells |-> IF k = 0 THEN HtmlFirst ELSE HtmlNext(cells, rounds[k - 1])]
  <2> DEFINE is(g) == g = [k \in 0 .. BlockCells |->
                             IF k = 0 THEN HtmlFirst ELSE HtmlNext(cells, g[k - 1])]
  <2>1. ASSUME NEW i \in 0 .. N
        PROVE  f[i] = IF i = 0 THEN HtmlFirst ELSE HtmlNext(cells, f[i - 1])
    <3>1. i = 0 \/ i \in 1 .. N
      OBVIOUS
    <3> QED
      BY <1>5, <3>1 DEF HtmlRounds
  <2>2. is(f)
    BY <1>2, <1>5, <2>1
  <2>3. rounds = CHOOSE g : is(g)
    OBVIOUS
  <2> QED
    BY <2>2, <2>3
<1>7. PICK g : g = rounds
  OBVIOUS
<1> HIDE DEF rounds
<1>8. ASSUME NEW i \in 0 .. N
      PROVE  g[i] = IF i = 0 THEN HtmlFirst ELSE HtmlNext(cells, g[i - 1])
  BY <1>2, <1>6, <1>7
<1>9. HtmlRounds(g, cells, N)
  <2>1. \A i \in 1 .. N : i \in 0 .. N /\ i # 0
    OBVIOUS
  <2>2. 0 \in 0 .. N
    OBVIOUS
  <2> QED
    BY <1>8, <2>1, <2>2 DEF HtmlRounds
<1> QED
  BY <1>1, <1>2, <1>7, <1>9

(* What a round makes of a cell, by its color. *)
RoundIs(cells, s, c) ==
  /\ c.color = 0 =>
       HtmlRound(cells, s) = [at |-> s.at + 1, page |-> GoesOn(s.page, Unpack(NameOf(c)))]
  /\ c.color \in {2, 5} =>
       \E x : HtmlRound(cells, s)
              = [at |-> s.at + 2, page |-> s.page \o <<Element(HtmlClass(c), x)>>]
  /\ c.color \in {6, 8, 15} =>
       \E x : HtmlRound(cells, s)
              = [at |-> s.at + 1, page |-> s.page \o <<Element(HtmlClass(c), x)>>]
  /\ c.color = 12 /\ s.at # BlockCells =>
       \E x : HtmlRound(cells, s)
              = [at |-> s.at + 2,
                 page |-> s.page \o (<<Element("variable", Unpack(NameOf(c)))>>
                                     \o <<Element("compile", x)>>)]
  /\ c.color \in {1, 3, 4, 7, 9, 10, 11, 13, 14} =>
       HtmlRound(cells, s)
       = [at |-> s.at + 1,
          page |-> s.page \o <<Element(Classes[c.color + 1], Unpack(NameOf(c)))>>]

LEMMA HtmlRoundIs ==
  ASSUME NEW cells, NEW s, NEW c, c = cells[s.at]
  PROVE  RoundIs(cells, s, c)
<1> DEFINE name == Unpack(NameOf(c))
           ends == s.at = BlockCells
           data == IF ends THEN <<>> ELSE HtmlNumber(NumberOf(cells[s.at + 1]))
           puts(n, elements) == [at |-> s.at + n, page |-> s.page \o elements]
           e0 == [at |-> s.at + 1, page |-> GoesOn(s.page, name)]
           e1 == puts(2, <<Element(HtmlClass(c), data)>>)
           e2 == puts(1, <<Element(HtmlClass(c), HtmlNumber(c.cell \div 32))>>)
           e3 == puts(2, <<Element("variable", name)>>
                         \o (IF ends THEN <<>> ELSE <<Element("compile", data)>>))
           e4 == puts(1, <<Element(Classes[c.color + 1], name)>>)
<1>1. HtmlRound(cells, s)
      = CASE c.color = 0            -> e0
          [] c.color \in {2, 5}     -> e1
          [] c.color \in {6, 8, 15} -> e2
          [] c.color = 12           -> e3
          [] OTHER                  -> e4
  BY DEF HtmlRound
<1>2. PICK col : col = c.color
  OBVIOUS
<1>3. /\ col \in {2, 5} => \E x : e1 = [at |-> s.at + 2, page |-> s.page \o <<Element(HtmlClass(c), x)>>]
      /\ col \in {6, 8, 15} => \E x : e2 = [at |-> s.at + 1, page |-> s.page \o <<Element(HtmlClass(c), x)>>]
      /\ ~ends => \E x : e3 = [at |-> s.at + 2,
                              page |-> s.page \o (<<Element("variable", name)>> \o <<Element("compile", x)>>)]
      /\ e0 = [at |-> s.at + 1, page |-> GoesOn(s.page, name)]
      /\ e4 = [at |-> s.at + 1, page |-> s.page \o <<Element(Classes[c.color + 1], name)>>]
  <2> HIDE DEF data, name
  <2> QED
    BY Zenon
<1> HIDE DEF e0, e1, e2, e3, e4
<1>4. /\ col = 0 => HtmlRound(cells, s) = e0
      /\ col \in {2, 5} => HtmlRound(cells, s) = e1
      /\ col \in {6, 8, 15} => HtmlRound(cells, s) = e2
      /\ col = 12 => HtmlRound(cells, s) = e3
      /\ col \in {1, 3, 4, 7, 9, 10, 11, 13, 14} => HtmlRound(cells, s) = e4
  BY <1>1, <1>2
<1> QED
  BY <1>2, <1>3, <1>4 DEF RoundIs

(* The rounds have come to the cell k and to a page. *)
IsState(s, k, page) == s.at = k /\ s.page = page

(* The round after the first r. *)
Goes(cells, f, r) == f[r + 1] = HtmlRound(cells, f[r])

LEMMA HtmlStep ==
  ASSUME NEW cells, NEW f, NEW N, HtmlRounds(f, cells, N), N = BlockCells, N \in Nat,
         NEW r, r \in Nat, r + 1 <= N, NEW k, k \in Nat, k <= N, NEW page, IsState(f[r], k, page)
  PROVE  Goes(cells, f, r)
<1>1. r + 1 \in 1 .. N /\ (r + 1) - 1 = r /\ ~(k > N)
  OBVIOUS
<1>2. f[r + 1] = HtmlNext(cells, f[r])
  BY <1>1 DEF HtmlRounds
<1> QED
  BY <1>1, <1>2 DEF HtmlNext, IsState, Goes

LEMMA HtmlOfExtension ==
  ASSUME NEW cells, NEW s, NEW k, NEW page, IsState(s, k, page), NEW name,
         cells[k] = NameCell(0, name)
  PROVE  IsState(HtmlRound(cells, s), k + 1, GoesOn(page, Unpack(name)))
<1>1. PICK c : c = cells[s.at]
  OBVIOUS
<1>0. RoundIs(cells, s, c)
  BY <1>1, HtmlRoundIs
<1>2. c.color = 0 /\ NameOf(c) = name
  BY <1>1 DEF IsState, NameCell, NameOf
<1>3. HtmlRound(cells, s) = [at |-> s.at + 1, page |-> GoesOn(s.page, Unpack(NameOf(c)))]
  BY <1>0, <1>2 DEF RoundIs
<1> QED
  BY <1>2, <1>3 DEF IsState

LEMMA HtmlOfWord ==
  ASSUME NEW cells, NEW s, NEW k, NEW page, IsState(s, k, page), NEW name,
         NEW tag \in {1, 3, 4, 7, 9, 10, 11, 13, 14}, cells[k] = NameCell(tag, name)
  PROVE  IsState(HtmlRound(cells, s), k + 1,
                 page \o <<Element(Classes[tag + 1], Unpack(name))>>)
<1>1. PICK c : c = cells[s.at]
  OBVIOUS
<1>0. RoundIs(cells, s, c)
  BY <1>1, HtmlRoundIs
<1>2. c.color = tag /\ NameOf(c) = name
  BY <1>1 DEF IsState, NameCell, NameOf
<1>3. HtmlRound(cells, s)
      = [at |-> s.at + 1,
         page |-> s.page \o <<Element(Classes[c.color + 1], Unpack(NameOf(c)))>>]
  BY <1>0, <1>2 DEF RoundIs
<1> QED
  BY <1>2, <1>3 DEF IsState

LEMMA HtmlOfNumber ==
  ASSUME NEW cells, NEW s, NEW k, NEW page, IsState(s, k, page), NEW c, cells[k] = c,
         NEW n, (c.color \in {2, 5} /\ n = 2) \/ (c.color \in {6, 8, 15} /\ n = 1)
  PROVE  \E x : IsState(HtmlRound(cells, s), k + n, page \o <<Element(HtmlClass(c), x)>>)
<1>1. c = cells[s.at]
  BY DEF IsState
<1>0. RoundIs(cells, s, c)
  BY <1>1, HtmlRoundIs
<1>2. \E x : HtmlRound(cells, s)
             = [at |-> s.at + n, page |-> s.page \o <<Element(HtmlClass(c), x)>>]
  BY <1>0 DEF RoundIs
<1>3. PICK x : HtmlRound(cells, s)
               = [at |-> s.at + n, page |-> s.page \o <<Element(HtmlClass(c), x)>>]
  BY <1>2
<1>4. IsState(HtmlRound(cells, s), k + n, page \o <<Element(HtmlClass(c), x)>>)
  BY <1>3 DEF IsState
<1> QED
  BY <1>4

LEMMA HtmlOfVariable ==
  ASSUME NEW cells, NEW s, NEW k, NEW page, IsState(s, k, page), NEW name,
         cells[k] = NameCell(12, name), k # BlockCells
  PROVE  \E x : IsState(HtmlRound(cells, s), k + 2,
                        page \o (<<Element("variable", Unpack(name))>> \o <<Element("compile", x)>>))
<1>1. PICK c : c = cells[s.at]
  OBVIOUS
<1>0. RoundIs(cells, s, c)
  BY <1>1, HtmlRoundIs
<1>2. c.color = 12 /\ NameOf(c) = name /\ s.at # BlockCells
  BY <1>1 DEF IsState, NameCell, NameOf
<1>3. \E x : HtmlRound(cells, s)
             = [at |-> s.at + 2,
                page |-> s.page \o (<<Element("variable", Unpack(NameOf(c)))>>
                                    \o <<Element("compile", x)>>)]
  BY <1>0, <1>2 DEF RoundIs
<1>4. PICK x : HtmlRound(cells, s)
               = [at |-> s.at + 2,
                  page |-> s.page \o (<<Element("variable", Unpack(NameOf(c)))>>
                                      \o <<Element("compile", x)>>)]
  BY <1>3
<1>5. IsState(HtmlRound(cells, s), k + 2,
              page \o (<<Element("variable", Unpack(name))>> \o <<Element("compile", x)>>))
  BY <1>2, <1>4 DEF IsState
<1> QED
  BY <1>5

(* An element gets longer. *)
Grows(page, class, text, name) ==
  GoesOn(page \o <<Element(class, text)>>, name) = page \o <<Element(class, text \o name)>>

LEMMA GoesOnIs ==
  ASSUME NEW page, NEW class, NEW text, NEW name, Tuple(page)
  PROVE  Grows(page, class, text, name)
<1>1. PICK a, b : a = Element(class, text) /\ b = Element(class, text \o name)
  OBVIOUS
<1>2. PICK V : page \in Seq(V)
  BY DEF Tuple
<1>3. PICK W : W = V \cup {a, b}
  OBVIOUS
<1>4. page \in Seq(W) /\ a \in W /\ b \in W
  BY <1>2, <1>3, LargerSeq
<1>5. PICK n \in Nat : n = Len(page)
  BY <1>4
<1>6. PICK p : p = page \o <<a>>
  OBVIOUS
<1>7. p \in Seq(W) /\ Len(p) = n + 1 /\ p # <<>> /\ p[n + 1] = a
  BY <1>4, <1>5, <1>6
<1>8. Last(p) = a
  BY <1>7 DEF Last
<1>9. Front(p) = page
  <2>1. Front(p) = SubSeq(p, 1, n)
    BY <1>5, <1>7 DEF Front
  <2>2. SubSeq(p, 1, n) = page
    BY <1>4, <1>5, <1>6
  <2> QED
    BY <2>1, <2>2
<1>10. GoesOn(p, name) = Append(page, Element(a.class, a.text \o name))
  BY <1>7, <1>8, <1>9 DEF GoesOn
<1>11. Element(a.class, a.text \o name) = b
  BY <1>1 DEF Element
<1>12. Append(page, b) = page \o <<b>>
  BY <1>4
<1> QED
  BY <1>1, <1>6, <1>10, <1>11, <1>12 DEF Grows

(* The cells of a word put one element on the page, with the whole word.   *)
WordCells(tag, parts) ==
  [i \in 1 .. Len(parts) |-> NameCell(IF i = 1 THEN tag ELSE 0, Pack(parts[i]))]

WordAt(cells, k, tag, parts, q) ==
  \A j \in 1 .. q : cells[k + j - 1] = WordCells(tag, parts)[j]

LEMMA WordRounds ==
  ASSUME NEW cells, NEW f, NEW N, NEW r, NEW k, NEW page, NEW parts, NEW q, NEW tag,
         HtmlRounds(f, cells, N), N = BlockCells, N \in Nat,
         IsState(f[r], k, page), Tuple(page), r \in Nat, k \in Nat \ {0},
         WordAt(cells, k, tag, parts, q), IsParts(parts), AllInName(parts), q = Len(parts),
         q \in Nat, k + q - 1 <= N, r + q <= N, tag \in {1, 3, 4, 7, 9, 10, 11, 13, 14}
  PROVE  IsState(f[r + q], k + q,
                 page \o <<Element(Classes[tag + 1], FlattenSeq(parts))>>)
<1>1. parts \in Seq(Seq(Letter)) /\ q >= 1
  BY LastAndFront DEF IsParts
<1>2. PICK t \in [0 .. q -> Seq(Letter)] : FlattensTo(t, parts) /\ FlattenSeq(parts) = t[q]
  BY <1>1, FlattenIs
<1>3. ASSUME NEW j \in 1 .. q
      PROVE  /\ t[j] = t[j - 1] \o parts[j] /\ Unpack(Pack(parts[j])) = parts[j]
             /\ parts[j] \in Seq(Letter) /\ t[j - 1] \in Seq(Letter)
  <2>1. j \in 1 .. Len(parts) /\ parts[j] \in Seq(Letter) /\ j - 1 \in 0 .. q
    BY <1>1
  <2>2. t[j] = t[j - 1] \o parts[j]
    BY <1>2, <2>1 DEF FlattensTo
  <2>3. InName(parts[j])
    BY <2>1 DEF AllInName
  <2> QED
    BY <2>1, <2>2, <2>3, UnpackInName
<1>4. ASSUME NEW j \in 1 .. q
      PROVE  cells[k + j - 1] = NameCell(IF j = 1 THEN tag ELSE 0, Pack(parts[j]))
  BY DEF WordCells, WordAt
<1> DEFINE pageAt(j) == page \o <<Element(Classes[tag + 1], t[j])>>
           comes(j) == IsState(f[r + j], k + j, pageAt(j))
           S == {d \in Nat : d + 1 <= q => comes(d + 1)}
<1>5. comes(1)
  <2>1. r + 1 <= N /\ k <= N /\ k + 1 - 1 = k /\ 1 \in 1 .. q /\ 1 - 1 = 0
    BY <1>1
  <2>2. Goes(cells, f, r)
    BY <2>1, HtmlStep
  <2>3. cells[k] = NameCell(tag, Pack(parts[1]))
    BY <1>4, <2>1
  <2>4. IsState(HtmlRound(cells, f[r]), k + 1,
                page \o <<Element(Classes[tag + 1], Unpack(Pack(parts[1])))>>)
    BY <2>3, HtmlOfWord
  <2>5. Unpack(Pack(parts[1])) = t[1]
    <3>1. t[0] = <<>> /\ t[1] = t[0] \o parts[1] /\ parts[1] \in Seq(Letter)
      BY <1>2, <1>3, <2>1 DEF FlattensTo
    <3>2. t[1] = parts[1]
      BY <3>1
    <3> QED
      BY <1>3, <2>1, <3>2
  <2> QED
    BY <2>2, <2>4, <2>5 DEF Goes
<1>6. ASSUME NEW e \in Nat \ {0}, e + 1 <= q, comes(e) PROVE comes(e + 1)
  <2>1. /\ r + e \in Nat /\ (r + e) + 1 = r + (e + 1) /\ (r + e) + 1 <= N
        /\ k + e \in Nat /\ k + e <= N /\ e + 1 \in 1 .. q /\ (e + 1) - 1 = e
        /\ k + (e + 1) - 1 = k + e /\ e + 1 # 1 /\ (k + e) + 1 = k + (e + 1)
    <3> HIDE DEF comes
    <3>1. e \in Nat /\ e # 0 /\ e + 1 <= q
      BY <1>6
    <3> QED
      BY <3>1
  <2>2. PICK p : p = pageAt(e)
    OBVIOUS
  <2>3. IsState(f[r + e], k + e, p)
    BY <1>6, <2>2
  <2>4. Goes(cells, f, r + e)
    BY <2>1, <2>3, HtmlStep
  <2>5. cells[k + e] = NameCell(0, Pack(parts[e + 1]))
    BY <1>4, <2>1
  <2>6. IsState(HtmlRound(cells, f[r + e]), (k + e) + 1, GoesOn(p, Unpack(Pack(parts[e + 1]))))
    BY <2>3, <2>5, HtmlOfExtension
  <2>7. t[e + 1] = t[e] \o parts[e + 1] /\ Unpack(Pack(parts[e + 1])) = parts[e + 1]
    BY <1>3, <2>1
  <2>8. PICK class : class = Classes[tag + 1]
    OBVIOUS
  <2>9. GoesOn(page \o <<Element(class, t[e])>>, parts[e + 1])
        = page \o <<Element(class, t[e] \o parts[e + 1])>>
    <3>1. Grows(page, class, t[e], parts[e + 1])
      BY GoesOnIs
    <3> QED
      BY <3>1 DEF Grows
  <2>10. GoesOn(p, parts[e + 1]) = pageAt(e + 1)
    <3>1. p = page \o <<Element(class, t[e])>>
      BY <2>2, <2>8
    <3>2. pageAt(e + 1) = page \o <<Element(class, t[e] \o parts[e + 1])>>
      BY <2>7, <2>8
    <3> QED
      BY <2>9, <3>1, <3>2, Zenon
  <2>11. IsState(f[r + (e + 1)], k + (e + 1), GoesOn(p, parts[e + 1]))
    BY <2>1, <2>4, <2>6, <2>7 DEF Goes
  <2> QED
    BY <2>10, <2>11
<1> HIDE DEF comes
<1>7. 0 \in S
  BY <1>5
<1>8. ASSUME NEW d \in Nat, d \in S PROVE d + 1 \in S
  <2> SUFFICES ASSUME (d + 1) + 1 <= q PROVE comes((d + 1) + 1)
    OBVIOUS
  <2>1. d + 1 \in Nat \ {0} /\ comes(d + 1)
    BY <1>8
  <2> QED
    BY <1>6, <2>1
<1> HIDE DEF S
<1>9. q - 1 \in S
  <2>1. q - 1 \in Nat
    BY <1>1
  <2> QED
    BY <1>7, <1>8, <2>1, Induct
<1>10. comes(q)
  <2>1. (q - 1) + 1 = q
    OBVIOUS
  <2> QED
    BY <1>9, <2>1 DEF S
<1> QED
  BY <1>2, <1>10 DEF comes

-----------------------------------------------------------------------------
(* Where the cells of the entries and of the blocks are.                   *)

LEMMA TuplesOf ==
  ASSUME NEW n \in Nat, NEW ss, ss = [i \in 1 .. n |-> ss[i]], \A i \in 1 .. n : Tuple(ss[i])
  PROVE  Len(ss) = n /\ \E V : ss \in Seq(Seq(V))
<1> DEFINE within(i) == {ss[i][j] : j \in 1 .. Len(ss[i])}
<1>1. PICK V : V = UNION {within(i) : i \in 1 .. n}
  OBVIOUS
<1>2. ASSUME NEW i \in 1 .. n PROVE ss[i] \in Seq(V)
  <2>1. PICK s : s = ss[i]
    OBVIOUS
  <2>2. PICK W : s \in Seq(W)
    BY <2>1 DEF Tuple
  <2>3. ASSUME NEW j \in 1 .. Len(s) PROVE s[j] \in V
    <3>1. s[j] \in within(i)
      BY <2>1
    <3> QED
      BY <1>1, <3>1
  <2>4. Len(s) \in Nat /\ s = [j \in 1 .. Len(s) |-> s[j]]
    BY <2>2
  <2>5. s \in Seq(V)
    BY <2>3, <2>4
  <2> QED
    BY <2>1, <2>5
<1>3. PICK T : T = Seq(V)
  OBVIOUS
<1>4. ss \in Seq(T) /\ Len(ss) = n
  BY <1>2, <1>3
<1> QED
  BY <1>3, <1>4

(* s is in whole between before and after. *)
StandsIn(joined, before, s, after) ==
  /\ Len(before) \in Nat /\ Len(s) \in Nat /\ Len(joined) \in Nat
  /\ Len(after) = Len(before) + Len(s) /\ Len(after) <= Len(joined)
  /\ \A j \in 1 .. Len(s) : joined[Len(before) + j] = s[j]

LEMMA PlacedLast ==
  ASSUME NEW V, NEW a \in Seq(V), NEW b \in Seq(V), NEW c, c = a \o b
  PROVE  StandsIn(c, a, b, c)
<1>1. /\ Len(a) \in Nat /\ Len(b) \in Nat /\ Len(c) = Len(a) + Len(b)
      /\ \A j \in 1 .. Len(b) : c[Len(a) + j] = b[j]
  OBVIOUS
<1> QED
  BY <1>1 DEF StandsIn

LEMMA PlacedBefore ==
  ASSUME NEW V, NEW a \in Seq(V), NEW b \in Seq(V), NEW c, c = a \o b,
         NEW before, NEW s, NEW after, StandsIn(a, before, s, after)
  PROVE  StandsIn(c, before, s, after)
<1>1. /\ Len(a) \in Nat /\ Len(b) \in Nat /\ Len(c) = Len(a) + Len(b)
      /\ \A j \in 1 .. Len(a) : c[j] = a[j]
  OBVIOUS
<1>2. PICK p \in Nat, q \in Nat : p = Len(before) /\ q = Len(s)
  BY DEF StandsIn
<1>3. Len(after) = p + q /\ p + q <= Len(a) /\ \A j \in 1 .. q : a[p + j] = s[j]
  BY <1>2 DEF StandsIn
<1>4. ASSUME NEW j \in 1 .. q PROVE c[p + j] = s[j]
  <2>1. p + j \in 1 .. Len(a)
    BY <1>1, <1>3
  <2> QED
    BY <1>1, <1>3, <2>1
<1>5. p + q <= Len(c) /\ Len(c) \in Nat
  BY <1>1, <1>3
<1> QED
  BY <1>2, <1>3, <1>4, <1>5 DEF StandsIn

(* The sequence ss[i] follows the first i - 1 ones. *)
LEMMA FlattenPlace ==
  ASSUME NEW V, NEW ss \in Seq(Seq(V)), NEW t \in [0 .. Len(ss) -> Seq(V)], FlattensTo(t, ss)
  PROVE  \A i \in 1 .. Len(ss) : StandsIn(t[Len(ss)], t[i - 1], ss[i], t[i])
<1>1. PICK N \in Nat : N = Len(ss)
  OBVIOUS
<1>2. ASSUME NEW i \in 1 .. N
      PROVE  t[i] = t[i - 1] \o ss[i] /\ ss[i] \in Seq(V) /\ t[i - 1] \in Seq(V)
  <2>1. i - 1 \in 0 .. N /\ i \in 1 .. Len(ss) /\ i \in 0 .. N
    BY <1>1
  <2>2. t[i] = t[i - 1] \o ss[i]
    BY <2>1 DEF FlattensTo
  <2>3. t[i - 1] \in Seq(V)
    BY <1>1, <2>1
  <2>4. ss[i] \in Seq(V)
    <3>1. PICK T : T = Seq(V)
      OBVIOUS
    <3>2. ss \in Seq(T)
      BY <3>1
    <3>3. ss[i] \in T
      BY <2>1, <3>2
    <3> QED
      BY <3>1, <3>3
  <2> QED
    BY <2>2, <2>3, <2>4
<1> DEFINE placed(M, i) == StandsIn(t[M], t[i - 1], ss[i], t[i])
<1>3. ASSUME NEW M \in Nat, M + 1 <= N, \A i \in 1 .. M : placed(M, i), NEW i \in 1 .. M + 1
      PROVE  placed(M + 1, i)
  <2>1. M + 1 \in 1 .. N /\ (M + 1) - 1 = M
    BY <1>3
  <2>2. t[M + 1] = t[M] \o ss[M + 1] /\ t[M] \in Seq(V) /\ ss[M + 1] \in Seq(V)
    BY <1>2, <2>1
  <2>3. CASE i = M + 1
    <3>1. PICK a, b, c : a = t[M] /\ b = ss[M + 1] /\ c = t[M + 1]
      OBVIOUS
    <3>2. StandsIn(c, a, b, c)
      <4>1. a \in Seq(V) /\ b \in Seq(V) /\ c = a \o b
        BY <2>2, <3>1
      <4> QED
        BY <4>1, PlacedLast
    <3>3. t[i - 1] = a /\ ss[i] = b /\ t[i] = c
      BY <2>1, <2>3, <3>1
    <3> QED
      BY <3>1, <3>2, <3>3
  <2>4. CASE i # M + 1
    <3>1. i \in 1 .. M
      BY <2>4
    <3>2. StandsIn(t[M], t[i - 1], ss[i], t[i])
      BY <1>3, <3>1
    <3>3. PICK a, b, c : a = t[M] /\ b = ss[M + 1] /\ c = t[M + 1]
      OBVIOUS
    <3>4. a \in Seq(V) /\ b \in Seq(V) /\ c = a \o b
      BY <2>2, <3>3
    <3>5. PICK p, s, q : p = t[i - 1] /\ s = ss[i] /\ q = t[i]
      OBVIOUS
    <3>6. StandsIn(a, p, s, q)
      BY <3>2, <3>3, <3>5
    <3>7. StandsIn(c, p, s, q)
      BY <3>4, <3>6, PlacedBefore
    <3> QED
      BY <3>3, <3>5, <3>7
  <2> QED
    BY <2>3, <2>4
<1> HIDE DEF placed
<1> DEFINE S == {M \in Nat : M <= N => \A i \in 1 .. M : placed(M, i)}
<1>4. 0 \in S
  OBVIOUS
<1>5. ASSUME NEW M \in Nat, M \in S PROVE M + 1 \in S
  <2> SUFFICES ASSUME M + 1 <= N PROVE \A i \in 1 .. M + 1 : placed(M + 1, i)
    OBVIOUS
  <2>1. \A i \in 1 .. M : placed(M, i)
    BY <1>5
  <2> QED
    BY <1>3, <2>1
<1> HIDE DEF S
<1>6. N \in S
  BY <1>4, <1>5, Induct
<1>7. \A i \in 1 .. N : placed(N, i)
  BY <1>6 DEF S
<1> QED
  BY <1>1, <1>7 DEF placed

-----------------------------------------------------------------------------
(* The value of a variable is the entry behind it, whatever came before.   *)

Closed(es) ==
  \A j \in 1 .. Len(es) : es[j].f = "variable" => j + 1 <= Len(es) /\ es[j + 1].f = "compileword"

LEMMA ClosedJoined ==
  ASSUME NEW E, NEW a \in Seq(E), NEW b \in Seq(E), Closed(a), Closed(b), NEW c, c = a \o b
  PROVE  Closed(c)
<1>1. PICK p \in Nat, q \in Nat : p = Len(a) /\ q = Len(b)
  OBVIOUS
<1>2. /\ Len(c) = p + q /\ \A j \in 1 .. p : c[j] = a[j]
      /\ \A j \in 1 .. q : c[p + j] = b[j]
  BY <1>1
<1>3. SUFFICES ASSUME NEW j \in 1 .. p + q, c[j].f = "variable"
               PROVE  j + 1 <= p + q /\ c[j + 1].f = "compileword"
  BY <1>2 DEF Closed
<1>4. CASE j <= p
  <2>1. j \in 1 .. p /\ a[j].f = "variable"
    BY <1>2, <1>3, <1>4
  <2>2. j + 1 <= p /\ a[j + 1].f = "compileword"
    BY <1>1, <2>1 DEF Closed
  <2>3. j + 1 \in 1 .. p
    BY <2>1, <2>2
  <2> QED
    BY <1>2, <2>2, <2>3
<1>5. CASE j > p
  <2>1. PICK d \in 1 .. q : d = j - p
    BY <1>5
  <2>2. p + d = j /\ p + (d + 1) = j + 1
    BY <2>1
  <2>3. b[d].f = "variable"
    BY <1>2, <1>3, <2>2
  <2>4. d + 1 <= q /\ b[d + 1].f = "compileword"
    BY <1>1, <2>3 DEF Closed
  <2>5. d + 1 \in 1 .. q
    BY <2>4
  <2>6. c[p + (d + 1)] = b[d + 1]
    BY <1>2, <2>5
  <2>7. c[j + 1] = b[d + 1]
    BY <2>2, <2>6
  <2>8. j + 1 <= p + q
    BY <2>1, <2>4
  <2> QED
    BY <2>4, <2>7, <2>8
<1>6. j <= p \/ j > p
  <2>1. j \in Int
    BY <1>3
  <2> QED
    BY <2>1
<1> QED
  BY <1>4, <1>5, <1>6

LEMMA ClosedFlat ==
  ASSUME NEW E, NEW ss \in Seq(Seq(E)), \A i \in 1 .. Len(ss) : Closed(ss[i])
  PROVE  Closed(FlattenSeq(ss))
<1>1. PICK N \in Nat : N = Len(ss)
  OBVIOUS
<1>2. PICK t \in [0 .. N -> Seq(E)] : FlattensTo(t, ss) /\ FlattenSeq(ss) = t[N]
  BY <1>1, FlattenIs
<1> DEFINE S == {d \in Nat : d <= N => Closed(t[d])}
<1>3. 0 \in S
  <2>1. t[0] = <<>>
    BY <1>2 DEF FlattensTo
  <2>2. Closed(t[0])
    BY <2>1 DEF Closed
  <2> QED
    BY <2>2
<1>4. ASSUME NEW d \in Nat, d \in S PROVE d + 1 \in S
  <2> SUFFICES ASSUME d + 1 <= N PROVE Closed(t[d + 1])
    OBVIOUS
  <2>1. d + 1 \in 1 .. Len(ss) /\ (d + 1) - 1 = d /\ Closed(t[d])
    BY <1>1, <1>4
  <2>2. t[d + 1] = t[d] \o ss[d + 1]
    BY <1>2, <2>1 DEF FlattensTo
  <2>3. t[d] \in Seq(E)
    BY <1>2
  <2>4. ss[d + 1] \in Seq(E)
    <3>1. PICK T : T = Seq(E)
      OBVIOUS
    <3>2. ss \in Seq(T)
      BY <3>1
    <3>3. ss[d + 1] \in T
      BY <2>1, <3>2
    <3> QED
      BY <3>1, <3>3
  <2>5. PICK a, b, c : a = t[d] /\ b = ss[d + 1] /\ c = t[d + 1]
    OBVIOUS
  <2>6. a \in Seq(E) /\ b \in Seq(E) /\ Closed(a) /\ Closed(b) /\ c = a \o b
    BY <2>1, <2>2, <2>3, <2>4, <2>5
  <2>7. Closed(c)
    BY <2>6, ClosedJoined
  <2> QED
    BY <2>5, <2>7
<1> HIDE DEF S
<1>5. N \in S
  BY <1>3, <1>4, Induct
<1> QED
  BY <1>2, <1>5 DEF S

LEMMA InVariableIs ==
  ASSUME NEW E, NEW a \in Seq(E), NEW block \in Seq(E), Closed(a), Closed(block),
         NEW i \in 1 .. Len(block), NEW b, b = a \o SubSeq(block, 1, i - 1)
  PROVE  InVariable(b) <=> i > 1 /\ block[i - 1].f = "variable"
<1>1. PICK p \in Nat, q \in Nat : p = Len(a) /\ q = i - 1
  OBVIOUS
<1>2. PICK s \in Seq(E) : /\ s = SubSeq(block, 1, i - 1) /\ Len(s) = q
                          /\ \A j \in 1 .. q : s[j] = block[j]
  <2>1. PICK M \in Nat : M = Len(block)
    OBVIOUS
  <2>2. i \in 1 .. M /\ q < i
    BY <1>1, <2>1
  <2>3. PICK s : s = SubSeq(block, 1, q)
    OBVIOUS
  <2>4. s \in Seq(E) /\ Len(s) = q /\ \A j \in 1 .. q : s[j] = block[j]
    BY <2>1, <2>2, <2>3
  <2> QED
    BY <1>1, <2>3, <2>4
<1>3. /\ b \in Seq(E) /\ Len(b) = p + q /\ \A j \in 1 .. p : b[j] = a[j]
      /\ \A j \in 1 .. q : b[p + j] = block[j]
  <2>1. b = a \o s
    BY <1>2
  <2>2. /\ b \in Seq(E) /\ Len(b) = p + q /\ \A j \in 1 .. p : b[j] = a[j]
        /\ \A j \in 1 .. q : b[p + j] = s[j]
    BY <1>1, <1>2, <2>1
  <2> QED
    BY <1>2, <2>2
<1>4. ASSUME NEW j \in 1 .. p + q, b[j].f = "variable"
      PROVE  \/ j < p + q /\ b[j + 1].f = "compileword"
             \/ q > 0 /\ j = p + q /\ block[q].f = "variable"
  <2>0. j \in Int /\ b[j].f = "variable"
    <3>1. j \in Int
      OBVIOUS
    <3> QED
      BY <1>4, <3>1
  <2>1. CASE j <= p
    <3>0. j \in 1 .. p
      BY <1>4, <2>1
    <3>1. j \in 1 .. p /\ a[j].f = "variable"
      BY <1>3, <2>0, <3>0
    <3>2. j + 1 <= p /\ a[j + 1].f = "compileword"
      BY <1>1, <3>1 DEF Closed
    <3>3. j + 1 \in 1 .. p
      BY <3>1, <3>2
    <3>4. b[j + 1].f = "compileword"
      BY <1>3, <3>2, <3>3
    <3>5. j < p + q
      BY <2>0, <3>2
    <3> QED
      BY <3>4, <3>5
  <2>2. CASE j > p
    <3>1. PICK d \in 1 .. q : d = j - p
      BY <2>2
    <3>2. p + d = j /\ p + (d + 1) = j + 1 /\ d \in 1 .. Len(block) /\ q > 0
      BY <1>1, <3>1
    <3>3. block[d].f = "variable"
      BY <1>3, <1>4, <3>2
    <3>4. block[d + 1].f = "compileword"
      BY <3>2, <3>3 DEF Closed
    <3>5. CASE d = q
      BY <3>2, <3>3, <3>5
    <3>6. CASE d # q
      <4>1. d + 1 \in 1 .. q
        BY <3>6
      <4>2. b[p + (d + 1)] = block[d + 1]
        BY <1>3, <4>1
      <4>3. b[j + 1] = block[d + 1]
        BY <3>2, <4>2
      <4>4. j < p + q
        BY <3>1, <4>1
      <4> QED
        BY <3>4, <4>3, <4>4
    <3> QED
      BY <3>5, <3>6
  <2>3. j <= p \/ j > p
    BY <2>0
  <2> QED
    BY <2>1, <2>2, <2>3
<1>5. DOMAIN b = 1 .. p + q
  BY <1>3
<1>6. ASSUME InVariable(b) PROVE i > 1 /\ block[i - 1].f = "variable"
  <2>1. PICK j \in 1 .. p + q :
          b[j].f = "variable" /\ \A k \in j + 1 .. Len(b) : b[k].f # "compileword"
    BY <1>5, <1>6 DEF InVariable
  <2>2. ~(j < p + q /\ b[j + 1].f = "compileword")
    <3>1. SUFFICES ASSUME j < p + q PROVE b[j + 1].f # "compileword"
      OBVIOUS
    <3>2. j + 1 \in j + 1 .. Len(b)
      BY <1>3, <3>1
    <3> QED
      BY <2>1, <3>2
  <2> QED
    BY <1>1, <1>4, <2>1, <2>2
<1>7. ASSUME i > 1, block[i - 1].f = "variable" PROVE InVariable(b)
  <2>1. q \in 1 .. q /\ p + q \in DOMAIN b /\ p + q + 1 .. Len(b) = {}
    BY <1>1, <1>3, <1>5, <1>7
  <2>2. b[p + q].f = "variable"
    BY <1>1, <1>3, <1>7, <2>1
  <2> QED
    BY <2>1, <2>2 DEF InVariable
<1> QED
  BY <1>6, <1>7

-----------------------------------------------------------------------------
(* The cells of the entries of a text, and of its blocks on the disk.      *)

(* A text as it is meant. *)
Meant(text, E) ==
  text \in Seq(Seq(E)) /\ text # <<>> /\ \A n \in 1 .. Len(text) : WellFormed(text[n])

Before(text, n, i) == FlattenSeq(SubSeq(text, 1, n - 1)) \o SubSeq(text[n], 1, i - 1)
EntryCells(text, n, i) == CellsOf(text[n][i], Before(text, n, i))
BlockEntries(text, n) == [i \in 1 .. Len(text[n]) |-> EntryCells(text, n, i)]

LEMMA BlockOf ==
  ASSUME NEW E, NEW text, Meant(text, E), NEW n \in 1 .. Len(text)
  PROVE  text[n] \in Seq(E) /\ Len(text[n]) \in Nat /\ WellFormed(text[n]) /\ Closed(text[n])
<1>1. PICK T : T = Seq(E)
  OBVIOUS
<1>2. text \in Seq(T)
  BY <1>1 DEF Meant
<1>3. text[n] \in T
  BY <1>2
<1>4. WellFormed(text[n])
  BY DEF Meant
<1>5. PICK block \in Seq(E) : block = text[n]
  BY <1>1, <1>3
<1>6. \A i \in DOMAIN block :
         block[i].f = "variable" => i + 1 \in DOMAIN block /\ block[i + 1].f = "compileword"
  BY <1>4, <1>5 DEF WellFormed
<1>7. DOMAIN block = 1 .. Len(block) /\ Len(block) \in Nat
  OBVIOUS
<1>8. Closed(block)
  BY <1>6, <1>7 DEF Closed
<1> QED
  BY <1>4, <1>5, <1>7, <1>8

LEMMA ValueIs ==
  ASSUME NEW E, NEW text, Meant(text, E), NEW n \in 1 .. Len(text), NEW i \in 1 .. Len(text[n])
  PROVE  InVariable(Before(text, n, i)) <=> i > 1 /\ text[n][i - 1].f = "variable"
<1>1. PICK T : T = Seq(E)
  OBVIOUS
<1>2. PICK s : s = SubSeq(text, 1, n - 1)
  OBVIOUS
<1>3. text \in Seq(T) /\ Len(text) \in Nat
  BY <1>1 DEF Meant
<1>4. s \in Seq(T) /\ Len(s) = n - 1 /\ \A m \in 1 .. n - 1 : s[m] = text[m]
  BY <1>2, <1>3
<1>5. ASSUME NEW m \in 1 .. Len(s) PROVE Closed(s[m])
  <2>1. m \in 1 .. n - 1 /\ m \in 1 .. Len(text)
    BY <1>3, <1>4
  <2> QED
    BY <1>4, <2>1, BlockOf
<1>6. PICK a : a = FlattenSeq(s)
  OBVIOUS
<1>7. Closed(a)
  BY <1>1, <1>4, <1>5, <1>6, ClosedFlat
<1>8. a \in Seq(E)
  BY <1>1, <1>4, <1>6, FlattenIsSeq
<1>9. PICK block \in Seq(E) : block = text[n] /\ Closed(block)
  BY BlockOf
<1>10. PICK b : b = a \o SubSeq(block, 1, i - 1)
  OBVIOUS
<1>11. b = Before(text, n, i)
  BY <1>2, <1>6, <1>9, <1>10 DEF Before
<1>12. i \in 1 .. Len(block)
  BY <1>9
<1>13. InVariable(b) <=> i > 1 /\ block[i - 1].f = "variable"
  BY <1>7, <1>8, <1>9, <1>10, <1>12, InVariableIs
<1> QED
  BY <1>9, <1>11, <1>13

(* What the cells of an entry are, by its function and the one before it.  *)
CellsAre(block, i, cs) ==
  LET e == block[i] IN
  /\ Tuple(cs)
  /\ e.f \in LongNumber => cs = <<Tagged(Tags[e.f], e.hex, 0), DataCell(e.param)>>
  /\ e.f \in ShortNumber => cs = <<Tagged(Tags[e.f], e.hex, e.param)>>
  /\ i > 1 /\ block[i - 1].f = "variable" => cs = <<DataCell(e.param)>>
  /\ ~IsNumberEntry(block, i) => cs = WordCells(Tags[e.f], Parts(e.param))

LEMMA WordCellsTuple ==
  ASSUME NEW tag, NEW parts, IsParts(parts)
  PROVE  Tuple(WordCells(tag, parts)) /\ Len(WordCells(tag, parts)) = Len(parts)
<1>1. PICK N \in Nat : N = Len(parts)
  BY LastAndFront
<1>2. PICK V : V = {NameCell(IF i = 1 THEN tag ELSE 0, Pack(parts[i])) : i \in 1 .. N}
  OBVIOUS
<1>3. PICK w : w = WordCells(tag, parts)
  OBVIOUS
<1>4. w = [i \in 1 .. N |-> NameCell(IF i = 1 THEN tag ELSE 0, Pack(parts[i]))]
  BY <1>1, <1>3 DEF WordCells
<1>5. w \in Seq(V) /\ Len(w) = N
  BY <1>2, <1>4
<1> QED
  BY <1>1, <1>3, <1>5 DEF Tuple

LEMMA EntryCellsAre ==
  ASSUME NEW E, NEW text, Meant(text, E), NEW n \in 1 .. Len(text), NEW i \in 1 .. Len(text[n])
  PROVE  CellsAre(text[n], i, EntryCells(text, n, i))
<1>1. PICK block \in Seq(E) : block = text[n] /\ WellFormed(block) /\ Closed(block)
  BY BlockOf
<1>2. i \in 1 .. Len(block) /\ Len(block) \in Nat /\ DOMAIN block = 1 .. Len(block)
  BY <1>1
<1>3. PICK e : e = block[i]
  OBVIOUS
<1>4. PICK before : before = Before(text, n, i)
  OBVIOUS
<1>5. InVariable(before) <=> i > 1 /\ block[i - 1].f = "variable"
  BY <1>1, <1>4, ValueIs
<1>6. i > 1 /\ block[i - 1].f = "variable" => e.f = "compileword"
  <2>1. SUFFICES ASSUME i > 1, block[i - 1].f = "variable" PROVE e.f = "compileword"
    OBVIOUS
  <2>2. i - 1 \in 1 .. Len(block) /\ (i - 1) + 1 = i
    BY <1>2, <2>1
  <2> QED
    BY <1>1, <1>3, <2>1, <2>2 DEF Closed
<1>7. PICK cs : cs = EntryCells(text, n, i)
  OBVIOUS
<1>8. cs = CellsOf(e, before)
  BY <1>1, <1>3, <1>4, <1>7 DEF EntryCells
<1> DEFINE tag == Tags[e.f]
           long  == <<Tagged(tag, e.hex, 0), DataCell(e.param)>>
           short == <<Tagged(tag, e.hex, e.param)>>
           value == <<DataCell(e.param)>>
           parts == Parts(e.param)
           name  == [j \in DOMAIN parts |-> NameCell(IF j = 1 THEN tag ELSE 0, Pack(parts[j]))]
<1>9. cs = CASE e.f \in LongNumber  -> long
             [] e.f \in ShortNumber -> short
             [] e.f = "compileword" /\ InVariable(before) -> value
             [] OTHER -> name
  BY <1>8 DEF CellsOf
<1>10. /\ Tuple(long) /\ Tuple(short) /\ Tuple(value)
  BY OneCharacter, TwoCharacters
<1>11. ASSUME ~IsNumberEntry(block, i)
       PROVE  Tuple(name) /\ name = WordCells(tag, parts)
  <2>1. e.param \in Seq(Letter)
    BY <1>1, <1>2, <1>3, <1>11 DEF WellFormed
  <2>2. PICK pp : pp = parts /\ IsParts(pp)
    BY <2>1, PartsOfWord
  <2>3. DOMAIN pp = 1 .. Len(pp)
    BY <2>2 DEF IsParts
  <2>4. name = WordCells(tag, parts)
    BY <2>2, <2>3 DEF WordCells
  <2> QED
    BY <2>2, <2>4, WordCellsTuple
<1>12. IsNumberEntry(block, i) <=>
          e.f \in LongNumber \cup ShortNumber \/ (i > 1 /\ block[i - 1].f = "variable")
  BY <1>3 DEF IsNumberEntry
<1>13. /\ e.f \in LongNumber => e.f \notin ShortNumber /\ e.f # "compileword"
       /\ e.f \in ShortNumber => e.f # "compileword"
  BY DEF LongNumber, ShortNumber
<1> HIDE DEF long, short, value, name, parts, tag
<1>14. /\ e.f \in LongNumber => cs = long
       /\ e.f \in ShortNumber => cs = short
       /\ i > 1 /\ block[i - 1].f = "variable" => cs = value
       /\ ~IsNumberEntry(block, i) => cs = name
  <2>1. CASE e.f \in LongNumber
    BY <1>6, <1>9, <1>12, <1>13, <2>1
  <2>2. CASE e.f \in ShortNumber
    BY <1>6, <1>9, <1>12, <1>13, <2>2
  <2>3. CASE e.f \notin LongNumber /\ e.f \notin ShortNumber
    BY <1>5, <1>6, <1>9, <1>12, <2>3
  <2> QED
    BY <2>1, <2>2, <2>3
<1>15. Tuple(cs)
  BY <1>10, <1>11, <1>12, <1>14
<1>16. /\ e.f \in LongNumber => cs = <<Tagged(Tags[e.f], e.hex, 0), DataCell(e.param)>>
       /\ e.f \in ShortNumber => cs = <<Tagged(Tags[e.f], e.hex, e.param)>>
       /\ i > 1 /\ block[i - 1].f = "variable" => cs = <<DataCell(e.param)>>
       /\ ~IsNumberEntry(block, i) => cs = WordCells(Tags[e.f], Parts(e.param))
  BY <1>11, <1>14 DEF long, short, value, parts, tag
<1>17. CellsAre(block, i, cs)
  BY <1>3, <1>15, <1>16 DEF CellsAre
<1> QED
  BY <1>1, <1>7, <1>17

LEMMA ConvertedIs ==
  ASSUME NEW E, NEW text, Meant(text, E), NEW n \in 1 .. Len(text)
  PROVE  /\ Converted(text)[n] = FlattenSeq(BlockEntries(text, n))
         /\ Len(BlockEntries(text, n)) = Len(text[n])
         /\ \E V : BlockEntries(text, n) \in Seq(Seq(V))
<1>1. PICK q \in Nat : q = Len(text[n])
  BY BlockOf
<1>2. PICK es : es = BlockEntries(text, n)
  OBVIOUS
<1>3. es = [i \in 1 .. q |-> EntryCells(text, n, i)]
  BY <1>1, <1>2 DEF BlockEntries
<1>4. es = [i \in 1 .. q |-> es[i]]
  BY <1>3
<1>5. ASSUME NEW i \in 1 .. q PROVE Tuple(es[i])
  <2>1. es[i] = EntryCells(text, n, i)
    BY <1>3
  <2>2. CellsAre(text[n], i, EntryCells(text, n, i))
    BY <1>1, EntryCellsAre
  <2> QED
    BY <2>1, <2>2 DEF CellsAre
<1>6. Len(es) = q /\ \E V : es \in Seq(Seq(V))
  BY <1>4, <1>5, TuplesOf
<1>7. DOMAIN text = 1 .. Len(text) /\ DOMAIN text[n] = 1 .. q
  <2>1. DOMAIN text = 1 .. Len(text)
    BY DEF Meant
  <2>2. text[n] \in Seq(E)
    BY BlockOf
  <2>3. DOMAIN text[n] = 1 .. Len(text[n])
    BY <2>2
  <2> QED
    BY <1>1, <2>1, <2>3
<1>8. Converted(text)[n] = FlattenSeq([i \in 1 .. q |-> EntryCells(text, n, i)])
  BY <1>7 DEF Converted, EntryCells, Before
<1> QED
  BY <1>1, <1>2, <1>3, <1>6, <1>8

LEMMA PaddedIs ==
  ASSUME NEW cells, Tuple(cells), NEW b \in Nat, b = BlockCells, Len(cells) <= b
  PROVE  /\ Tuple(Padded(cells)) /\ Len(Padded(cells)) = b /\ Len(cells) \in Nat
         /\ \A k \in 1 .. Len(cells) : Padded(cells)[k] = cells[k]
         /\ \A k \in Len(cells) + 1 .. b : Padded(cells)[k] = NoCell
<1>1. PICK V : cells \in Seq(V)
  BY DEF Tuple
<1>2. PICK nc : nc = NoCell
  OBVIOUS
<1>3. PICK W : W = V \cup {nc}
  OBVIOUS
<1>4. cells \in Seq(W)
  BY <1>1, <1>3, LargerSeq
<1>5. PICK p \in Nat, q \in Nat : p = Len(cells) /\ q = b - p
  BY <1>4
<1>6. PICK r : r = [i \in 1 .. q |-> nc]
  OBVIOUS
<1>7. r \in Seq(W) /\ Len(r) = q /\ \A i \in 1 .. q : r[i] = nc
  BY <1>3, <1>6
<1>8. PICK d : d = cells \o r
  OBVIOUS
<1>9. Padded(cells) = d
  BY <1>2, <1>5, <1>6, <1>8 DEF Padded
<1>10. /\ d \in Seq(W) /\ Len(d) = p + q /\ \A k \in 1 .. p : d[k] = cells[k]
       /\ \A i \in 1 .. q : d[p + i] = nc
  BY <1>4, <1>5, <1>7, <1>8
<1>11. ASSUME NEW k \in p + 1 .. b PROVE d[k] = nc
  <2>1. PICK i \in 1 .. q : i = k - p
    BY <1>5
  <2>2. p + i = k
    BY <2>1
  <2> QED
    BY <1>10, <2>2
<1>12. p + q = b
  BY <1>5
<1>13. Tuple(d) /\ Len(d) = b
  BY <1>10, <1>12 DEF Tuple
<1> QED
  BY <1>2, <1>5, <1>9, <1>10, <1>11, <1>13

LEMMA PaddedTuple ==
  ASSUME NEW cells, Tuple(cells)
  PROVE  Tuple(Padded(cells))
<1>1. PICK V : cells \in Seq(V)
  BY DEF Tuple
<1>2. PICK nc : nc = NoCell
  OBVIOUS
<1>3. PICK W : W = V \cup {nc}
  OBVIOUS
<1>4. cells \in Seq(W)
  BY <1>1, <1>3, LargerSeq
<1>5. PICK q \in Int : q = BlockCells - Len(cells)
  <2>1. Len(cells) \in Nat /\ BlockCells \in Nat
    BY <1>1, WordsAssumption
  <2> QED
    BY <2>1
<1>6. PICK m \in Nat : 1 .. m = 1 .. q
  <2>1. CASE q >= 0
    BY <2>1
  <2>2. CASE q < 0
    <3>1. 1 .. 0 = {} /\ 1 .. q = {}
      BY <2>2
    <3> QED
      BY <3>1
  <2> QED
    BY <2>1, <2>2
<1>7. PICK r : r = [i \in 1 .. m |-> nc]
  OBVIOUS
<1>8. r \in Seq(W)
  BY <1>3, <1>7
<1>9. Padded(cells) = cells \o r
  BY <1>2, <1>5, <1>6, <1>7 DEF Padded
<1> QED
  BY <1>4, <1>8, <1>9 DEF Tuple

LEMMA PartBetween ==
  ASSUME NEW V, NEW w \in Seq(V), NEW c \in Seq(V), NEW k, k \in Nat, NEW b, b \in Nat, Len(c) = b,
         k + b <= Len(w), \A j \in 1 .. b : w[k + j] = c[j]
  PROVE  SubSeq(w, k + 1, k + b) = c
<1>1. PICK u : u = SubSeq(w, k + 1, k + b)
  OBVIOUS
<1>2. u \in Seq(V) /\ Len(u) = b /\ \A i \in 1 .. b : u[i] = w[k + i]
  BY <1>1
<1>3. u \in Seq(V) /\ c \in Seq(V) /\ Len(u) = b /\ Len(c) = b /\ \A i \in 1 .. b : u[i] = c[i]
  BY <1>2
<1>4. u = c
  BY ONLY <1>3
<1> QED
  BY <1>1, <1>4

(* Where it and the blocks before it fit their cells, a block is where it  *)
(* is looked for.                                                          *)
LEMMA OnDisk ==
  ASSUME NEW E, NEW text, Meant(text, E), NEW n \in 1 .. Len(text),
         NEW b \in Nat, b = BlockCells,
         \A m \in 1 .. n : Len(Converted(text)[m]) <= b
  PROVE  DiskBlock(text, n - 1) = Padded(Converted(text)[n])
<1>1. PICK N \in Nat : N = Len(text) /\ n \in 1 .. N
  <2>1. PICK T : T = Seq(E)
    OBVIOUS
  <2>2. text \in Seq(T)
    BY <2>1 DEF Meant
  <2> QED
    BY <2>2
<1>2. PICK ps : ps = [m \in 1 .. N |-> Padded(Converted(text)[m])]
  OBVIOUS
<1>3. ASSUME NEW m \in 1 .. N PROVE Tuple(ps[m]) /\ (m <= n => Len(ps[m]) = b)
  <2>1. PICK V : BlockEntries(text, m) \in Seq(Seq(V))
    BY <1>1, ConvertedIs
  <2>2. FlattenSeq(BlockEntries(text, m)) \in Seq(V)
    BY <2>1, FlattenIsSeq
  <2>3. Tuple(Converted(text)[m])
    BY <1>1, <2>2, ConvertedIs DEF Tuple
  <2>4. Tuple(Padded(Converted(text)[m]))
    BY <2>3, PaddedTuple
  <2>5. ASSUME m <= n PROVE Len(Padded(Converted(text)[m])) = b
    <3>1. m \in 1 .. n
      BY <2>5
    <3> QED
      BY <2>3, <3>1, PaddedIs
  <2> QED
    BY <1>2, <2>4, <2>5
<1>4. ps = [m \in 1 .. N |-> ps[m]]
  BY <1>2
<1>5. PICK V : ps \in Seq(Seq(V)) /\ Len(ps) = N
  BY <1>3, <1>4, TuplesOf
<1>6. PICK t \in [0 .. N -> Seq(V)] : FlattensTo(t, ps) /\ FlattenSeq(ps) = t[N]
  BY <1>5, FlattenIs
<1>7. Disk(text) = t[N]
  <2>1. DOMAIN text = 1 .. N
    <3>1. PICK T : T = Seq(E)
      OBVIOUS
    <3>2. text \in Seq(T)
      BY <3>1 DEF Meant
    <3> QED
      BY <1>1, <3>2
  <2>2. Disk(text) = FlattenSeq(ps)
    BY <1>2, <2>1 DEF Disk
  <2> QED
    BY <1>6, <2>2
<1>8. ASSUME NEW m \in 1 .. N PROVE StandsIn(t[N], t[m - 1], ps[m], t[m])
  BY <1>5, <1>6, FlattenPlace
<1> DEFINE S == {m \in Nat : m <= n => Len(t[m]) = m * b}
<1>9. 0 \in S
  <2>1. t[0] = <<>>
    BY <1>6 DEF FlattensTo
  <2>2. Len(t[0]) = 0 /\ 0 * b = 0
    BY <2>1
  <2> QED
    BY <2>2
<1>10. ASSUME NEW m \in Nat, m \in S PROVE m + 1 \in S
  <2> SUFFICES ASSUME m + 1 <= n PROVE Len(t[m + 1]) = (m + 1) * b
    OBVIOUS
  <2>1. PICK h \in 1 .. N : h = m + 1 /\ h - 1 = m /\ h <= n /\ Len(t[m]) = m * b
    BY <1>1, <1>10
  <2>2. Len(t[h]) = m * b + b
    <3>1. Len(t[h]) = Len(t[h - 1]) + Len(ps[h])
      BY <1>8, <2>1 DEF StandsIn
    <3>2. Len(ps[h]) = b
      BY <1>3, <2>1
    <3> QED
      BY <2>1, <3>1, <3>2
  <2>3. (m + 1) * b = m * b + b
    OBVIOUS
  <2> QED
    BY <2>1, <2>2, <2>3
<1> HIDE DEF S
<1>11. \A m \in Nat : m \in S
  BY <1>9, <1>10, Induct
<1>12. PICK M \in Nat : M = n - 1
  BY <1>1
<1>13. PICK k \in Nat : k = M * b
  BY <1>12
<1>14. PICK w, c \in Seq(V) : w = t[N] /\ c = ps[n]
  <2>1. N \in 0 .. N
    BY <1>1
  <2>2. ps[n] \in Seq(V)
    <3>1. PICK T : T = Seq(V)
      OBVIOUS
    <3>2. ps \in Seq(T)
      BY <1>5, <3>1
    <3>3. ps[n] \in T
      BY <1>1, <1>5, <3>2
    <3> QED
      BY <3>1, <3>3
  <2> QED
    BY <1>6, <2>1, <2>2
<1>15. Len(c) = b
  BY <1>1, <1>3, <1>14
<1>16. Len(t[M]) = k
  <2>1. M \in S /\ M <= n
    BY <1>1, <1>11, <1>12
  <2> QED
    BY <1>13, <2>1 DEF S
<1>17. k + b <= Len(w) /\ \A j \in 1 .. b : w[k + j] = c[j]
  <2>1. StandsIn(w, t[M], c, t[n])
    BY <1>1, <1>8, <1>12, <1>14
  <2> QED
    BY <1>15, <1>16, <2>1 DEF StandsIn
<1>18. SubSeq(w, k + 1, k + b) = c
  BY <1>14, <1>15, <1>17, PartBetween
<1>19. (M + 1) * b = k + b
  BY <1>12, <1>13
<1>20. DiskBlock(text, M) = SubSeq(Disk(text), M * b + 1, (M + 1) * b)
  BY DEF DiskBlock
<1>21. DiskBlock(text, M) = c
  BY <1>7, <1>13, <1>14, <1>18, <1>19, <1>20
<1> QED
  BY <1>1, <1>2, <1>12, <1>14, <1>21

-----------------------------------------------------------------------------
(* The page of a block, one entry after the other.                         *)

ListedAs(el, block, i) ==
  IF IsNumberEntry(block, i)
  THEN block[i].f = "commented_number" \/ el.class = NumberClass(block[i])
  ELSE el = Element(Family(block[i]), block[i].param)

(* The page has the first m entries of the block. *)
Lists(page, block, m) ==
  Tuple(page) /\ Len(page) = m /\ \A i \in 1 .. m : ListedAs(page[i], block, i)

LEMMA ListsMore ==
  ASSUME NEW page, NEW block, NEW m \in Nat, Lists(page, block, m),
         NEW el, ListedAs(el, block, m + 1)
  PROVE  Lists(page \o <<el>>, block, m + 1)
<1>1. PICK V : page \in Seq(V)
  BY DEF Lists, Tuple
<1>2. PICK W : W = V \cup {el}
  OBVIOUS
<1>3. page \in Seq(W) /\ el \in W
  BY <1>1, <1>2, LargerSeq
<1>4. PICK p : p = page \o <<el>>
  OBVIOUS
<1>5. Len(page) = m
  BY DEF Lists
<1>6. p \in Seq(W) /\ Len(p) = m + 1 /\ p[m + 1] = el /\ \A i \in 1 .. m : p[i] = page[i]
  BY <1>3, <1>4, <1>5
<1>7. ASSUME NEW i \in 1 .. m + 1 PROVE ListedAs(p[i], block, i)
  <2>1. CASE i = m + 1
    BY <1>6, <2>1
  <2>2. CASE i # m + 1
    <3>1. i \in 1 .. m
      BY <2>2
    <3>2. ListedAs(page[i], block, i)
      BY <3>1 DEF Lists
    <3> QED
      BY <1>6, <3>1, <3>2
  <2> QED
    BY <2>1, <2>2
<1>8. Lists(p, block, m + 1)
  BY <1>6, <1>7 DEF Lists, Tuple
<1> QED
  BY <1>4, <1>8

(* An extension without a letter changes nothing. *)
LEMMA ListsKept ==
  ASSUME NEW page, NEW block, NEW m \in Nat, Lists(page, block, m),
         \A i \in 1 .. m : ~IsNumberEntry(block, i) => block[i].param \in Seq(Letter)
  PROVE  Lists(GoesOn(page, <<>>), block, m)
<1>1. CASE page = <<>>
  <2>1. GoesOn(page, <<>>) = page
    BY <1>1 DEF GoesOn
  <2> QED
    BY <2>1
<1>2. CASE page # <<>>
  <2>1. PICK V : page \in Seq(V)
    BY DEF Lists, Tuple
  <2>2. PICK d \in Nat : d + 1 = m /\ Len(page) = d + 1
    <3>1. Len(page) = m /\ m # 0
      BY <1>2, <2>1 DEF Lists
    <3>2. m - 1 \in Nat /\ (m - 1) + 1 = m
      BY <3>1
    <3> QED
      BY <3>1, <3>2
  <2>3. PICK front, last : front = SubSeq(page, 1, d) /\ last = page[d + 1]
    OBVIOUS
  <2>4. front \in Seq(V) /\ Len(front) = d /\ \A i \in 1 .. d : front[i] = page[i]
    BY <2>1, <2>2, <2>3
  <2>5. Last(page) = last /\ Front(page) = front
    <3>1. Len(page) - 1 = d
      BY <2>2
    <3> QED
      BY <2>2, <2>3, <3>1 DEF Last, Front
  <2>6. PICK el : el = Element(last.class, last.text \o <<>>)
    OBVIOUS
  <2>7. GoesOn(page, <<>>) = Append(front, el)
    BY <1>2, <2>5, <2>6 DEF GoesOn
  <2>8. Append(front, el) = front \o <<el>>
    <3>1. PICK W : W = V \cup {el}
      OBVIOUS
    <3>2. front \in Seq(W)
      BY <2>4, <3>1, LargerSeq
    <3> QED
      BY <3>2
  <2>9. Lists(front, block, d)
    <3>1. ASSUME NEW i \in 1 .. d PROVE ListedAs(front[i], block, i)
      <4>1. i \in 1 .. m /\ front[i] = page[i]
        BY <2>2, <2>4
      <4>2. ListedAs(page[i], block, i)
        BY <4>1 DEF Lists
      <4> QED
        BY <4>1, <4>2
    <3>2. Tuple(front)
      BY <2>4 DEF Tuple
    <3> QED
      BY <2>4, <3>1, <3>2 DEF Lists
  <2>10. ListedAs(last, block, d + 1) /\ d + 1 \in 1 .. m
    <3>1. d + 1 \in 1 .. m
      BY <2>2
    <3>2. ListedAs(page[d + 1], block, d + 1)
      BY <3>1 DEF Lists
    <3> QED
      BY <2>3, <3>1, <3>2
  <2>11. ListedAs(el, block, d + 1)
    <3>1. CASE IsNumberEntry(block, d + 1)
      <4>1. el.class = last.class
        BY <2>6 DEF Element
      <4> QED
        BY <2>10, <3>1, <4>1 DEF ListedAs
    <3>2. CASE ~IsNumberEntry(block, d + 1)
      <4>1. PICK w \in Seq(Letter) : w = block[d + 1].param
        BY <2>10, <3>2
      <4>2. last = Element(Family(block[d + 1]), w)
        BY <2>10, <3>2, <4>1 DEF ListedAs
      <4>3. w \o <<>> = w
        OBVIOUS
      <4>4. last.class = Family(block[d + 1]) /\ last.text = w
        BY <4>2 DEF Element
      <4>5. el = last
        BY <2>6, <4>2, <4>3, <4>4
      <4> QED
        BY <2>10, <4>5
    <3> QED
      BY <3>1, <3>2
  <2>12. Lists(front \o <<el>>, block, d + 1)
    BY <2>9, <2>11, ListsMore
  <2> QED
    BY <2>2, <2>7, <2>8, <2>12
<1> QED
  BY <1>1, <1>2

(* The cells of the entry i are those behind p[i - 1], up to p[i]. *)
Laid(cells, block, es, p, N) ==
  /\ p \in [0 .. N -> Nat] /\ p[0] = 0 /\ p[N] <= BlockCells
  /\ \A i \in 1 .. N :
       /\ Len(es[i]) \in Nat /\ p[i] = p[i - 1] + Len(es[i]) /\ p[i] <= p[N]
       /\ \A j \in 1 .. Len(es[i]) : cells[p[i - 1] + j] = es[i][j]
       /\ CellsAre(block, i, es[i])
  /\ \A k \in p[N] + 1 .. BlockCells : cells[k] = NoCell

(* The first i entries are on the page. *)
Come(f, p, block, i) ==
  \E r \in 0 .. p[i] : \E page : IsState(f[r], p[i] + 1, page) /\ Lists(page, block, i)

LEMMA LaidAt ==
  ASSUME NEW cells, NEW block, NEW es, NEW p, NEW N \in Nat, Laid(cells, block, es, p, N),
         NEW b \in Nat, b = BlockCells, NEW i \in 1 .. N
  PROVE  /\ p[i - 1] \in Nat /\ p[i] \in Nat /\ p[i] <= b /\ Len(es[i]) \in Nat
         /\ p[i] = p[i - 1] + Len(es[i])
         /\ \A j \in 1 .. Len(es[i]) : cells[p[i - 1] + j] = es[i][j]
         /\ CellsAre(block, i, es[i])
<1>1. i - 1 \in 0 .. N /\ i \in 0 .. N /\ N \in 0 .. N
  OBVIOUS
<1>2. p \in [0 .. N -> Nat] /\ p[N] <= b
  BY DEF Laid
<1>3. p[i - 1] \in Nat /\ p[i] \in Nat /\ p[N] \in Nat
  BY <1>1, <1>2
<1>4. /\ Len(es[i]) \in Nat /\ p[i] = p[i - 1] + Len(es[i]) /\ p[i] <= p[N]
      /\ \A j \in 1 .. Len(es[i]) : cells[p[i - 1] + j] = es[i][j]
      /\ CellsAre(block, i, es[i])
  BY DEF Laid
<1>5. p[i] <= b
  BY <1>2, <1>3, <1>4
<1> QED
  BY <1>3, <1>4, <1>5

(* The cells of the entry i + 1 are q cells behind the first k. *)
NextLaid(cells, block, p, i, b, cs, k, q) ==
  /\ k \in Nat /\ q \in Nat
  /\ k = p[i] /\ q = Len(cs) /\ p[i + 1] = k + q /\ k + q <= b
  /\ \A j \in 1 .. q : cells[k + j] = cs[j]
  /\ CellsAre(block, i + 1, cs)

LEMMA LaidNext ==
  ASSUME NEW cells, NEW block, NEW es, NEW p, NEW N \in Nat, Laid(cells, block, es, p, N),
         NEW b, b = BlockCells, b \in Nat, NEW i, i \in Nat, i + 1 <= N, NEW cs, cs = es[i + 1]
  PROVE  \E k, q : NextLaid(cells, block, p, i, b, cs, k, q)
<1>1. PICK h \in 1 .. N : h = i + 1 /\ h - 1 = i
  OBVIOUS
<1>2. /\ p[h - 1] \in Nat /\ p[h] \in Nat /\ p[h] <= b /\ Len(es[h]) \in Nat
      /\ p[h] = p[h - 1] + Len(es[h])
      /\ \A j \in 1 .. Len(es[h]) : cells[p[h - 1] + j] = es[h][j]
      /\ CellsAre(block, h, es[h])
  BY LaidAt
<1>3. cs = es[h]
  BY <1>1
<1>4. PICK k, q \in Nat : k = p[h - 1] /\ q = Len(cs)
  BY <1>2, <1>3
<1>5. p[i + 1] = k + q /\ k + q <= b /\ k = p[i]
  BY <1>1, <1>2, <1>3, <1>4
<1>6. (\A j \in 1 .. q : cells[k + j] = cs[j]) /\ CellsAre(block, i + 1, cs)
  BY <1>1, <1>2, <1>3, <1>4
<1>7. NextLaid(cells, block, p, i, b, cs, k, q)
  BY <1>4, <1>5, <1>6 DEF NextLaid
<1> QED
  BY <1>7

(* A round that puts one element for the entry i. *)
LEMMA OneComes ==
  ASSUME NEW f, NEW p, NEW block, NEW i, i \in Nat, NEW r, NEW page, NEW el,
         Lists(page, block, i), ListedAs(el, block, i + 1), r \in 0 .. p[i + 1],
         IsState(f[r], p[i + 1] + 1, page \o <<el>>)
  PROVE  Come(f, p, block, i + 1)
<1>1. Lists(page \o <<el>>, block, i + 1)
  BY ListsMore
<1> QED
  BY <1>1 DEF Come

LEMMA NumberComes ==
  ASSUME NEW cells, NEW f, NEW b \in Nat, b = BlockCells, HtmlRounds(f, cells, b),
         NEW block, NEW es, NEW p, NEW N \in Nat, Laid(cells, block, es, p, N),
         NEW i \in Nat, i + 1 <= N, Come(f, p, block, i),
         NEW e, e = block[i + 1], e.f \in LongNumber \cup ShortNumber, e.hex \in {0, 1}, e.param \in Int
  PROVE  Come(f, p, block, i + 1)
<1>1. i + 1 \in 1 .. N /\ (i + 1) - 1 = i
  OBVIOUS
<1>2. PICK cs : cs = es[i + 1]
  OBVIOUS
<1>0. PICK k, q : NextLaid(cells, block, p, i, b, cs, k, q)
  BY <1>2, LaidNext
<1>3. k \in Nat /\ q \in Nat /\ k = p[i] /\ q = Len(cs) /\ p[i + 1] = k + q /\ k + q <= b
  BY <1>0 DEF NextLaid
<1>4. (\A j \in 1 .. q : cells[k + j] = cs[j]) /\ CellsAre(block, i + 1, cs)
  BY <1>0 DEF NextLaid
<1>5. PICK r \in 0 .. k : \E page : IsState(f[r], k + 1, page) /\ Lists(page, block, i)
  BY <1>3 DEF Come
<1>6. PICK page : IsState(f[r], k + 1, page) /\ Lists(page, block, i)
  BY <1>5
<1>7. PICK n \in Int : n = IF e.f \in LongNumber THEN 0 ELSE e.param
  OBVIOUS
<1>8. PICK c : c = Tagged(Tags[e.f], e.hex, n)
  OBVIOUS
<1>9. /\ e.f \in LongNumber => c.color \in {2, 5}
      /\ e.f \in ShortNumber => c.color \in {6, 8, 15}
      /\ e.f = "commented_number" \/ HtmlClass(c) = NumberClass(e)
  BY <1>8, NumberListed
<1>10. q \in {1, 2} /\ cs[1] = c /\ (e.f \in LongNumber => q = 2) /\ (e.f \in ShortNumber => q = 1)
  <2>1. e.f \in LongNumber => e.f \notin ShortNumber
    BY DEF LongNumber, ShortNumber
  <2>2. CASE e.f \in LongNumber
    <3>1. PICK dc : dc = DataCell(e.param)
      OBVIOUS
    <3>2. cs = <<c, dc>>
      BY <1>4, <1>7, <1>8, <2>2, <3>1 DEF CellsAre
    <3> QED
      BY <1>3, <2>1, <2>2, <3>2
  <2>3. CASE e.f \in ShortNumber
    <3>1. n = e.param
      BY <1>7, <2>1, <2>3
    <3>2. cs = <<c>>
      BY <1>4, <1>8, <2>3, <3>1 DEF CellsAre
    <3> QED
      BY <1>3, <2>1, <2>3, <3>2
  <2> QED
    BY <2>2, <2>3
<1>11. cells[k + 1] = c
  <2>1. 1 \in 1 .. q
    BY <1>10
  <2> QED
    BY <1>4, <1>10, <2>1
<1>12. r + 1 <= b /\ k + 1 <= b /\ k + 1 \in Nat /\ r \in Nat
  <2>1. r \in 0 .. k /\ k \in Nat /\ q \in {1, 2} /\ k + q <= b /\ b \in Nat
    BY <1>3, <1>10
  <2> QED
    BY ONLY <2>1
<1>13. Goes(cells, f, r)
  <2>1. PICK k1 : k1 = k + 1
    OBVIOUS
  <2>2. IsState(f[r], k1, page) /\ k1 \in Nat /\ k1 <= b
    BY <1>6, <1>12, <2>1
  <2> QED
    BY <1>12, <2>2, HtmlStep
<1>14. \/ c.color \in {2, 5} /\ q = 2
       \/ c.color \in {6, 8, 15} /\ q = 1
  <2>1. e.f \in LongNumber \/ e.f \in ShortNumber
    OBVIOUS
  <2> QED
    BY <1>9, <1>10, <2>1
<1>15. PICK x : IsState(HtmlRound(cells, f[r]), (k + 1) + q, page \o <<Element(HtmlClass(c), x)>>)
  BY <1>6, <1>11, <1>14, HtmlOfNumber
<1>16. PICK el : el = Element(HtmlClass(c), x)
  OBVIOUS
<1>17. ListedAs(el, block, i + 1)
  <2>1. IsNumberEntry(block, i + 1)
    BY DEF IsNumberEntry
  <2>2. el.class = HtmlClass(c)
    BY <1>16 DEF Element
  <2> QED
    BY <1>9, <2>1, <2>2 DEF ListedAs
<1>18. r + 1 \in 0 .. p[i + 1] /\ (k + 1) + q = p[i + 1] + 1
  BY <1>3, <1>10
<1>19. IsState(f[r + 1], p[i + 1] + 1, page \o <<el>>)
  BY <1>13, <1>15, <1>16, <1>18 DEF Goes
<1> QED
  BY <1>6, <1>17, <1>18, <1>19, OneComes

LEMMA WordComes ==
  ASSUME NEW cells, NEW f, NEW b \in Nat, b = BlockCells, HtmlRounds(f, cells, b),
         NEW block, NEW es, NEW p, NEW N \in Nat, Laid(cells, block, es, p, N),
         NEW i \in Nat, i + 1 <= N, Come(f, p, block, i),
         NEW e, e = block[i + 1], e.f \in DOMAIN Tags, e.f # "variable", ~IsNumberEntry(block, i + 1),
         e.param \in Seq(Letter)
  PROVE  Come(f, p, block, i + 1)
<1>1. i + 1 \in 1 .. N /\ (i + 1) - 1 = i
  OBVIOUS
<1>2. PICK cs : cs = es[i + 1]
  OBVIOUS
<1>0. PICK k, q : NextLaid(cells, block, p, i, b, cs, k, q)
  BY <1>2, LaidNext
<1>3. k \in Nat /\ q \in Nat /\ k = p[i] /\ q = Len(cs) /\ p[i + 1] = k + q /\ k + q <= b
  BY <1>0 DEF NextLaid
<1>4. (\A j \in 1 .. q : cells[k + j] = cs[j]) /\ CellsAre(block, i + 1, cs)
  BY <1>0 DEF NextLaid
<1>5. PICK r \in 0 .. k : \E page : IsState(f[r], k + 1, page) /\ Lists(page, block, i)
  BY <1>3 DEF Come
<1>6. PICK page : IsState(f[r], k + 1, page) /\ Lists(page, block, i)
  BY <1>5
<1>7. e.f \notin LongNumber \cup ShortNumber
  BY DEF IsNumberEntry
<1>8. PICK tag : tag = Tags[e.f]
  OBVIOUS
<1>9. tag \in {1, 3, 4, 7, 9, 10, 11, 13, 14} /\ Classes[tag + 1] = Family(e)
  <2>1. /\ Tags[e.f] \in {1, 3, 4, 7, 9, 10, 11, 12, 13, 14}
        /\ Classes[Tags[e.f] + 1] = Family(e)
        /\ e.f = "variable" <=> Tags[e.f] = 12
    BY <1>7, WordListed
  <2> QED
    BY <1>8, <2>1
<1>10. PICK parts : parts = Parts(e.param)
  OBVIOUS
<1>11. IsParts(parts) /\ AllInName(parts) /\ FlattenSeq(parts) = e.param
  BY <1>10, PartsOfWord
<1>12. cs = WordCells(tag, parts)
  BY <1>4, <1>8, <1>10 DEF CellsAre
<1>13. q = Len(parts) /\ q \in Nat
  <2>1. Len(WordCells(tag, parts)) = Len(parts)
    BY <1>11, WordCellsTuple
  <2> QED
    BY <1>3, <1>12, <2>1
<1>14. k + 1 \in Nat \ {0} /\ (k + 1) + q - 1 <= b /\ r + q <= b /\ r \in Nat
  BY <1>3
<1>15. ASSUME NEW j \in 1 .. q PROVE cells[(k + 1) + j - 1] = WordCells(tag, parts)[j]
  <2>1. (k + 1) + j - 1 = k + j
    BY <1>3
  <2> QED
    BY <1>4, <1>12, <2>1
<1>16. Tuple(page)
  BY <1>6 DEF Lists
<1>17. IsState(f[r + q], (k + 1) + q, page \o <<Element(Classes[tag + 1], FlattenSeq(parts))>>)
  <2>1. PICK k1 \in Nat \ {0} : k1 = k + 1
    BY <1>14
  <2>2. IsState(f[r], k1, page) /\ k1 + q - 1 <= b
    BY <1>6, <1>14, <2>1
  <2>3. WordAt(cells, k1, tag, parts, q)
    BY <1>15, <2>1 DEF WordAt
  <2>4. IsState(f[r + q], k1 + q, page \o <<Element(Classes[tag + 1], FlattenSeq(parts))>>)
    BY <1>9, <1>11, <1>13, <1>14, <1>16, <2>2, <2>3, WordRounds
  <2> QED
    BY <2>1, <2>4
<1>18. PICK el : el = Element(Family(e), e.param)
  OBVIOUS
<1>19. ListedAs(el, block, i + 1)
  BY <1>18 DEF ListedAs
<1>20. r + q \in 0 .. p[i + 1] /\ (k + 1) + q = p[i + 1] + 1
  BY <1>3
<1>21. IsState(f[r + q], p[i + 1] + 1, page \o <<el>>)
  BY <1>9, <1>11, <1>17, <1>18, <1>20
<1> QED
  BY <1>6, <1>19, <1>20, <1>21, OneComes

(* One after the other, or both at once. *)
BothOnce(page, c, d) == page \o (<<c>> \o <<d>>) = (page \o <<c>>) \o <<d>>

LEMMA BothAre ==
  ASSUME NEW page, NEW c, NEW d, Tuple(page)
  PROVE  BothOnce(page, c, d)
<1>1. PICK V : page \in Seq(V)
  BY DEF Tuple
<1>2. PICK W : W = V \cup {c, d}
  OBVIOUS
<1>3. page \in Seq(W) /\ c \in W /\ d \in W
  BY <1>1, <1>2, LargerSeq
<1>4. PICK u, y : u = <<c>> /\ y = <<d>>
  OBVIOUS
<1>5. u \in Seq(W) /\ y \in Seq(W)
  BY <1>3, <1>4
<1>6. page \o (u \o y) = (page \o u) \o y
  BY <1>3, <1>5
<1> QED
  BY <1>4, <1>6 DEF BothOnce

LEMMA VariableComes ==
  ASSUME NEW cells, NEW f, NEW b \in Nat, b = BlockCells, HtmlRounds(f, cells, b),
         NEW block, NEW es, NEW p, NEW N \in Nat, Laid(cells, block, es, p, N),
         NEW i \in Nat, i + 2 <= N, Come(f, p, block, i),
         NEW e, e = block[i + 1], e.f = "variable", ~IsNumberEntry(block, i + 1),
         e.param \in Seq(Letter), Len(Coded(e.param)) < NameBits,
         NEW v, v = block[i + 2], v.f = "compileword", v.hex = 0
  PROVE  Come(f, p, block, i + 2)
<1>1. PICK h \in Nat : h = i + 1 /\ h + 1 = i + 2 /\ h <= N /\ h + 1 <= N /\ h > 0
  OBVIOUS
<1>2. PICK cs, ds : cs = es[h] /\ ds = es[h + 1]
  OBVIOUS
<1>3. PICK k, q : NextLaid(cells, block, p, i, b, cs, k, q)
  BY <1>1, <1>2, LaidNext
<1>4. PICK l, m : NextLaid(cells, block, p, h, b, ds, l, m)
  BY <1>1, <1>2, LaidNext
<1>5. k \in Nat /\ q \in Nat /\ k = p[i] /\ q = Len(cs) /\ p[h] = k + q /\ k + q <= b
  BY <1>1, <1>3 DEF NextLaid
<1>6. m \in Nat /\ m = Len(ds) /\ p[h + 1] = (k + q) + m /\ (k + q) + m <= b
  BY <1>4, <1>5 DEF NextLaid
<1>7. (\A j \in 1 .. q : cells[k + j] = cs[j]) /\ CellsAre(block, h, cs) /\ CellsAre(block, h + 1, ds)
  BY <1>1, <1>3, <1>4 DEF NextLaid
<1>8. PICK w \in Seq(Letter) : w = e.param
  OBVIOUS
<1>9. PICK l0 \in Nat : l0 = Len(Coded(w))
  <2>1. Codes(w) \in Seq(Seq(Bit)) /\ Coded(w) = FlattenSeq(Codes(w))
    BY CodedFlattens
  <2>2. PICK u \in Seq(Bit) : u = Coded(w)
    BY <2>1, FlattenIsSeq
  <2> QED
    BY <2>2
<1>10. l0 <= NameBits
  BY <1>8, <1>9 DEF NameBits
<1>11. Parts(w) = <<w>> /\ AllInName(Parts(w)) /\ IsParts(Parts(w))
  BY <1>9, <1>10, PartsOfWord
<1>12. PICK name : name = Pack(w)
  OBVIOUS
<1>13. Unpack(name) = w
  <2>1. Len(Parts(w)) = 1 /\ Parts(w)[1] = w
    BY <1>11
  <2>2. InName(w)
    BY <1>11, <2>1 DEF AllInName
  <2> QED
    BY <1>12, <2>2, UnpackInName
<1>14. Tags["variable"] = 12
  BY DEF Tags
<1>15. cs = WordCells(12, Parts(w))
  <2>1. e = block[h] /\ ~IsNumberEntry(block, h)
    BY <1>1
  <2> QED
    BY <1>7, <1>8, <1>14, <2>1 DEF CellsAre
<1>16. q = 1 /\ cs[1] = NameCell(12, name)
  <2>1. PICK parts : parts = Parts(w)
    OBVIOUS
  <2>2. Len(parts) = 1 /\ parts[1] = w
    BY <1>11, <2>1
  <2>3. cs = [j \in 1 .. 1 |-> NameCell(IF j = 1 THEN 12 ELSE 0, Pack(parts[j]))]
    BY <1>15, <2>1, <2>2 DEF WordCells
  <2>4. Len(cs) = Len(parts)
    BY <1>11, <1>15, <2>1, WordCellsTuple
  <2>5. 1 \in 1 .. 1
    OBVIOUS
  <2>6. cs[1] = NameCell(12, Pack(parts[1]))
    BY <2>3, <2>5
  <2> QED
    BY <1>5, <1>12, <2>2, <2>4, <2>6
<1>17. m = 1
  <2>1. (h + 1) - 1 = h /\ h + 1 > 1 /\ block[h].f = "variable"
    BY <1>1
  <2>2. PICK x : x = DataCell(block[h + 1].param)
    OBVIOUS
  <2>3. ds = <<x>>
    BY <1>7, <2>1, <2>2 DEF CellsAre
  <2> QED
    BY <1>6, <2>3
<1>18. PICK k1 \in Nat : k1 = k + 1 /\ k1 <= b /\ k1 # b
  BY <1>5, <1>6, <1>16, <1>17
<1>19. cells[k1] = NameCell(12, name)
  <2>1. 1 \in 1 .. q
    BY <1>16
  <2> QED
    BY <1>7, <1>16, <1>18, <2>1
<1>20. PICK r \in 0 .. k : \E page : IsState(f[r], k + 1, page) /\ Lists(page, block, i)
  BY <1>5 DEF Come
<1>21. PICK page : IsState(f[r], k1, page) /\ Lists(page, block, i)
  BY <1>18, <1>20
<1>22. Goes(cells, f, r)
  <2>1. r \in Nat /\ r + 1 <= b
    <3>1. r \in 0 .. k /\ k \in Nat /\ k + 1 <= b /\ b \in Nat
      BY <1>5, <1>18
    <3> QED
      BY ONLY <3>1
  <2> QED
    BY <1>18, <1>21, <2>1, HtmlStep
<1>23. PICK x : IsState(HtmlRound(cells, f[r]), k1 + 2,
                        page \o (<<Element("variable", Unpack(name))>> \o <<Element("compile", x)>>))
  BY <1>18, <1>19, <1>21, HtmlOfVariable
<1>24. PICK c, d : c = Element("variable", w) /\ d = Element("compile", x)
  OBVIOUS
<1>25. IsState(f[r + 1], k1 + 2, page \o (<<c>> \o <<d>>))
  BY <1>13, <1>22, <1>23, <1>24 DEF Goes
<1>26. page \o (<<c>> \o <<d>>) = (page \o <<c>>) \o <<d>>
  <2>1. Tuple(page)
    BY <1>21 DEF Lists
  <2>2. BothOnce(page, c, d)
    BY <2>1, BothAre
  <2> QED
    BY <2>2 DEF BothOnce
<1>27. ListedAs(c, block, h)
  <2>1. Family(e) = "variable"
    BY DEF Family
  <2>2. e = block[h] /\ ~IsNumberEntry(block, h)
    BY <1>1
  <2> QED
    BY <1>8, <1>24, <2>1, <2>2 DEF ListedAs
<1>28. PICK page1 : page1 = page \o <<c>> /\ Lists(page1, block, h)
  <2>1. Lists(page \o <<c>>, block, i + 1)
    BY <1>1, <1>21, <1>27, ListsMore
  <2> QED
    BY <1>1, <2>1
<1>29. ListedAs(d, block, h + 1)
  <2>1. IsNumberEntry(block, h + 1)
    <3>1. (h + 1) - 1 = h /\ h + 1 > 1 /\ block[h].f = "variable"
      BY <1>1
    <3> QED
      BY <3>1 DEF IsNumberEntry
  <2>2. NumberClass(v) = "compile"
    <3>1. Family(v) = "compile"
      BY DEF Family
    <3> QED
      BY <3>1 DEF NumberClass
  <2>3. d.class = "compile" /\ v = block[h + 1]
    BY <1>1, <1>24 DEF Element
  <2> QED
    BY <2>1, <2>2, <2>3 DEF ListedAs
<1>30. r + 1 \in 0 .. p[h + 1] /\ k1 + 2 = p[h + 1] + 1
  <2>1. p[h + 1] = k + 2 /\ k1 = k + 1 /\ k \in Nat
    BY <1>5, <1>6, <1>16, <1>17, <1>18
  <2>2. r + 1 \in 0 .. k + 2
    BY <2>1
  <2>3. k1 + 2 = (k + 2) + 1
    BY <2>1
  <2> QED
    BY <2>1, <2>2, <2>3
<1>31. IsState(f[r + 1], p[h + 1] + 1, page1 \o <<d>>)
  BY <1>25, <1>26, <1>28, <1>30
<1>32. Come(f, p, block, h + 1)
  BY <1>28, <1>29, <1>30, <1>31, OneComes
<1> QED
  BY <1>1, <1>32

(* Each entry of the block comes to its page; a variable comes with its    *)
(* value.                                                                  *)
LEMMA EntriesCome ==
  ASSUME NEW cells, NEW f, NEW b \in Nat, b = BlockCells, HtmlRounds(f, cells, b),
         NEW block, NEW es, NEW p, NEW N \in Nat, Laid(cells, block, es, p, N),
         DOMAIN block = 1 .. N, WellFormed(block),
         \A i \in 1 .. N : block[i].f = "variable" => Len(Coded(block[i].param)) < NameBits
  PROVE  Come(f, p, block, N)
<1> DEFINE var(i) == i > 0 /\ block[i].f = "variable"
           fine(i) == Come(f, p, block, IF var(i) THEN i - 1 ELSE i)
<1>1. ASSUME NEW i \in 1 .. N
      PROVE  /\ block[i].f \in DOMAIN Tags /\ block[i].hex \in {0, 1}
             /\ block[i].hex = 1 => block[i].f \in LongNumber \cup ShortNumber
             /\ IsNumberEntry(block, i) => block[i].param \in Int
             /\ ~IsNumberEntry(block, i) => block[i].param \in Seq(Letter)
             /\ block[i].f = "variable" => i + 1 \in 1 .. N /\ block[i + 1].f = "compileword"
  BY DEF WellFormed
<1>2. fine(0)
  <2>1. p[0] = 0
    BY DEF Laid
  <2>2. f[0] = HtmlFirst
    BY DEF HtmlRounds
  <2>3. IsState(f[0], p[0] + 1, <<>>)
    BY <2>1, <2>2 DEF IsState, HtmlFirst
  <2>4. Lists(<<>>, block, 0)
    BY NoCharacters DEF Lists
  <2>5. 0 \in 0 .. p[0]
    BY <2>1
  <2>6. Come(f, p, block, 0)
    BY <2>3, <2>4, <2>5 DEF Come
  <2> QED
    BY <2>6
<1>3. ASSUME NEW i \in Nat, i + 1 <= N, fine(i) PROVE fine(i + 1)
  <2>1. PICK h \in 1 .. N : h = i + 1 /\ h - 1 = i /\ h > 0
    BY <1>3
  <2>2. CASE var(i)
    <3>1. PICK g \in Nat : g + 1 = i /\ i - 1 = g /\ g + 2 = h /\ g + 2 <= N /\ i \in 1 .. N
      BY <1>3, <2>1, <2>2
    <3>2. Come(f, p, block, g)
      BY <1>3, <2>2, <3>1
    <3>3. block[i].f = "variable" /\ block[h].f = "compileword"
      BY <1>1, <2>1, <2>2, <3>1
    <3>4. ~IsNumberEntry(block, i)
      <4>1. ~(i > 1 /\ block[i - 1].f = "variable")
        <5>1. SUFFICES ASSUME i > 1, block[g].f = "variable" PROVE FALSE
          BY <3>1
        <5>2. g \in 1 .. N
          BY <3>1, <5>1
        <5>3. block[g + 1].f = "compileword"
          BY <1>1, <5>1, <5>2
        <5> QED
          BY <3>1, <3>3, <5>3
      <4>2. block[i].f \notin LongNumber \cup ShortNumber
        BY <3>3 DEF LongNumber, ShortNumber
      <4> QED
        BY <4>1, <4>2 DEF IsNumberEntry
    <3>5. block[i].param \in Seq(Letter) /\ Len(Coded(block[i].param)) < NameBits
      BY <1>1, <3>1, <3>3, <3>4
    <3>6. block[h].hex = 0
      <4>1. block[h].f \notin LongNumber \cup ShortNumber
        BY <3>3 DEF LongNumber, ShortNumber
      <4> QED
        BY <1>1, <4>1
    <3>7. PICK e, v : e = block[i] /\ v = block[h]
      OBVIOUS
    <3>8. /\ e = block[g + 1] /\ v = block[g + 2] /\ e.f = "variable"
          /\ ~IsNumberEntry(block, g + 1) /\ e.param \in Seq(Letter)
          /\ Len(Coded(e.param)) < NameBits /\ v.f = "compileword" /\ v.hex = 0
      BY <3>1, <3>3, <3>4, <3>5, <3>6, <3>7
    <3>9. Come(f, p, block, g + 2)
      BY <3>1, <3>2, <3>8, VariableComes
    <3>10. Come(f, p, block, h) /\ ~var(h)
      BY <3>1, <3>3, <3>9
    <3> QED
      BY <2>1, <3>10
  <2>3. CASE ~var(i)
    <3>1. Come(f, p, block, i)
      BY <1>3, <2>3
    <3>2. CASE var(h)
      BY <2>1, <3>1, <3>2
    <3>3. CASE ~var(h)
      <4>1. PICK e : e = block[i + 1]
        OBVIOUS
      <4>2. e = block[h] /\ e.f # "variable" /\ e.f \in DOMAIN Tags /\ e.hex \in {0, 1}
        BY <1>1, <2>1, <3>3, <4>1
      <4>3. ~(h > 1 /\ block[h - 1].f = "variable")
        BY <2>1, <2>3
      <4>4. IsNumberEntry(block, h) <=> e.f \in LongNumber \cup ShortNumber
        BY <4>2, <4>3 DEF IsNumberEntry
      <4>5. CASE e.f \in LongNumber \cup ShortNumber
        <5>1. e.param \in Int
          BY <1>1, <4>2, <4>4, <4>5
        <5>2. Come(f, p, block, i + 1)
          BY <1>3, <3>1, <4>1, <4>2, <4>5, <5>1, NumberComes
        <5> QED
          BY <2>1, <3>3, <5>2
      <4>6. CASE e.f \notin LongNumber \cup ShortNumber
        <5>1. e.param \in Seq(Letter)
          BY <1>1, <4>2, <4>4, <4>6
        <5>2. ~IsNumberEntry(block, i + 1)
          BY <2>1, <4>4, <4>6
        <5>3. Come(f, p, block, i + 1)
          BY <1>3, <3>1, <4>1, <4>2, <5>1, <5>2, WordComes
        <5> QED
          BY <2>1, <3>3, <5>3
      <4> QED
        BY <4>5, <4>6
    <3> QED
      BY <3>2, <3>3
  <2> QED
    BY <2>2, <2>3
<1> HIDE DEF fine
<1> DEFINE S == {i \in Nat : i <= N => fine(i)}
<1>4. 0 \in S
  BY <1>2
<1>5. ASSUME NEW i \in Nat, i \in S PROVE i + 1 \in S
  <2> SUFFICES ASSUME i + 1 <= N PROVE fine(i + 1)
    OBVIOUS
  <2>1. fine(i)
    BY <1>5
  <2> QED
    BY <1>3, <2>1
<1> HIDE DEF S
<1>6. N \in S
  BY <1>4, <1>5, Induct
<1>7. fine(N)
  BY <1>6 DEF S
<1>8. ~var(N)
  <2>1. SUFFICES ASSUME N > 0, block[N].f = "variable" PROVE FALSE
    OBVIOUS
  <2>2. N \in 1 .. N /\ N + 1 \notin 1 .. N
    BY <2>1
  <2> QED
    BY <1>1, <2>1, <2>2
<1> QED
  BY <1>7, <1>8 DEF fine

(* A cell that is not used is an extension without a letter. *)
LEMMA NothingInNoCell == Unpack(Zeroes(NameBits)) = <<>>
<1>1. PICK w \in Seq(Letter) : w = <<>>
  BY EmptySeq
<1>2. PICK u : u = Coded(w)
  OBVIOUS
<1>3. u = <<>>
  BY <1>1, <1>2, EmptyCoded
<1>4. InName(w)
  <2>1. Len(u) = 0
    BY <1>3
  <2>2. NameBits + 1 .. Len(u) = {}
    BY <2>1 DEF NameBits
  <2> QED
    BY <1>2, <2>2 DEF InName
<1>5. Unpack(Pack(w)) = w
  BY <1>4, UnpackInName
<1>6. Pack(w) = Zeroes(NameBits)
  <2>1. PICK n \in Nat : n = NameBits
    BY DEF NameBits
  <2>2. PICK z : z = Zeroes(n)
    OBVIOUS
  <2>3. z \in Seq(Bit) /\ Len(z) = n
    BY <2>2 DEF Zeroes, Bit
  <2>4. u \o z = z
    BY <1>3, <2>3
  <2>5. SubSeq(z, 1, n) = z
    BY <2>3
  <2> QED
    BY <1>2, <2>1, <2>2, <2>4, <2>5 DEF Pack, Pad
<1> QED
  BY <1>1, <1>5, <1>6

(* The cells behind the last entry leave the page as it is. *)
LEMMA RestStays ==
  ASSUME NEW cells, NEW f, NEW b \in Nat, b = BlockCells, HtmlRounds(f, cells, b),
         NEW block, NEW es, NEW p, NEW N \in Nat, Laid(cells, block, es, p, N),
         \A i \in 1 .. N : ~IsNumberEntry(block, i) => block[i].param \in Seq(Letter),
         Come(f, p, block, N)
  PROVE  Lists(f[b].page, block, N)
<1>1. PICK k0 \in Nat : k0 = p[N] /\ k0 <= b
  <2>1. N \in 0 .. N
    OBVIOUS
  <2> QED
    BY <2>1 DEF Laid
<1> DEFINE stays(s) == \E k \in Nat \ 0 .. k0 : \E page : IsState(s, k, page) /\ Lists(page, block, N)
<1>2. PICK r \in 0 .. k0 : \E page : IsState(f[r], k0 + 1, page) /\ Lists(page, block, N)
  BY <1>1 DEF Come
<1>3. stays(f[r])
  <2>1. PICK page : IsState(f[r], k0 + 1, page) /\ Lists(page, block, N)
    BY <1>2
  <2>2. k0 + 1 \in Nat \ 0 .. k0
    OBVIOUS
  <2> QED
    BY <2>1, <2>2
<1>4. ASSUME NEW i \in Nat, i + 1 <= b, stays(f[i]) PROVE stays(f[i + 1])
  <2>1. PICK k \in Nat \ 0 .. k0 : \E page : IsState(f[i], k, page) /\ Lists(page, block, N)
    BY <1>4
  <2>2. PICK page : IsState(f[i], k, page) /\ Lists(page, block, N)
    BY <2>1
  <2>3. CASE k > b
    <3>1. i + 1 \in 1 .. b /\ (i + 1) - 1 = i
      BY <1>4
    <3>2. f[i + 1] = HtmlNext(cells, f[i])
      BY <3>1 DEF HtmlRounds
    <3>3. f[i + 1] = f[i]
      BY <2>2, <2>3, <3>2 DEF HtmlNext, IsState
    <3> HIDE DEF stays
    <3> QED
      BY <1>4, <3>3
  <2>4. CASE k <= b
    <3>1. k \in k0 + 1 .. b /\ k \in Nat
      BY <2>1, <2>4
    <3>2. cells[k] = NoCell
      BY <1>1, <3>1 DEF Laid
    <3>3. cells[k] = NameCell(0, Zeroes(NameBits))
      BY <3>2 DEF NoCell
    <3>4. Goes(cells, f, i)
      BY <1>4, <2>2, <2>4, <3>1, HtmlStep
    <3>5. IsState(HtmlRound(cells, f[i]), k + 1, GoesOn(page, Unpack(Zeroes(NameBits))))
      BY <2>2, <3>3, HtmlOfExtension
    <3>6. PICK page1 : page1 = GoesOn(page, <<>>)
      OBVIOUS
    <3>7. IsState(f[i + 1], k + 1, page1)
      BY <3>4, <3>5, <3>6, NothingInNoCell DEF Goes
    <3>8. Lists(page1, block, N)
      BY <2>2, <3>6, ListsKept
    <3>9. k + 1 \in Nat \ 0 .. k0
      BY <3>1
    <3> QED
      BY <3>7, <3>8, <3>9
  <2> QED
    BY <2>3, <2>4
<1> HIDE DEF stays
<1> DEFINE S == {d \in Nat : r + d <= b => stays(f[r + d])}
<1>5. 0 \in S
  <2>1. r + 0 = r
    OBVIOUS
  <2> QED
    BY <1>3, <2>1
<1>6. ASSUME NEW d \in Nat, d \in S PROVE d + 1 \in S
  <2> SUFFICES ASSUME r + (d + 1) <= b PROVE stays(f[r + (d + 1)])
    OBVIOUS
  <2>1. PICK i \in Nat : i = r + d /\ i + 1 = r + (d + 1) /\ i <= b
    OBVIOUS
  <2>2. stays(f[i])
    BY <1>6, <2>1
  <2>3. stays(f[i + 1])
    BY <1>4, <2>1, <2>2
  <2> QED
    BY <2>1, <2>3
<1> HIDE DEF S
<1>7. stays(f[b])
  <2>1. PICK d \in Nat : d = b - r
    BY <1>1
  <2>2. r + d = b
    BY <2>1
  <2>3. d \in S
    BY <1>5, <1>6, Induct
  <2> QED
    BY <2>2, <2>3 DEF S
<1>8. PICK page : f[b].page = page /\ Lists(page, block, N)
  BY <1>7 DEF stays, IsState
<1> QED
  BY <1>8

(* The cells of a block are laid on the disk, entry by entry. *)
LEMMA BlockLaid ==
  ASSUME NEW E, NEW text, Meant(text, E), NEW M \in 1 .. Len(text), NEW b \in Nat, b = BlockCells,
         \A m \in 1 .. M : Len(Converted(text)[m]) <= b,
         NEW block, block = text[M], NEW N, N = Len(block)
  PROVE  \E es, p : Laid(DiskBlock(text, M - 1), block, es, p, N)
<1>1. M \in 1 .. M /\ M \in Nat
  OBVIOUS
<1>2. block \in Seq(E) /\ N \in Nat
  BY BlockOf
<1>3. PICK cells : cells = DiskBlock(text, M - 1)
  OBVIOUS
<1>4. PICK conv : conv = Converted(text)[M]
  OBVIOUS
<1>5. cells = Padded(conv)
  BY <1>1, <1>3, <1>4, OnDisk
<1>6. PICK es : es = BlockEntries(text, M)
  OBVIOUS
<1>7. conv = FlattenSeq(es) /\ Len(es) = N /\ \E V : es \in Seq(Seq(V))
  BY <1>1, <1>2, <1>4, <1>6, ConvertedIs
<1>8. PICK V : es \in Seq(Seq(V))
  BY <1>7
<1>9. PICK t \in [0 .. N -> Seq(V)] : FlattensTo(t, es) /\ conv = t[N]
  BY <1>7, <1>8, FlattenIs
<1>10. ASSUME NEW i \in 1 .. N PROVE StandsIn(t[N], t[i - 1], es[i], t[i])
  BY <1>7, <1>8, <1>9, FlattenPlace
<1>11. PICK p : p = [i \in 0 .. N |-> Len(t[i])]
  OBVIOUS
<1>12. ASSUME NEW i \in 0 .. N PROVE p[i] = Len(t[i]) /\ p[i] \in Nat
  <2>1. t[i] \in Seq(V)
    BY <1>9
  <2> QED
    BY <1>11, <2>1
<1>13. Tuple(conv) /\ Len(conv) <= b /\ p[N] = Len(conv)
  <2>1. N \in 0 .. N
    OBVIOUS
  <2>2. conv \in Seq(V)
    BY <1>9, <2>1
  <2> QED
    BY <1>1, <1>4, <1>9, <1>12, <2>1, <2>2 DEF Tuple
<1>14. /\ \A k \in 1 .. p[N] : cells[k] = conv[k]
       /\ \A k \in p[N] + 1 .. b : cells[k] = NoCell
  <2>1. /\ \A k \in 1 .. Len(conv) : Padded(conv)[k] = conv[k]
        /\ \A k \in Len(conv) + 1 .. b : Padded(conv)[k] = NoCell
    BY <1>13, PaddedIs
  <2> QED
    BY <1>5, <1>13, <2>1
<1>15. ASSUME NEW i \in 1 .. N
       PROVE  /\ Len(es[i]) \in Nat /\ p[i] = p[i - 1] + Len(es[i]) /\ p[i] <= p[N]
              /\ \A j \in 1 .. Len(es[i]) : cells[p[i - 1] + j] = es[i][j]
              /\ CellsAre(block, i, es[i])
  <2>1. i \in 0 .. N /\ i - 1 \in 0 .. N /\ N \in 0 .. N
    OBVIOUS
  <2>2. /\ p[i] = Len(t[i]) /\ p[i - 1] = Len(t[i - 1]) /\ p[N] = Len(t[N])
        /\ p[i] \in Nat /\ p[i - 1] \in Nat /\ p[N] \in Nat
    BY <1>12, <2>1
  <2>3. PICK q : q = Len(es[i])
    OBVIOUS
  <2>4. /\ q \in Nat /\ p[i] = p[i - 1] + q /\ p[i] <= p[N]
        /\ \A j \in 1 .. q : t[N][p[i - 1] + j] = es[i][j]
    BY <1>10, <2>2, <2>3 DEF StandsIn
  <2>5. ASSUME NEW j \in 1 .. q PROVE cells[p[i - 1] + j] = es[i][j]
    <3>1. p[i - 1] + j \in 1 .. p[N]
      BY <2>2, <2>4
    <3>2. t[N][p[i - 1] + j] = es[i][j]
      BY <2>4
    <3> QED
      BY <1>9, <1>14, <3>1, <3>2
  <2>6. CellsAre(block, i, es[i])
    <3>1. i \in 1 .. Len(text[M])
      BY <1>2
    <3>2. CellsAre(text[M], i, EntryCells(text, M, i))
      BY <1>1, <3>1, EntryCellsAre
    <3>3. es[i] = EntryCells(text, M, i)
      BY <1>6, <3>1 DEF BlockEntries
    <3> QED
      BY <1>2, <3>2, <3>3
  <2> QED
    BY <2>3, <2>4, <2>5, <2>6
<1>16. Laid(cells, block, es, p, N)
  <2>1. p \in [0 .. N -> Nat]
    BY <1>11, <1>12
  <2>2. p[0] = 0
    <3>1. t[0] = <<>> /\ 0 \in 0 .. N
      BY <1>9 DEF FlattensTo
    <3>2. p[0] = Len(t[0])
      BY <1>12, <3>1
    <3> QED
      BY <3>1, <3>2
  <2>3. p[N] <= BlockCells
    BY <1>13
  <2> QED
    BY <1>14, <1>15, <2>1, <2>2, <2>3 DEF Laid
<1> QED
  BY <1>3, <1>16

(* Whatever the blocks before it are, the last block of a text is listed   *)
(* entry by entry, as it was written.                                      *)
LEMMA LastBlockListed ==
  ASSUME NEW E, NEW text, Meant(text, E), Fitting(text, Len(text))
  PROVE  ListedAsWritten(text, Len(text))
<1>1. PICK M \in Nat : M = Len(text) /\ M \in 1 .. M
  <2>1. PICK T : T = Seq(E)
    OBVIOUS
  <2>2. text \in Seq(T) /\ text # <<>>
    BY <2>1 DEF Meant
  <2>3. Len(text) \in Nat /\ Len(text) # 0
    BY <2>2
  <2> QED
    BY <2>3
<1>2. PICK b \in Nat : b = BlockCells
  BY WordsAssumption
<1>3. PICK block \in Seq(E) : block = text[M] /\ WellFormed(block)
  BY <1>1, BlockOf
<1>4. PICK N \in Nat : N = Len(block)
  OBVIOUS
<1>5. PICK cells : cells = DiskBlock(text, M - 1)
  OBVIOUS
<1>6. PICK es, p : Laid(cells, block, es, p, N)
  <2>1. \A m \in 1 .. M : Len(Converted(text)[m]) <= b
    BY <1>1, <1>2 DEF Fitting
  <2> QED
    BY <1>1, <1>2, <1>3, <1>4, <1>5, <2>1, BlockLaid
<1>7. DOMAIN block = 1 .. N
  BY <1>4
<1>8. \A i \in 1 .. N : block[i].f = "variable" => Len(Coded(block[i].param)) < NameBits
  BY <1>1, <1>3, <1>7 DEF Fitting
<1>9. \A i \in 1 .. N : ~IsNumberEntry(block, i) => block[i].param \in Seq(Letter)
  BY <1>3, <1>7 DEF WellFormed
<1>10. PICK f : Html(cells) = f[b].page /\ HtmlRounds(f, cells, b)
  BY <1>2, HtmlRoundsAre
<1>11. Come(f, p, block, N)
  BY <1>2, <1>3, <1>6, <1>7, <1>8, <1>10, EntriesCome
<1>12. PICK page : page = Html(cells) /\ Lists(page, block, N)
  <2>1. Lists(f[b].page, block, N)
    BY <1>2, <1>6, <1>9, <1>10, <1>11, RestStays
  <2> QED
    BY <1>10, <2>1
<1>13. Len(page) = N /\ DOMAIN page = 1 .. N
  <2>1. PICK W : page \in Seq(W)
    BY <1>12 DEF Lists, Tuple
  <2>2. DOMAIN page = 1 .. Len(page)
    BY <2>1
  <2> QED
    BY <1>12, <2>2 DEF Lists
<1>14. ASSUME NEW i \in 1 .. N
       PROVE  LET e == block[i]
              IN  IF IsNumberEntry(block, i)
                  THEN \/ e.f = "commented_number"
                       \/ page[i].class = IF e.hex = 1 THEN HexFamily[Family(e)] ELSE Family(e)
                  ELSE page[i] = [class |-> Family(e), text |-> e.param]
  <2>1. ListedAs(page[i], block, i)
    BY <1>12 DEF Lists
  <2> QED
    BY <2>1 DEF ListedAs, NumberClass, Element
<1>15. ListedAsWritten(text, M)
  <2>1. Html(DiskBlock(text, M - 1)) = page
    BY <1>5, <1>12
  <2>2. Len(page) = Len(text[M])
    BY <1>3, <1>4, <1>13
  <2> QED
    BY <1>3, <1>13, <1>14, <2>1, <2>2 DEF ListedAsWritten
<1> QED
  BY <1>1, <1>15

-----------------------------------------------------------------------------
(* What is written on the host is a text as it is meant.                   *)

LEMMA WellJoined ==
  ASSUME NEW E, NEW a \in Seq(E), NEW b \in Seq(E), WellFormed(a), WellFormed(b),
         NEW c, c = a \o b
  PROVE  WellFormed(c)
<1>1. PICK p \in Nat, q \in Nat : p = Len(a) /\ q = Len(b)
  OBVIOUS
<1>2. /\ c \in Seq(E) /\ Len(c) = p + q /\ \A j \in 1 .. p : c[j] = a[j]
      /\ \A j \in 1 .. q : c[p + j] = b[j]
  BY <1>1
<1>3. DOMAIN a = 1 .. p /\ DOMAIN b = 1 .. q /\ DOMAIN c = 1 .. p + q
  BY <1>1, <1>2
<1> DEFINE well(block, i) ==
             LET e == block[i]
             IN  /\ e.f \in DOMAIN Tags /\ e.hex \in {0, 1}
                 /\ e.hex = 1 => e.f \in LongNumber \cup ShortNumber
                 /\ IF IsNumberEntry(block, i) THEN e.param \in Int
                    ELSE e.param \in Seq(Letter) \ {<<>>}
                 /\ e.f = "variable" => i + 1 \in DOMAIN block /\ block[i + 1].f = "compileword"
<1>4. /\ \A i \in 1 .. p : well(a, i)
      /\ \A i \in 1 .. q : well(b, i)
  BY <1>3 DEF WellFormed
<1>5. ASSUME NEW i \in 1 .. p PROVE well(c, i)
  <2>1. c[i] = a[i] /\ i \in Nat /\ i <= p
    BY <1>2
  <2>2. i > 1 => c[i - 1] = a[i - 1]
    <3>1. SUFFICES ASSUME i > 1 PROVE c[i - 1] = a[i - 1]
      OBVIOUS
    <3>2. i - 1 \in 1 .. p
      BY <2>1, <3>1
    <3> QED
      BY <1>2, <3>2
  <2>3. IsNumberEntry(c, i) <=> IsNumberEntry(a, i)
    BY <2>1, <2>2 DEF IsNumberEntry
  <2>4. a[i].f = "variable" => i + 1 \in DOMAIN c /\ c[i + 1].f = "compileword"
    <3>1. SUFFICES ASSUME a[i].f = "variable"
                   PROVE  i + 1 \in DOMAIN c /\ c[i + 1].f = "compileword"
      OBVIOUS
    <3>2. i + 1 \in 1 .. p /\ a[i + 1].f = "compileword"
      BY <1>3, <1>4, <3>1
    <3>3. i + 1 \in 1 .. p + q /\ c[i + 1] = a[i + 1]
      BY <1>2, <3>2
    <3> QED
      BY <1>3, <3>2, <3>3
  <2>5. well(a, i)
    BY <1>4
  <2> QED
    BY <2>1, <2>3, <2>4, <2>5
<1>6. ASSUME NEW i \in 1 .. q PROVE well(c, p + i)
  <2>1. c[p + i] = b[i] /\ i \in Nat /\ i <= q
    BY <1>2
  <2>0. PICK k \in Nat : k = p + i
    BY <2>1
  <2>2. (k > 1 /\ c[k - 1].f = "variable") <=> (i > 1 /\ b[i - 1].f = "variable")
    <3>1. CASE i = 1
      <4>1. k - 1 = p /\ (k > 1 <=> p > 0) /\ ~(i > 1)
        BY <2>0, <3>1
      <4>2. ASSUME p > 0, c[p].f = "variable" PROVE FALSE
        <5>1. p \in 1 .. p /\ p + 1 \notin 1 .. p
          BY <4>2
        <5>2. a[p].f = "variable"
          BY <1>2, <4>2, <5>1
        <5> QED
          BY <1>3, <1>4, <5>1, <5>2
      <4> QED
        BY <4>1, <4>2
    <3>2. CASE i # 1
      <4>1. PICK h \in 1 .. q : h = i - 1 /\ p + h = k - 1 /\ k > 1 /\ i > 1
        BY <2>0, <2>1, <3>2
      <4>2. c[p + h] = b[h]
        BY <1>2
      <4> QED
        BY <4>1, <4>2
    <3> QED
      BY <3>1, <3>2
  <2>3. IsNumberEntry(c, p + i) <=> IsNumberEntry(b, i)
    <3>1. IsNumberEntry(c, k) <=> IsNumberEntry(b, i)
      <4>1. c[k] = b[i]
        BY <2>0, <2>1
      <4> QED
        BY <2>2, <4>1 DEF IsNumberEntry
    <3> QED
      BY <2>0, <3>1
  <2>4. b[i].f = "variable" => p + i + 1 \in DOMAIN c /\ c[p + i + 1].f = "compileword"
    <3>1. SUFFICES ASSUME b[i].f = "variable"
                   PROVE  p + i + 1 \in DOMAIN c /\ c[p + i + 1].f = "compileword"
      OBVIOUS
    <3>2. i + 1 \in 1 .. q /\ b[i + 1].f = "compileword"
      BY <1>3, <1>4, <3>1
    <3>3. PICK h \in 1 .. q : h = i + 1 /\ p + h = p + i + 1
      BY <3>2
    <3>4. c[p + h] = b[h] /\ p + h \in 1 .. p + q
      BY <1>2
    <3> QED
      BY <1>3, <3>2, <3>3, <3>4
  <2>5. well(b, i)
    BY <1>4
  <2> QED
    BY <2>1, <2>3, <2>4, <2>5
<1> HIDE DEF well
<1>7. ASSUME NEW i \in DOMAIN c PROVE well(c, i)
  <2>1. i \in 1 .. p + q
    BY <1>3
  <2>2. CASE i <= p
    <3>1. i \in 1 .. p
      BY <2>1, <2>2
    <3> QED
      BY <1>5, <3>1
  <2>3. CASE i > p
    <3>1. PICK h \in 1 .. q : h = i - p
      BY <2>1, <2>3
    <3>2. p + h = i
      BY <2>1, <3>1
    <3>3. well(c, p + h)
      BY <1>6
    <3> QED
      BY <3>2, <3>3
  <2>4. i \in Int
    BY <2>1
  <2> QED
    BY <2>2, <2>3, <2>4
<1> QED
  BY <1>7 DEF well, WellFormed

(* What the texts are made of. *)
ItemEntries == UNION {Range(item) : item \in Items}

LEMMA MeantMore ==
  ASSUME NEW E, NEW text, Meant(text, E), NEW block \in Seq(E), WellFormed(block)
  PROVE  Meant(Append(text, block), E)
<1>1. PICK T : T = Seq(E)
  OBVIOUS
<1>2. text \in Seq(T) /\ block \in T
  BY <1>1 DEF Meant
<1>3. PICK u : u = Append(text, block)
  OBVIOUS
<1>4. PICK n \in Nat : n = Len(text)
  BY <1>2
<1>5. /\ u \in Seq(T) /\ Len(u) = n + 1 /\ u[n + 1] = block
      /\ \A i \in 1 .. n : u[i] = text[i]
  BY <1>2, <1>3, <1>4
<1>6. ASSUME NEW i \in 1 .. n + 1 PROVE WellFormed(u[i])
  <2>1. CASE i = n + 1
    BY <1>5, <2>1
  <2>2. CASE i # n + 1
    <3>1. i \in 1 .. n
      BY <2>2
    <3> QED
      BY <1>4, <1>5, <3>1 DEF Meant
  <2> QED
    BY <2>1, <2>2
<1>7. u # <<>>
  BY <1>5
<1> QED
  BY <1>1, <1>3, <1>5, <1>6, <1>7 DEF Meant

LEMMA MeantLonger ==
  ASSUME NEW E, NEW text, Meant(text, E), NEW item \in Seq(E), WellFormed(item)
  PROVE  Meant(Append(Front(text), Last(text) \o item), E)
<1>1. PICK T : T = Seq(E)
  OBVIOUS
<1>2. text \in Seq(T) /\ text # <<>>
  BY <1>1 DEF Meant
<1>3. PICK d \in Nat : d + 1 = Len(text) /\ Len(text) - 1 = d /\ d + 1 \in 1 .. Len(text)
  <2>1. Len(text) \in Nat /\ Len(text) # 0
    BY <1>2
  <2>2. Len(text) - 1 \in Nat /\ Len(text) \in 1 .. Len(text)
    BY <2>1
  <2> QED
    BY <2>1, <2>2
<1>4. PICK front, last : front = SubSeq(text, 1, d) /\ last = text[d + 1]
  OBVIOUS
<1>5. Front(text) = front /\ Last(text) = last
  BY <1>3, <1>4 DEF Front, Last
<1>6. last \in Seq(E) /\ WellFormed(last)
  BY <1>3, <1>4, BlockOf
<1>7. PICK block \in Seq(E) : block = last \o item /\ WellFormed(block)
  <2>1. PICK c : c = last \o item
    OBVIOUS
  <2>2. WellFormed(c)
    BY <1>6, <2>1, WellJoined
  <2>3. c \in Seq(E)
    BY <1>6, <2>1
  <2> QED
    BY <2>1, <2>2, <2>3
<1>8. front \in Seq(T) /\ Len(front) = d /\ \A i \in 1 .. d : front[i] = text[i]
  BY <1>2, <1>3, <1>4
<1>9. PICK u : u = Append(front, block)
  OBVIOUS
<1>10. block \in T
  BY <1>1
<1>11. /\ u \in Seq(T) /\ Len(u) = d + 1 /\ u[d + 1] = block
       /\ \A i \in 1 .. d : u[i] = front[i]
  BY <1>8, <1>9, <1>10
<1>12. ASSUME NEW i \in 1 .. d + 1 PROVE WellFormed(u[i])
  <2>1. CASE i = d + 1
    BY <1>7, <1>11, <2>1
  <2>2. CASE i # d + 1
    <3>1. i \in 1 .. d /\ i \in 1 .. Len(text)
      BY <1>3, <2>2
    <3>2. u[i] = text[i]
      BY <1>8, <1>11, <3>1
    <3>3. WellFormed(text[i])
      BY <3>1 DEF Meant
    <3> QED
      BY <3>2, <3>3
  <2> QED
    BY <2>1, <2>2
<1>13. u # <<>>
  BY <1>11
<1>14. Meant(u, E)
  BY <1>1, <1>11, <1>12, <1>13 DEF Meant
<1> QED
  BY <1>5, <1>7, <1>9, <1>14

LEMMA EmptyBlock ==
  ASSUME NEW E
  PROVE  <<>> \in Seq(E) /\ WellFormed(<<>>)
<1>1. <<>> \in Seq(E)
  BY EmptySeq
<1>2. DOMAIN <<>> = {}
  OBVIOUS
<1> QED
  BY <1>1, <1>2 DEF WellFormed

LEMMA ItemIs ==
  ASSUME NEW item \in Items
  PROVE  item \in Seq(ItemEntries) /\ WellFormed(item)
<1>1. item \in Seq(Range(item)) /\ WellFormed(item)
  BY DisplayAssumption
<1>2. Range(item) \subseteq ItemEntries
  BY DEF ItemEntries
<1> QED
  BY <1>1, <1>2, LargerSeq

LEMMA MeantBegins == DInit => Meant(source, ItemEntries)
<1> SUFFICES ASSUME DInit PROVE Meant(source, ItemEntries)
  OBVIOUS
<1>1. PICK T : T = Seq(ItemEntries)
  OBVIOUS
<1>2. PICK e \in T : e = <<>> /\ WellFormed(e)
  BY <1>1, EmptyBlock
<1>3. source = <<e>>
  BY <1>2 DEF DInit
<1>4. source \in Seq(T) /\ Len(source) = 1 /\ source[1] = e /\ source # <<>>
  BY <1>3
<1>5. ASSUME NEW n \in 1 .. Len(source) PROVE WellFormed(source[n])
  <2>1. n = 1
    BY <1>4
  <2> QED
    BY <1>2, <1>4, <2>1
<1> QED
  BY <1>1, <1>4, <1>5 DEF Meant

LEMMA MeantStays == Meant(source, ItemEntries) /\ [DNext]_displayVars => Meant(source, ItemEntries)'
<1> SUFFICES ASSUME Meant(source, ItemEntries), [DNext]_displayVars
             PROVE  Meant(source', ItemEntries)
  BY DEF Meant
<1>1. ASSUME NEW item \in Items, AddItem(item) PROVE Meant(source', ItemEntries)
  <2>1. source' = Append(Front(source), Last(source) \o item)
    BY <1>1 DEF AddItem, Text
  <2>2. item \in Seq(ItemEntries) /\ WellFormed(item)
    BY ItemIs
  <2>3. Meant(Append(Front(source), Last(source) \o item), ItemEntries)
    BY <2>2, MeantLonger
  <2> QED
    BY <2>1, <2>3
<1>2. CASE AddBlock
  <2>1. source' = Append(source, <<>>)
    BY <1>2 DEF AddBlock, Text
  <2>2. Meant(Append(source, <<>>), ItemEntries)
    BY EmptyBlock, MeantMore
  <2> QED
    BY <2>1, <2>2
<1>3. CASE Boot
  BY <1>3 DEF Boot
<1>4. CASE booted /\ (PageKey \/ (source = Source /\ KeyOrStep)) /\ UNCHANGED <<source, booted>>
  BY <1>4
<1>5. CASE UNCHANGED displayVars
  BY <1>5 DEF displayVars
<1> QED
  BY <1>1, <1>2, <1>3, <1>4, <1>5 DEF DNext

(* Each block of a text that is written is listed in the page for the      *)
(* browser as it was written, whatever the blocks before it are: neither   *)
(* the converter's cells nor what cf2html.c makes of them lose or move an  *)
(* entry (blocks_converter.py:78, cf2html.c:150).                          *)
THEOREM DisplayHtmlLists == DSpec => []HtmlListsText
<1>1. DInit => Meant(source, ItemEntries)
  BY MeantBegins
<1>2. Meant(source, ItemEntries) /\ [DNext]_displayVars => Meant(source, ItemEntries)'
  BY MeantStays
<1>3. Meant(source, ItemEntries) => HtmlListsText
  BY LastBlockListed DEF HtmlListsText
<1> QED
  BY <1>1, <1>2, <1>3, PTL DEF DSpec
=============================================================================
