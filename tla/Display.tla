------------------------------- MODULE Display -------------------------------
(***************************************************************************)
(* What the editor and the interpreter draw (editor.c, dot_s() and dot()   *)
(* of compiler.c): the page of a block, the prompt, the data stack, the    *)
(* output and the errors of the commands, and the echo of the keys, over   *)
(* the keys of Editor and the steps of Forth.  First the text of the       *)
(* blocks is written on the host; the kernel boots with what the converter *)
(* makes of it.  Wording ("Stack", "Block:", the error) is a symbol each.  *)
(***************************************************************************)
EXTENDS Editor, Screen, Printing, Converter

CONSTANTS
  Source,        \* bound: with another text only the page keys are hit
  Items,         \* bound: what a text is made of, entries and variables with their value
  MaxEntries,    \* bound: entries of a text other than Source
  BlockColumn,   \* where the number of the block is written, 65
  MaxKeys        \* bound: keys from one page key to the next, letters not counted

(* The lines of the screen: 18, 21, 22 and 23. *)
OutputLine == Lines - 7
PromptLine == Lines - 4
ErrorLine  == Lines - 3
StackLine  == Lines - 2

StackLabel == 50
BlockLabel == 51
PromptSign == 52
ErrorText  == 53

ASSUME DisplayAssumption ==
  /\ Lines > 7 /\ BlockColumn \in 1 .. Columns - 1 /\ MaxKeys \in Nat
  /\ Columns * (Lines - 1) >= 32   \* the page has the room for char word[32],
  /\ 3 * Columns >= CellBits + 3   \* the lines of the output that for a number,
  /\ Len(Source) \in Nat           \* and the line of the stack that for a block's
  /\ \A n \in 0 .. Len(Source) : BlockColumn + 1 + Len(Itoa(n, 10)) < Columns
  /\ StackSize < 2 ^ (CellBits - 1)
  /\ \A item \in Items : item \in Seq(Range(item)) /\ WellFormed(item)

VARIABLES source,  \* the text on the host
          booted,
          isHex,   \* is_hex, the base the stack is shown in
          keys,    \* keys since the page was shown
          whole    \* history: the word began on the page and has letters only, in a row

displayVars == <<vars, screen, source, booted, isHex, keys, whole>>

-----------------------------------------------------------------------------
(* printf() and the like: characters one after the other. *)
Write(s, chars) ==
  LET after[i \in 0 .. Len(chars)] ==
        IF i = 0 THEN s ELSE DisplayCharacter(after[i - 1], chars[i])
  IN  after[Len(chars)]

PrintNumber(v, hex) == IF hex = 1 THEN PrintHex(v) ELSE PrintDec(v)

(* blocks[i] *)
CellAt(disk, i) == disk[i \div BlockCells][(i % BlockCells) + 1]

(* Mutant: an extension is not joined to the word. *)
DisplayWord_Apart(s, disk, i) ==
  LET c == CellAt(disk, i) IN Write(s, Unpack(NameOf(c)) \o <<Space>>)

(* display_word(): an extension takes the place of the blank before it;    *)
(* the data of a number is in the next cell.                               *)
DisplayWord(s, disk, i) ==
  LET c      == CellAt(disk, i)
      name   == Unpack(NameOf(c)) \o <<Space>>
      data   == PrintNumber(NumberOf(CellAt(disk, i + 1)), HexBit(c)) \o <<Space>>
      number == PrintNumber(c.cell \div 32, HexBit(c)) \o <<Space>>
  IN  CASE c.color = 0            -> Write(UpdateCursor(UpdatePosition(s, -1, 0)), name)
        [] c.color \in {2, 5}     -> Write(s, data)
        [] c.color \in {6, 8, 15} -> Write(s, number)
        [] c.color = 12           -> Write(s, name \o data)
        [] c.color = 13           -> s
        [] c.color = 14           -> Write(s, <<Newline>>)
        [] OTHER                  -> Write(s, name)

(* The words of a block on a clear screen: display_word() may take the     *)
(* next cell too, and the last one the first of the next block.            *)
BlockWords(disk, n) ==
  LET limit == (n + 1) * BlockCells
      rounds[k \in 0 .. BlockCells] ==
        IF k = 0 THEN [index |-> n * BlockCells, page |-> Clear]
        ELSE LET r == rounds[k - 1]
             IN  IF r.index >= limit THEN r
                 ELSE [index |-> r.index
                         + (IF CellAt(disk, r.index).color \in {2, 5, 12} THEN 2 ELSE 1),
                       page |-> DisplayWord(r.page, disk, r.index)]
  IN  rounds[BlockCells].page

(* Mutant: the cursor that blinks stays behind. *)
CommandPrompt_NotShown(s) == SetPosition(s, 2, PromptLine)

CommandPrompt(s) == UpdateCursor(SetPosition(s, 2, PromptLine))

(* Mutant: the line is left as it is. *)
EraseStack_Nothing(s) == CommandPrompt(s)

(* erase_stack(): the stack's line and the cell behind it. *)
EraseStack(s) ==
  CommandPrompt(Filled(s, Address(0, StackLine), Address(0, StackLine + 1), Space))

(* Mutant: only the prompt's line is erased. *)
CommandPromptErase_OneLine(s) ==
  CommandPrompt(Filled(s, Address(1, PromptLine), Address(Columns - 1, PromptLine) - 1, Space))

(* command_prompt_erase(): all but the prompt, and the line of the errors. *)
CommandPromptErase(s) ==
  CommandPrompt(Filled(s, Address(1, PromptLine), Address(Columns - 1, ErrorLine), Space))

StackText(st, hex) ==
  <<StackLabel>> \o Itoa(Len(st), 10) \o <<Space>>
  \o FlattenSeq([i \in DOMAIN st |-> Itoa(st[i], IF hex THEN 16 ELSE 10) \o <<Space>>])

(* dot_s() *)
DotS(s, st, hex) ==
  Write(SetPosition(EraseStack(s), 0, ErrorLine),
        <<Newline>> \o StackText(st, hex) \o <<Newline>>)

DisplayCommandPrompt(s, st, hex) ==
  DotS(Write(SetPosition(s, 0, PromptLine), <<PromptSign, Space>>), st, hex)

(* status_bar_update_block_number() *)
StatusBar(s, n) ==
  UpdateCursor(SetPosition(
    Write(SetPosition(s, BlockColumn, StackLine), <<BlockLabel>> \o Itoa(n, 10) \o <<Newline>>),
    0, 0))

(* display_block() *)
DisplayBlock(disk, n, st, hex) ==
  StatusBar(DisplayCommandPrompt(BlockWords(disk, n), st, hex), n)

-----------------------------------------------------------------------------
DInit ==
  /\ Init /\ ScreenInit
  /\ source = << <<>> >> /\ booted = FALSE
  /\ isHex = FALSE /\ keys = 0 /\ whole = TRUE

(* A text grows at its end. *)
Bounded(text) ==
  \/ Len(FlattenSeq(text)) <= MaxEntries
  \/ /\ Len(text) <= Len(Source)
     /\ \A n \in DOMAIN text : IsPrefix(text[n], Source[n])

Text(text) ==
  /\ ~booted /\ Bounded(text) /\ source' = text
  /\ UNCHANGED <<vars, screen, booted, isHex, keys, whole>>

AddItem(item) == Text(Append(Front(source), Last(source) \o item))

AddBlock == Len(source) < Len(Source) /\ Text(Append(source, <<>>))

(* editor() *)
Boot ==
  /\ ~booted /\ booted' = TRUE
  /\ LET disk == [n \in 0 .. Len(source) - 1 |-> DiskBlock(source, n)]
     IN  blocks' = disk /\ screen' = DisplayBlock(disk, 0, <<>>, FALSE)
  /\ UNCHANGED <<stack, frames, broken, editorVars, source, isHex, keys, whole>>

(* The word begins anew, goes on, or something else came in between. *)
Follow == whole' = (word' = <<>> \/ (whole /\ word' = word))

Key == keys < MaxKeys /\ keys' = keys + 1

Draws(s) == Key /\ screen' = s /\ UNCHANGED isHex

(* Bound: the page is edited while there is nothing on the stack. *)
Edits(s) == stack = <<>> /\ Draws(s)

(* Enter, backspace, tab and the characters that are not in the code, one  *)
(* of which stands for all; the arrows, and space while editing.           *)
ControlKey(c) == Control /\ Edits(DisplayCharacter(screen, c)) /\ whole' = FALSE

BlankKey == Blank /\ Edits(DisplayCharacter(screen, Space)) /\ Follow

ArrowKey(dx, dy) ==
  /\ OtherKey
  /\ Edits(UpdateCursor(UpdatePosition(screen, dx, dy)))
  /\ whole' = (word = <<>>)

(* A letter is echoed where the cursor is, whatever the mode.  Behind the   *)
(* last column it goes to the next line, and the one after it on top of it. *)
LetterKey(w) ==
  /\ Type(w)
  /\ screen' = DisplayCharacter(screen, w[Len(word')])
  /\ whole' = (whole /\ screen.x < Columns)
  /\ UNCHANGED <<isHex, keys>>

(* After ESC a letter selects a color; 'e' also goes back to the page. *)
EscapeKey == Escape /\ Draws(screen) /\ UNCHANGED whole

ColorKey(k) == Select(k) /\ k # LetterE /\ UNCHANGED <<screen, isHex, keys, whole>>

LeaveKey ==
  /\ Select(LetterE)
  /\ screen' = UpdateCursor(SetPosition(screen, 0, 0))
  /\ whole' = (word = <<>>)
  /\ UNCHANGED <<isHex, keys>>

(* The stack is shown in the other base. *)
F1Key ==
  /\ Waiting /\ Key /\ UNCHANGED vars
  /\ isHex' = ~isHex
  /\ screen' = DotS(screen, stack, isHex')
  /\ whole' = (word = <<>>)

F2Key ==
  /\ F2 /\ Draws(CommandPrompt(screen))
  /\ whole' = (word = <<>>)

PageKey ==
  /\ PageUp \/ PageDown
  /\ screen' = DisplayBlock(blocks, nbBlock', stack, isHex)
  /\ keys' = 0 /\ whole' = (word = <<>>)
  /\ UNCHANGED isHex

(* No page beyond the first and the last. *)
NoPageKey ==
  /\ OtherKey /\ (nbBlock - 1 = -1 \/ nbBlock + 1 > TotalBlocks - 1)
  /\ UNCHANGED <<screen, isHex, keys, whole>>

(* What dispatch_word() of a cell writes: dot(). *)
Said(c) ==
  IF c.color = WordTag /\ Lookup(NameOf(c)) = "dot" /\ Pops(1)
  THEN Itoa(FromTop(0), 10) \o <<Space>> ELSE <<>>

(* Once the interpreter is back, the stack and the prompt are drawn. *)
Answered(s) ==
  IF frames' = <<>> /\ ~broken' THEN CommandPrompt(DotS(s, stack', isHex)) ELSE s

(* do_cmd(); a word that is not found leaves the stack alone. *)
CommandKey ==
  /\ Command
  /\ LET erased == CommandPromptErase(screen)
         output == SetPosition(erased, 0, OutputLine)
     IN  screen' =
           IF NoLetter \in Range(word) THEN screen
           ELSE IF IsNumber(word) THEN Answered(erased)
           ELSE IF Lookup(Pack(word)) = "none"
           THEN CommandPrompt(Write(SetPosition(output, 0, ErrorLine), <<ErrorText>>))
           ELSE Answered(Write(output, Said(Word(Pack(word)))))
  /\ Key /\ whole' = TRUE
  /\ UNCHANGED isHex

RunStep ==
  /\ Go
  /\ LET f == Last(frames)
         said == IF f.kind = "run" /\ f.to < BlockCells THEN Said(blocks[f.at][f.to]) ELSE <<>>
     IN  screen' = Answered(Write(screen, said))
  /\ UNCHANGED <<isHex, keys, whole>>

KeyOrStep ==
  \/ \E c \in {Newline, Backspace, Tab, NoLetter} : ControlKey(c)
  \/ \E dx, dy \in {-1, 0, 1} : dx * dy = 0 /\ dx # dy /\ ArrowKey(dx, dy)
  \/ \E w \in Vocabulary : LetterKey(w)
  \/ \E k \in ColorLetter : ColorKey(k)
  \/ BlankKey \/ EscapeKey \/ LeaveKey \/ F1Key \/ F2Key \/ NoPageKey
  \/ CommandKey \/ RunStep

DNext ==
  \/ \E item \in Items : AddItem(item)
  \/ AddBlock \/ Boot
  \/ booted /\ (PageKey \/ (source = Source /\ KeyOrStep)) /\ UNCHANGED <<source, booted>>

DSpec == DInit /\ [][DNext]_displayVars

-----------------------------------------------------------------------------
(* vga_set_position() does not move the cursor that blinks: every key and  *)
(* every command has to end with vga_update_cursor() (vga.c:52, 84).       *)
CursorShown == booted /\ Waiting => screen.hw = Address(screen.x, screen.y)

(* The word that the space bar will run is the one in front of the cursor, *)
(* as long as only letters were keyed since it began (editor.c:146-195):   *)
(* the arrows, backspace, F1, F2 and the page keys leave it in the buffer. *)
(* It has to begin on the page: a tab or an arrow may put the position on  *)
(* the column behind the last one (vga.c:90, 140).                         *)
WordShown ==
  whole /\ screen.led = 0 =>
    \A i \in DOMAIN word : screen.text[Address(screen.x, screen.y) - Len(word) + i - 1] = word[i]

-----------------------------------------------------------------------------
(* What the line of the stack is meant to say.  A longer one than the line *)
(* scrolls the page. *)
StackMeant(st, hex) ==
  <<StackLabel>> \o Decimal(Len(st)) \o <<Space>>
  \o FlattenSeq([i \in DOMAIN st |->
        (IF hex THEN Hexadecimal(st[i]) ELSE Decimal(st[i])) \o <<Space>>])

(* The page as the author of a block reads it, one entry after the other.  *)
Shown(block, i) ==
  LET e == block[i]
      numeral == IF e.hex = 1 THEN Hexadecimal(e.param) ELSE Decimal(e.param)
  IN  CASE e.f = "display_macro"     -> <<Newline>>
        [] e.f = "compiler_feedback" -> <<>>
        [] IsNumberEntry(block, i)   -> numeral \o <<Space>>
        [] OTHER                     -> e.param \o <<Space>>

(* Where the characters go on the lines, and the place after the last one. *)
Places(chars) ==
  LET at[i \in 1 .. Len(chars) + 1] ==
        IF i = 1 THEN 0
        ELSE LET place == at[i - 1]
             IN  IF chars[i - 1] = Newline THEN (place \div Columns + 1) * Columns ELSE place + 1
  IN  at

(* A number is shown as it was written if its cell has the bits for it; a  *)
(* hexadecimal one may be written without a sign, and the least number has *)
(* no decimal numeral.                                                     *)
NumberFits(e) ==
  LET limit == 2 ^ (CellBits - 1)
      data  == IF e.hex = 1 THEN -limit .. 2 * limit - 1 ELSE CellRange \ {-limit}
  IN  IF e.f \in ShortNumber THEN 32 * e.param \in CellRange ELSE e.param \in data

(* The text has to fit above the prompt.  A word that goes on in the next  *)
(* cell has to stand on one line, and is no compiler_feedback: that hides  *)
(* its first cell only.                                                    *)
Readable(block, at) ==
  LET end(i) == at[Len(FlattenSeq([k \in 1 .. i |-> Shown(block, k)])) + 1]
  IN  /\ end(Len(block)) <= PromptLine * Columns
      /\ \A i \in DOMAIN block :
           IF IsNumberEntry(block, i) THEN NumberFits(block[i])
           ELSE Len(Parts(block[i].param)) > 1 =>
                  /\ block[i].f # "compiler_feedback"
                  /\ end(i - 1) \div Columns = end(i) \div Columns

(* The page shows the text of the block, as it was written on the host:    *)
(* the converter's cells and what display_word() makes of them, the names  *)
(* that go on in a second cell and the numbers with their data apart, are  *)
(* the author's words (editor.c:351, 539, blocks_converter.py:109).        *)
BlockReads(text, n, page) ==
  LET block == text[n]
      chars == FlattenSeq([i \in DOMAIN block |-> Shown(block, i)])
      at    == Places(chars)
      used  == {i \in DOMAIN chars : chars[i] # Newline}
  IN  Fitting(text, n) /\ Readable(block, at) =>
        /\ \A i \in used : page[at[i]] = chars[i]
        /\ \A a \in (0 .. PromptLine * Columns - 1) \ {at[i] : i \in used} :
             page[a] = Space

BlockShown ==
  [][(booted' # booted \/ nbBlock' # nbBlock) /\ Len(StackText(stack, isHex)) < Columns
       => BlockReads(source', nbBlock' + 1, screen'.text)]_displayVars

(* The line says so, where it has the room and itoa() has the numerals. *)
StackReads(st, hex, page) ==
  LET chars == StackMeant(st, hex)
  IN  /\ Len(chars) <= BlockColumn
      /\ \A i \in DOMAIN st :
           st[i] \in CellRange \ {-(2 ^ (CellBits - 1))} /\ (hex => st[i] >= 0)
      => \A c \in 0 .. BlockColumn - 1 :
           page[Address(c, StackLine)] = IF c < Len(chars) THEN chars[c + 1] ELSE Space

(* Once a command has changed the stack, the base was changed or a page    *)
(* was shown, the line of the stack says what is on the stack, and nothing *)
(* is left of what it said before (compiler.c:115-139, editor.c:480).      *)
StackShown ==
  [][(stack' # stack \/ frames' # frames \/ isHex' # isHex \/ nbBlock' # nbBlock) /\ Waiting'
       => StackReads(stack', isHex', screen'.text)]_displayVars

LineReads(page, line, from, chars) ==
  \A c \in from .. Columns - 1 :
    page[Address(c, line)] = IF c - from < Len(chars) THEN chars[c - from + 1] ELSE Space

(* When a command is over, be it a number, a word, a block that was loaded *)
(* or a word that is not found, the next one is typed on an empty line     *)
(* behind the prompt, and the line below has the error if there is one     *)
(* (editor.c:40-71, 518), unless the stack's line scrolls the page or the  *)
(* output of a block is longer than the three lines it has.                *)
PromptReady ==
  [][(CommandKey \/ (RunStep /\ screen.y < PromptLine))
       /\ Waiting' /\ Len(StackText(stack', isHex)) < Columns =>
       LET unknown == Named /\ Lookup(Pack(word)) = "none"
       IN  /\ screen'.x = 2 /\ screen'.y = PromptLine
           /\ LineReads(screen'.text, PromptLine, 1, <<>>)
           /\ LineReads(screen'.text, ErrorLine, 0, IF unknown THEN <<ErrorText>> ELSE <<>>)]_displayVars

(* Each block of a text that is written is listed in the page for the      *)
(* browser, whatever the blocks before it are (blocks_converter.py:78,     *)
(* cf2html.c:150).                                                         *)
HtmlListsText ==
  ~booted /\ Fitting(source, Len(source)) => ListedAsWritten(source, Len(source))
=============================================================================
