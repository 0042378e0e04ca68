------------------------------ MODULE Converter ------------------------------
(***************************************************************************)
(* The host side of the RAM disk: blocks_converter.py turns the text of    *)
(* the blocks into cells, cf2html.c lists cells as a page for a browser.   *)
(* A text is a sequence of blocks, a block a sequence of entries, each a   *)
(* function (a color) of a word or of a number.  A cell has its tag in the *)
(* field color, and the rest in name (28 bits) or in cell (all CellBits    *)
(* bits of it).  The words are not empty and have no blanks.               *)
(***************************************************************************)
EXTENDS Words

(* The functions, by their tag. *)
Tags == [execute |-> 1, executelong |-> 2, define |-> 3, compileword |-> 4, compilelong |-> 5,
         compileshort |-> 6, compilemacro |-> 7, executeshort |-> 8, text |-> 9,
         textcapitalized |-> 10, textallcaps |-> 11, variable |-> 12,
         compiler_feedback |-> 13, display_macro |-> 14, commented_number |-> 15]

LongNumber  == {"executelong", "compilelong"}
ShortNumber == {"compileshort", "executeshort", "commented_number"}

(* hex is 1 for the functions that begin with hex_. *)
Entry(f, hex, param) == [f |-> f, hex |-> hex, param |-> param]

-----------------------------------------------------------------------------
(* Mutant: a letter may lose a bit that is not zero. *)
Fits_Lossy(part, k) ==
  LET room == NameBits - Len(Coded(part))
  IN  room > 0 /\ \A i \in room + 2 .. CodeLength(k) : CodeOf(k)[i] = 0

(* A letter that is too long for the name may lose zeroes at its end. *)
Fits(part, k) ==
  LET room == NameBits - Len(Coded(part))
  IN  room > 0 /\ \A i \in room + 1 .. CodeLength(k) : CodeOf(k)[i] = 0

(* word_to_long_array(): the parts of a word, one for each cell it takes. *)
Parts(word) ==
  LET upto[i \in 0 .. Len(word)] ==
        IF i = 0 THEN << <<>> >>
        ELSE LET parts == upto[i - 1]
             IN  IF Fits(Last(parts), word[i])
                 THEN Append(Front(parts), Append(Last(parts), word[i]))
                 ELSE Append(parts, <<word[i]>>)
  IN  upto[Len(word)]

NameCell(tag, name) == [color |-> tag, name |-> name]
Tagged(tag, hex, n) == [color |-> tag, cell |-> Signed(32 * n + 16 * hex + tag)]
DataCell(v)         == [color |-> v % 16, cell |-> Signed(v)]
NoCell              == NameCell(0, Zeroes(NameBits))

(* self.in_variable after the entries: the first compileword after a       *)
(* variable is its value.                                                  *)
InVariable(entries) ==
  \E j \in DOMAIN entries :
    /\ entries[j].f = "variable"
    /\ \A k \in j + 1 .. Len(entries) : entries[k].f # "compileword"

(* The cells of an entry that comes after others. *)
CellsOf(e, before) ==
  LET tag == Tags[e.f] IN
  CASE e.f \in LongNumber  -> <<Tagged(tag, e.hex, 0), DataCell(e.param)>>
    [] e.f \in ShortNumber -> <<Tagged(tag, e.hex, e.param)>>
    [] e.f = "compileword" /\ InVariable(before) -> <<DataCell(e.param)>>
    [] OTHER -> LET parts == Parts(e.param)
                IN  [i \in DOMAIN parts |-> NameCell(IF i = 1 THEN tag ELSE 0, Pack(parts[i]))]

(* block_action(): a block that is too long is kept as it is. *)
Padded(cells) == cells \o [i \in 1 .. BlockCells - Len(cells) |-> NoCell]

(* The cells of each block of a text. *)
Converted(text) ==
  LET before(n, i) == FlattenSeq(SubSeq(text, 1, n - 1)) \o SubSeq(text[n], 1, i - 1)
  IN  [n \in DOMAIN text |->
         FlattenSeq([i \in DOMAIN text[n] |-> CellsOf(text[n][i], before(n, i))])]

Disk(text) == FlattenSeq([n \in DOMAIN text |-> Padded(Converted(text)[n])])

(* What the kernel and cf2html.c find on the disk: cells 256 n and up. *)
DiskBlock(text, n) == SubSeq(Disk(text), n * BlockCells + 1, (n + 1) * BlockCells)

-----------------------------------------------------------------------------
(* function[] of cf2html.c, from 0. *)
Classes == <<
  "extension", "execute", "execute", "define", "compile", "compile", "compile", "compilemacro",
  "execute", "text", "textcapitalized", "textallcaps",
  "variable", "compiler_feedback", "display_macro", "commented_number",
  "", "", "executehex", "", "", "compilehex", "compilehex", "", "executehex", "", "", "",
  "executehex", "", "", "", "", "", "", "commented_number" >>

(* print_hex() and print_dec() return before they come to the digits. *)
HtmlNumber(n) == IF n = 0 THEN <<Zero>> ELSE <<>>

(* print_tags(), with five bits of the tag of a number. *)
HtmlClass(c) == Classes[(c.cell % 32) + 1]

Element(class, text) == [class |-> class, text |-> text]

(* print_text() of an extension goes on in the element before it. *)
GoesOn(page, name) ==
  IF page = <<>> THEN page
  ELSE Append(Front(page), Element(Last(page).class, Last(page).text \o name))

(* The loop of main(): the cell it is at, or that and the one after it. *)
HtmlRound(cells, s) ==
  LET c     == cells[s.at]
      name  == Unpack(NameOf(c))
      ends  == s.at = BlockCells
      data  == IF ends THEN <<>> ELSE HtmlNumber(NumberOf(cells[s.at + 1]))
      puts(n, elements) == [at |-> s.at + n, page |-> s.page \o elements]
  IN  CASE c.color = 0            -> [at |-> s.at + 1, page |-> GoesOn(s.page, name)]
        [] c.color \in {2, 5}     -> puts(2, <<Element(HtmlClass(c), data)>>)
        [] c.color \in {6, 8, 15} -> puts(1, <<Element(HtmlClass(c), HtmlNumber(c.cell \div 32))>>)
        [] c.color = 12           -> puts(2, <<Element("variable", name)>>
                                             \o (IF ends THEN <<>> ELSE <<Element("compile", data)>>))
        [] OTHER                  -> puts(1, <<Element(Classes[c.color + 1], name)>>)

(* The elements of the page, each with the text that is put in it until    *)
(* the next one begins.                                                    *)
Html(cells) ==
  LET rounds[k \in 0 .. BlockCells] ==
        IF k = 0 THEN [at |-> 1, page |-> <<>>]
        ELSE LET s == rounds[k - 1]
             IN  IF s.at > BlockCells THEN s ELSE HtmlRound(cells, s)
  IN  rounds[BlockCells].page

-----------------------------------------------------------------------------
(* The reference, as the author of the text sees it: an entry of the text  *)
(* is an element of its family, with the word in it.                       *)
Family(e) ==
  CASE e.f \in {"execute", "executelong", "executeshort"} -> "execute"
    [] e.f \in {"compileword", "compilelong", "compileshort"} -> "compile"
    [] OTHER -> e.f

HexFamily == [execute |-> "executehex", compile |-> "compilehex"]

IsNumberEntry(block, i) ==
  \/ block[i].f \in LongNumber \cup ShortNumber
  \/ i > 1 /\ block[i - 1].f = "variable"

(* A text as it is meant: a word or a number after each function, decimal  *)
(* but for the functions of numbers, and a value after each variable.      *)
WellFormed(block) ==
  \A i \in DOMAIN block :
    LET e == block[i]
    IN  /\ e.f \in DOMAIN Tags /\ e.hex \in {0, 1}
        /\ e.hex = 1 => e.f \in LongNumber \cup ShortNumber
        /\ IF IsNumberEntry(block, i) THEN e.param \in Int
           ELSE e.param \in Seq(Letter) \ {<<>>}
        /\ e.f = "variable" => i + 1 \in DOMAIN block /\ block[i + 1].f = "compileword"

(* What the tools do not check, and the text has to respect: the blocks    *)
(* fit their cells; the name of a variable fits one cell, and leaves alone *)
(* its last bit, which is taken for the hexadecimal bit of the value.      *)
Fitting(text, n) ==
  /\ \A m \in 1 .. n : Len(Converted(text)[m]) <= BlockCells
  /\ \A i \in DOMAIN text[n] :
       text[n][i].f = "variable" => Len(Coded(text[n][i].param)) < NameBits

(* The page for the browser has an element for each entry of block n, in   *)
(* the color of its function, with its word.  (Of the numbers it has only  *)
(* the zeroes, and a hexadecimal comment has no color.)                    *)
ListedAsWritten(text, n) ==
  LET html == Html(DiskBlock(text, n - 1))
  IN  /\ Len(html) = Len(text[n])
      /\ \A i \in DOMAIN html :
           LET e == text[n][i]
           IN  IF IsNumberEntry(text[n], i)
               THEN \/ e.f = "commented_number"
                    \/ html[i].class = IF e.hex = 1 THEN HexFamily[Family(e)] ELSE Family(e)
               ELSE html[i] = [class |-> Family(e), text |-> e.param]
=============================================================================
