-------------------------------- MODULE Editor --------------------------------
(***************************************************************************)
(* The keys of the block editor (editor.c): a page of the RAM disk on the  *)
(* screen, a word being typed, and the command mode in which a word is run *)
(* when the space bar is hit.  A key is handled when the interpreter has   *)
(* come back from the one before: both are the editor thread.              *)
(***************************************************************************)
EXTENDS Forth

CONSTANT Vocabulary   \* bound: only prefixes of these words are typed

(* The letters that need Shift, which the keyboard driver does not handle. *)
Shifted == {41, 42, 43, 44, 45, 47}

(* char word[32] is never checked, and pack() is defined up to 32 bits. *)
ASSUME EditorAssumption ==
  \A w \in Vocabulary :
    /\ w \in Seq(Letter \ Shifted) /\ Len(w) < 32
    /\ Len(Coded(w)) <= 32

VARIABLES isCommand,  \* is_command
          escape,     \* the last key was ESC
          word,       \* the word typed so far
          nbBlock     \* nb_block, the block on the screen

editorVars == <<isCommand, escape, word, nbBlock>>
vars == <<forthVars, editorVars>>

Init ==
  /\ ForthInit
  /\ isCommand = FALSE /\ escape = FALSE /\ word = <<>> /\ nbBlock = 0

(* console_read() gives the editor a key. *)
Waiting == frames = <<>> /\ ~broken

-----------------------------------------------------------------------------
Escape ==
  /\ Waiting
  /\ escape' = TRUE
  /\ UNCHANGED <<forthVars, isCommand, word, nbBlock>>

(* What was typed before F2 is still in the buffer. *)
F2 ==
  /\ Waiting
  /\ isCommand' = TRUE
  /\ UNCHANGED <<forthVars, escape, word, nbBlock>>

(* 'r', 'y', 'g', 'c', 'm', 'w': a color, after ESC. *)
ColorLetter == {1, 11, 13, 10, 9, 15}
LetterE == 4

Select(k) ==
  /\ Waiting /\ escape
  /\ isCommand' = (isCommand /\ k # LetterE)
  /\ escape' = FALSE
  /\ UNCHANGED <<forthVars, word, nbBlock>>

(* The next letter of w. *)
Type(w) ==
  /\ Waiting /\ IsStrictPrefix(word, w)
  /\ LET k == w[Len(word) + 1]
     IN  ~(escape /\ k \in ColorLetter \cup {LetterE}) /\ word' = Append(word, k)
  /\ escape' = FALSE
  /\ UNCHANGED <<forthVars, isCommand, nbBlock>>

(* Enter, backspace, tab, Shift, '=' and the other keys whose character is *)
(* not in the code end up in the word like letters.  Bound: one after the  *)
(* other.                                                                  *)
NoLetter == 48

Control ==
  /\ Waiting /\ (word # <<>> => Last(word) # NoLetter)
  /\ word' = Append(word, NoLetter) /\ escape' = FALSE
  /\ UNCHANGED <<forthVars, isCommand, nbBlock>>

(* Mutant: the word is not forgotten. *)
Blank_Kept ==
  /\ Waiting /\ ~isCommand
  /\ escape' = FALSE
  /\ UNCHANGED <<forthVars, isCommand, word, nbBlock>>

(* Space while editing: the word is forgotten. *)
Blank ==
  /\ Waiting /\ ~isCommand
  /\ word' = <<>> /\ escape' = FALSE
  /\ UNCHANGED <<forthVars, isCommand, nbBlock>>

Named == ~IsNumber(word) /\ NoLetter \notin Range(word)

(* Space in command mode: do_cmd() runs a number or a built-in word.  What *)
(* pack() makes of a character without a code depends on an address.       *)
Command ==
  /\ Waiting /\ isCommand
  /\ word' = <<>> /\ escape' = FALSE
  /\ UNCHANGED <<isCommand, nbBlock>>
  /\ \/ NoLetter \in Range(word) /\ Breaks
     \/ IsNumber(word) /\ Dispatch(Number(Atoi(word)), <<>>)
     \/ Named /\ Lookup(Pack(word)) # "none" /\ Dispatch(Word(Pack(word)), <<>>)
     \/ Named /\ Lookup(Pack(word)) = "none" /\ UNCHANGED forthVars

Show(n) ==
  /\ nbBlock' = n /\ escape' = FALSE
  /\ UNCHANGED <<forthVars, isCommand, word>>

PageUp == Waiting /\ nbBlock - 1 # -1 /\ Show(nbBlock - 1)

TotalBlocks == Cardinality(DOMAIN blocks)

(* Mutant: a block more than there are. *)
PageDown_OffByOne == Waiting /\ nbBlock + 1 <= TotalBlocks /\ Show(nbBlock + 1)

PageDown == Waiting /\ nbBlock + 1 <= TotalBlocks - 1 /\ Show(nbBlock + 1)

(* The arrows, and the pages beyond the ends, only end the ESC. *)
OtherKey == Waiting /\ Show(nbBlock)

Edit ==
  \/ Escape \/ F2 \/ Control \/ Blank \/ PageUp \/ PageDown \/ OtherKey
  \/ \E k \in ColorLetter \cup {LetterE} : Select(k)
  \/ \E w \in Vocabulary : Type(w)

Go == Interpret /\ UNCHANGED editorVars

Next == Edit \/ Command \/ Go

(* The scheduler gives the editor's thread its turns. *)
Spec == Init /\ [][Next]_vars /\ WF_vars(Go)

-----------------------------------------------------------------------------
(* The data stack stays in its array, the page on the screen is on the     *)
(* disk, and the calls that are open are of blocks of the disk.            *)
TypeOK ==
  /\ stack \in Seq(CellRange) /\ Len(stack) <= StackSize
  /\ \A i \in DOMAIN frames : frames[i].kind = "run" =>
        frames[i].at \in DOMAIN blocks /\ frames[i].to \in 1 .. BlockCells
  /\ isCommand \in BOOLEAN /\ escape \in BOOLEAN /\ broken \in BOOLEAN
  /\ word \in Seq(Letter \cup {NoLetter})
  /\ nbBlock \in DOMAIN blocks

(* pack() loses nothing of a word that fits its 28 bits: unpack(), which   *)
(* writes it on the screen, gives the same letters back.                   *)
RoundTrip ==
  NoLetter \notin Range(word) /\ Len(Coded(word)) <= NameBits => Unpack(Pack(word)) = word

(* The built-in words, as they are spelled. *)
Spelling ==
  [comma |-> <<46>>, load |-> <<12, 3, 5, 16>>, loads |-> <<12, 3, 5, 16, 8>>,
   forth |-> <<14, 3, 1, 2, 20>>, macro |-> <<9, 5, 10, 1, 3>>,
   dot |-> <<37>>, add |-> <<43>>, divide |-> <<39>>]

Means(spelled) ==
  IF \E c \in DOMAIN Spelling : Spelling[c] = spelled
  THEN CHOOSE c \in DOMAIN Spelling : Spelling[c] = spelled
  ELSE "none"

(* A word that is typed finds the built-in word of that spelling and no    *)
(* other, although lookup_word() compares packed bits.                     *)
Spelled ==
  NoLetter \notin Range(word) /\ Len(Coded(word)) <= NameBits => Lookup(Pack(word)) = Means(word)

(* A command comes to its end, through whatever blocks it loads. *)
CommandEnds == frames # <<>> ~> Waiting \/ broken
=============================================================================
