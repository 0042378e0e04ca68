-------------------------------- MODULE Forth --------------------------------
(***************************************************************************)
(* The colorForth interpreter of compiler.c: dispatch_word(), run_block()  *)
(* and the built-in words, over blocks that nothing writes.  The C stack   *)
(* of nested load and loads is a sequence of frames, so that a step is one *)
(* cell.  There are no checks on the data stack: where the code would read *)
(* or write outside of it, outside of the disk, or divide by zero, the     *)
(* model stops (broken).                                                   *)
(***************************************************************************)
EXTENDS Words, FiniteSets

CONSTANTS
  Blocks,      \* the initial RAM disk: block number -> cells
  StackSize    \* STACK_SIZE

(* The colors of the cells that are not ignored. *)
WordTag   == 1
NumberTag == 8

(* The disk is loaded whole; a cell is a name or all of a cell_t. *)
ASSUME ForthAssumption ==
  /\ StackSize \in Nat \ {0} /\ IsFiniteSet(DOMAIN Blocks)
  /\ 0 \in DOMAIN Blocks /\ DOMAIN Blocks = 0 .. Cardinality(DOMAIN Blocks) - 1
  /\ \A n \in DOMAIN Blocks :
       /\ DOMAIN Blocks[n] = 1 .. BlockCells
       /\ \A i \in 1 .. BlockCells :
            \/ /\ "cell" \in DOMAIN Blocks[n][i] /\ "name" \notin DOMAIN Blocks[n][i]
               /\ Blocks[n][i].cell \in CellRange
            \/ /\ "name" \in DOMAIN Blocks[n][i] /\ Blocks[n][i].color # NumberTag
               /\ Blocks[n][i].name \in [1 .. NameBits -> {0, 1}]

VARIABLES blocks,   \* the RAM disk, which GRUB has loaded
          stack,    \* the data stack, its top last
          frames,   \* the calls of run_block() and loads() that are open
          broken

forthVars == <<blocks, stack, frames, broken>>

(* colorforth_initialize() *)
ForthInit == blocks = Blocks /\ stack = <<>> /\ frames = <<>> /\ broken = FALSE

(* The cells that are not ignored. *)
Word(name) == [color |-> WordTag, name |-> name]

(* Mutant: the tag gets one bit less than it takes. *)
Number_ShortTag(n) == [color |-> NumberTag, cell |-> Signed(n * 16 + NumberTag)]

(* A number shares its cell with five bits of tag. *)
Number(n) == [color |-> NumberTag, cell |-> Signed(n * 32 + NumberTag)]

(* forth_dictionary: the packed names are given as hexadecimal digits. *)
Hex(digits) ==
  Pad([i \in 1 .. 4 * Len(digits) |-> Bits(digits[(i + 3) \div 4], 4)[((i - 1) % 4) + 1]])

Dictionary == <<
  [name |-> Hex(<<15, 12>>),           code |-> "comma"],
  [name |-> Hex(<<10, 1, 10, 14>>),    code |-> "load"],
  [name |-> Hex(<<10, 1, 10, 14, 0, 8>>), code |-> "loads"],
  [name |-> Hex(<<11, 1, 8, 9, 6, 4>>),   code |-> "forth"],
  [name |-> Hex(<<8, 10, 12, 8, 4, 12>>), code |-> "macro"],
  [name |-> Hex(<<14, 10>>),           code |-> "dot"],
  [name |-> Hex(<<15, 6>>),            code |-> "add"],
  [name |-> Hex(<<14, 14>>),           code |-> "divide"] >>

(* lookup_word() in FORTH_DICTIONARY, whatever dictionary is selected. *)
Lookup(name) ==
  IF \E i \in DOMAIN Dictionary : Dictionary[i].name = name
  THEN Dictionary[CHOOSE i \in DOMAIN Dictionary : Dictionary[i].name = name].code
  ELSE "none"

-----------------------------------------------------------------------------
Pops(n)      == Len(stack) >= n
FromTop(i)   == stack[Len(stack) - i]
Dropped(n)   == SubSeq(stack, 1, Len(stack) - n)

Becomes(s, calls) == stack' = s /\ frames' = calls /\ UNCHANGED <<blocks, broken>>

Breaks == broken' = TRUE /\ UNCHANGED <<blocks, stack, frames>>

Push(v, calls) ==
  \/ Len(stack) < StackSize /\ Becomes(Append(stack, v), calls)
  \/ Len(stack) >= StackSize /\ Breaks

Run(n)      == [kind |-> "run", at |-> n, to |-> 1]
Span(i, j)  == [kind |-> "loads", at |-> i, to |-> j]

(* load(): the cells of the block on top of the stack come next. *)
Load(calls) ==
  \/ Pops(1) /\ FromTop(0) \in DOMAIN blocks
     /\ Becomes(Dropped(1), Append(calls, Run(FromTop(0))))
  \/ ~(Pops(1) /\ FromTop(0) \in DOMAIN blocks) /\ Breaks

(* Mutant: the bounds are taken in the order they were pushed. *)
Loads_Swapped(calls) ==
  \/ Pops(2) /\ Becomes(Dropped(2), Append(calls, Span(FromTop(0), FromTop(1))))
  \/ ~Pops(2) /\ Breaks

(* loads() *)
Loads(calls) ==
  \/ Pops(2) /\ Becomes(Dropped(2), Append(calls, Span(FromTop(1), FromTop(0))))
  \/ ~Pops(2) /\ Breaks

(* The processor traps on a zero divisor and on a quotient that is too big. *)
Divides == /\ Pops(2) /\ FromTop(0) # 0
           /\ Quotient(FromTop(1), FromTop(0)) < 2 ^ (CellBits - 1)

Divide(calls) ==
  \/ Divides /\ Becomes(Append(Dropped(2), Quotient(FromTop(1), FromTop(0))), calls)
  \/ ~Divides /\ Breaks

Add(calls) ==
  \/ Pops(2) /\ Becomes(Append(Dropped(2), Signed(FromTop(0) + FromTop(1))), calls)
  \/ ~Pops(2) /\ Breaks

Dot(calls) ==
  \/ Pops(1) /\ Becomes(Dropped(1), calls)
  \/ ~Pops(1) /\ Breaks

(* interpret_forth_word(); comma does nothing, and forth and macro select  *)
(* a dictionary that is never consulted.                                   *)
Execute(code, calls) ==
  \/ code \in {"none", "comma", "forth", "macro"} /\ Becomes(stack, calls)
  \/ code = "load"   /\ Load(calls)
  \/ code = "loads"  /\ Loads(calls)
  \/ code = "dot"    /\ Dot(calls)
  \/ code = "add"    /\ Add(calls)
  \/ code = "divide" /\ Divide(calls)

(* dispatch_word(), after which the calls go on. *)
Dispatch(c, calls) ==
  \/ c.color = WordTag /\ Execute(Lookup(NameOf(c)), calls)
  \/ c.color = NumberTag /\ Push(c.cell \div 32, calls)
  \/ c.color \notin {WordTag, NumberTag} /\ Becomes(stack, calls)

-----------------------------------------------------------------------------
Open(kind) == ~broken /\ frames # <<>> /\ Last(frames).kind = kind

(* The calls once the innermost one has gone one step further. *)
Advanced(f) == Append(Front(frames), f)

(* Mutants: the shadow blocks are loaded too; the index is not moved. *)
Stride_One == 1
Stride_Zero == 0

(* loads() leaves out every other block, the shadow blocks. *)
Stride == 2

(* run_block(): a cell, up to the last but one, ... *)
RunCell ==
  /\ Open("run") /\ Last(frames).to < BlockCells
  /\ LET f == Last(frames)
     IN  Dispatch(blocks[f.at][f.to], Advanced([f EXCEPT !.to = @ + 1]))

(* ... and back to the caller. *)
RunDone ==
  /\ Open("run") /\ Last(frames).to >= BlockCells
  /\ Becomes(stack, Front(frames))

(* loads(): the next block, whose number goes through the stack, ... *)
LoadNext ==
  /\ Open("loads") /\ Last(frames).at <= Last(frames).to
  /\ LET f     == Last(frames)
         calls == Advanced([f EXCEPT !.at = @ + Stride])
     IN  \/ Len(stack) < StackSize /\ f.at \in DOMAIN blocks
            /\ Becomes(stack, Append(calls, Run(f.at)))
         \/ ~(Len(stack) < StackSize /\ f.at \in DOMAIN blocks) /\ Breaks

(* ... and back. *)
LoadsDone ==
  /\ Open("loads") /\ Last(frames).at > Last(frames).to
  /\ Becomes(stack, Front(frames))

Interpret == RunCell \/ RunDone \/ LoadNext \/ LoadsDone
=============================================================================
