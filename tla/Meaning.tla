-------------------------------- MODULE Meaning --------------------------------
(***************************************************************************)
(* What a command means to someone who reads the screen: names are as they *)
(* are spelled, a number is the number that was typed, and a block is the  *)
(* words it shows.  Each command is evaluated here in one piece, and the   *)
(* result compared with what the interpreter comes to cell by cell.        *)
(***************************************************************************)
EXTENDS Editor

CONSTANT Nesting   \* bound: commands that nest more blocks have no meaning here

VARIABLE meant     \* what the last command should have come to

meaningVars == <<vars, meant>>

Stacks == Seq(CellRange)

Good(s) == [is |-> "good", stack |-> s]
Bad     == [is |-> "bad", stack |-> <<>>]
Deep    == [is |-> "deep", stack |-> <<>>]

Results == {Good(s) : s \in Stacks} \cup {Bad, Deep}

(* The rest of a command whose first part comes to r. *)
Then(r, rest) == IF r.is = "good" THEN rest[r.stack] ELSE r

Takes == [comma |-> 0, load |-> 1, loads |-> 2, forth |-> 0, macro |-> 0,
          dot |-> 1, add |-> 2, divide |-> 2, none |-> 0]

Pushed(s, v) == IF Len(s) < StackSize THEN Good(Append(s, v)) ELSE Bad

(* The cells of a block that are the data of the one before, ...           *)
DataOf(cells) ==
  LET data[i \in 1 .. BlockCells] ==
        i > 1 /\ cells[i - 1].color \in {2, 5, 12} /\ ~data[i - 1]
  IN  {i \in 1 .. BlockCells : data[i]}

(* ... which is not shown as a word.  run_block() dispatches it: it has to *)
(* be harmless.  Words that lose bits in their cell have no meaning here.  *)
ASSUME MeaningAssumption ==
  /\ Nesting \in Nat
  /\ \A w \in Vocabulary : Len(Coded(w)) <= NameBits
  /\ \A n \in DOMAIN Blocks : \A i \in DataOf(Blocks[n]) :
       i < BlockCells => Blocks[n][i].color \notin {WordTag, NumberTag}

(* k blocks one after the other, the first of them i and with a shadow     *)
(* block between each two; run[n] is what comes of a stack by block n.     *)
AfterBlocks(run) ==
  LET blocks_from[k \in Nat] ==
        [i \in Int |-> [s \in Stacks |->
          IF k = 0 THEN Good(s)
          ELSE IF Len(s) >= StackSize THEN Bad
          ELSE Then(run[i][s], blocks_from[k - 1][i + 2])]]
  IN  blocks_from

(* The stack s after a word, and after a cell that shows one or a number. *)
AfterWord(run, s, code) ==
  LET n    == Takes[code]
      rest == SubSeq(s, 1, Len(s) - n)
      top  == s[Len(s)]
      nos  == s[Len(s) - 1]
  IN  IF Len(s) < n THEN Bad
      ELSE CASE n = 0           -> Good(s)
             [] code = "dot"    -> Good(rest)
             [] code = "add"    -> Good(Append(rest, Signed(nos + top)))
             [] code = "divide" -> IF top = 0 \/ Quotient(nos, top) \notin CellRange THEN Bad
                                   ELSE Good(Append(rest, Quotient(nos, top)))
             [] code = "load"   -> run[top][rest]
             [] code = "loads"  -> AfterBlocks(run)[IF nos > top THEN 0 ELSE (top - nos + 2) \div 2][nos][rest]

AfterCell(run, s, c) ==
  CASE c.color = WordTag   -> AfterWord(run, s, Means(Unpack(NameOf(c))))
    [] c.color = NumberTag -> Pushed(s, c.cell \div 32)
    [] OTHER               -> Good(s)

(* The words of a block from each cell on; the last cell is not run. *)
AfterCells(run, cells) ==
  LET cells_from[i \in 1 .. BlockCells] ==
        [s \in Stacks |->
          IF i = BlockCells THEN Good(s)
          ELSE IF i \in DataOf(cells) THEN cells_from[i + 1][s]
          ELSE Then(AfterCell(run, s, cells[i]), cells_from[i + 1])]
  IN  cells_from

(* A block, when d blocks may be open at a time. *)
AfterBlock[d \in Nat] ==
  [n \in Int |-> [s \in Stacks |->
    IF n \notin DOMAIN Blocks THEN Bad
    ELSE IF d = 0 THEN Deep
    ELSE AfterCells(AfterBlock[d - 1], Blocks[n])[1][s]]]

(* A number comes back exactly while five bits are left for its tag.       *)
Limit == 2 ^ (CellBits - 6)

Typed(n) == CHOOSE v \in -Limit .. Limit - 1 : (n - v) % (2 * Limit) = 0

AfterCommand(s, w) ==
  IF NoLetter \in Range(w) THEN Bad
  ELSE IF IsNumber(w) THEN Pushed(s, Typed(Atoi(w)))
  ELSE AfterWord(AfterBlock[Nesting], s, Means(w))

-----------------------------------------------------------------------------
MInit == Init /\ meant = Good(<<>>)

MNext ==
  \/ Command /\ meant' = AfterCommand(IF meant = Deep THEN stack ELSE meant.stack, word)
  \/ (Edit \/ Go) /\ UNCHANGED meant

MSpec == MInit /\ [][MNext]_meaningVars /\ WF_vars(Go)

(* When the interpreter comes back, through any nesting of load and loads, *)
(* the data stack is the one the commands mean, and it only leaves its     *)
(* array or the disk where the commands are wrong to ask for it.           *)
CommandsMean ==
  /\ broken => meant \in {Bad, Deep}
  /\ Waiting => meant \in {Good(stack), Deep}
=============================================================================
