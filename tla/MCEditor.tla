------------------------------- MODULE MCEditor -------------------------------
(***************************************************************************)
(* A disk of three blocks of seven cells: block 0 runs block 2, block 1 is *)
(* a shadow block with a big number, and the last cell of each would show  *)
(* if it were run.                                                         *)
(***************************************************************************)
EXTENDS Meaning

MCWord(code) == Word(Pack(Spelling[code]))
Unknown == <<8, 3>>
Comment == [color |-> 9, name |-> Pack(Unknown)]
Big     == [color |-> 5, cell |-> 5]
Data    == [color |-> 12, cell |-> 44]

(* 2 2 loads , macro    (shadow) 7 44    6 2 / + 4 / *)
MCBlocks ==
  0 :> <<Number(2), Number(2), MCWord("loads"), MCWord("comma"), MCWord("macro"), Comment, Number(9)>>
  @@ 1 :> <<Comment, Number(7), Word(Pack(Unknown)), Big, Data, Comment, Number(9)>>
  @@ 2 :> <<Number(6), Number(2), MCWord("divide"), MCWord("add"), Number(4), MCWord("divide"), Number(9)>>

(* 0 2 22 load loads . / so *)
MCVocabulary ==
  {<<24>>, <<26>>, <<26, 26>>, Unknown} \cup {Spelling[c] : c \in {"load", "loads", "dot", "divide"}}
=============================================================================
