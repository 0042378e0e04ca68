------------------------------ MODULE MCDisplay ------------------------------
(***************************************************************************)
(* A disk of two blocks of ten cells on a screen of nine lines of ten      *)
(* columns: a cell of each color that is displayed in a way of its own, a  *)
(* word that is continued in a second cell, and cells that fill the block. *)
(* The fifth letter of "long" does not fit the three bits that are left in *)
(* a name, that of "tight" does.  Block 0 can be run: -5 . 100             *)
(***************************************************************************)
EXTENDS Display

LOCAL cr    == <<10, 1>>
LOCAL so    == <<8, 3>>
LOCAL dot   == <<37>>
LOCAL load  == <<12, 3, 5, 16>>
LOCAL long  == <<16, 17, 18, 5, 24, 16>>
LOCAL tight == <<16, 17, 18, 5, 16, 19>>

MCSource == <<
  << Entry("variable", 0, so), Entry("compileword", 0, 44), Entry("executeshort", 0, -5),
     Entry("execute", 0, dot), Entry("commented_number", 0, 0), Entry("executeshort", 0, 100),
     Entry("compileword", 0, so) >>,
  << Entry("define", 0, so), Entry("text", 0, long), Entry("display_macro", 0, cr),
     Entry("compileshort", 1, 26), Entry("executelong", 1, 179), Entry("compilemacro", 0, so) >>
>>

(* No "extension" is written by hand: it would be a part of another word. *)
MCItems ==
  {<<Entry("variable", 0, so), Entry("compileword", 0, 44)>>,
   <<Entry("variable", 0, tight), Entry("compileword", 0, -1)>>,
   <<Entry("execute", 0, dot)>>, <<Entry("define", 0, so)>>, <<Entry("compileword", 0, so)>>,
   <<Entry("compilemacro", 0, so)>>, <<Entry("text", 0, long)>>, <<Entry("textcapitalized", 0, tight)>>,
   <<Entry("textallcaps", 0, so)>>, <<Entry("compiler_feedback", 0, so)>>,
   <<Entry("display_macro", 0, cr)>>, <<Entry("executeshort", 0, -5)>>,
   <<Entry("executeshort", 0, 100)>>, <<Entry("compileshort", 1, 26)>>,
   <<Entry("executelong", 1, 179)>>, <<Entry("compilelong", 0, 44)>>,
   <<Entry("commented_number", 0, 0)>>, <<Entry("commented_number", 1, 7)>>}

(* The memory before a disk is loaded. *)
MCBlocks == 0 :> [i \in 1 .. BlockCells |-> NoCell]

(* . load, and 0, which is the empty word. *)
MCVocabulary == {dot, load}
=============================================================================
