------------------------------ MODULE KeyStream ------------------------------
(***************************************************************************)
(* What the console promises to the thread that reads it: the key presses  *)
(* arrive one after the other, in the order they were made, none of them   *)
(* lost, none of them twice.  Keys are numbered from 1 as they are         *)
(* pressed, so the whole stream is two counters.                           *)
(***************************************************************************)
EXTENDS Naturals

CONSTANT Presses     \* how many keys are pressed at most

VARIABLES sent,      \* the last key pressed
          received   \* the last key the reader got

vars == <<sent, received>>

Init == sent = 0 /\ received = 0

Press   == sent < Presses /\ sent' = sent + 1 /\ UNCHANGED received

Receive == received < sent /\ received' = received + 1 /\ UNCHANGED sent

Next == Press \/ Receive

Spec == Init /\ [][Next]_vars /\ WF_vars(Receive)
=============================================================================
