------------------------------ MODULE RoundRobin ------------------------------
(***************************************************************************)
(* What the thread scheduler of the kernel promises, without its queues: a *)
(* thread that was made ready waits in a first-come first-served line, and *)
(* every timer interrupt gives the processor to the head of the line and   *)
(* sends the thread that had it to the end.                                *)
(***************************************************************************)
EXTENDS Naturals, Sequences

CONSTANTS Thread,    \* the threads that may be created
          Idle       \* the thread the processor runs first

VARIABLES run,       \* the thread that has the processor
          wait       \* the threads that are ready, in the order they will run

vars == <<run, wait>>

Started == {run} \cup {wait[i] : i \in 1 .. Len(wait)}

Init == run = Idle /\ wait = <<>>

(* A thread is made ready: it will run after all those that wait now. *)
Start(t) ==
  /\ t \notin Started
  /\ wait' = Append(wait, t)
  /\ UNCHANGED run

(* A timer interrupt. *)
Rotate ==
  /\ wait # <<>>
  /\ run' = Head(wait)
  /\ wait' = Append(Tail(wait), run)

Next == Rotate \/ \E t \in Thread : Start(t)

Spec == Init /\ [][Next]_vars /\ WF_vars(Rotate)
=============================================================================
