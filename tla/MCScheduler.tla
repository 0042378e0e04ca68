----------------------------- MODULE MCScheduler -----------------------------
(***************************************************************************)
(* Values for model checking Scheduler: the thread list of                 *)
(* roentgenium_main(), alone and followed by the two threads of            *)
(* test_kernel_threads().                                                  *)
(***************************************************************************)
EXTENDS Scheduler

CONSTANTS editor, h, w

Startup       == <<editor>>
StartupAndTwo == <<editor, h, w>>
MaskedTwo     == {h, w}
=============================================================================
