---------------------------- MODULE MCInterrupts ----------------------------
(***************************************************************************)
(* Values for model checking Interrupts.                                   *)
(***************************************************************************)
EXTENDS Interrupts
CONSTANTS boot, editor, other
=============================================================================
