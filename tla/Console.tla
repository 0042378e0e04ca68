------------------------------- MODULE Console -------------------------------
(***************************************************************************)
(* The console's ring buffer: keyboard_interrupt_handler() writes it       *)
(* through console_add_character(), and the thread inside console_read()   *)
(* polls and empties it, with interrupts on and without a lock.            *)
(*                                                                         *)
(* Key presses are numbered from 1; a slot holds the number of the press   *)
(* whose scancode it contains, 0 for the zeroes of console_setup().  The   *)
(* handler runs with interrupts off, so it is one step; it may fall        *)
(* between any two accesses of the reader to the buffer.  (A key release   *)
(* has a scancode of 0x80 or more and changes nothing.)                    *)
(***************************************************************************)
EXTENDS Integers

CONSTANTS
  Length,     \* CONSOLE_BUFFER_LENGTH
  ReadSizes,  \* the lengths console_read() is called with; 0 returns at once
  Newlines,   \* the key presses whose character is '\n'
  MaxKeys     \* bound: how many keys are pressed

ASSUME ConsoleAssumption ==
  /\ Length \in Nat \ {0, 1}
  /\ ReadSizes \subseteq Nat \ {0}
  /\ MaxKeys \in Nat

VARIABLES
  buffer,     \* cons->buffer
  rd,         \* cons->buffer_read
  wr,         \* cons->buffer_write
  keys,       \* history: the number of the last key press
  pc,         \* where the reading thread is; "caller": not in console_read()
  len, count, \* the parameter and the local variable of console_read()
  c,          \* the local variable c of console_read()
  last        \* history: the last key copied to the destination buffer

reader == <<rd, pc, len, count, c, last>>
vars   == <<buffer, wr, keys, reader>>

Slot == 0 .. Length - 1

Init ==
  /\ buffer = [i \in Slot |-> 0]
  /\ rd = 0 /\ wr = 0
  /\ keys = 0
  /\ pc = "caller"
  /\ len = 0 /\ count = 0 /\ c = 0
  /\ last = 0

(* Mutant: the index is reset one slot too late. *)
After_TooLate(i) == IF i = Length THEN 0 ELSE i + 1

(* Both indices are incremented and reset when they reach the end. *)
After(i) == IF i + 1 = Length THEN 0 ELSE i + 1

-----------------------------------------------------------------------------
(* Mutant: a key that would fill the buffer is not stored. *)
Press_Dropped ==
  /\ keys < MaxKeys
  /\ keys' = keys + 1
  /\ IF After(wr) = rd
     THEN UNCHANGED <<buffer, wr>>
     ELSE buffer' = [buffer EXCEPT ![wr] = keys + 1] /\ wr' = After(wr)
  /\ UNCHANGED reader

(* A key press: keyboard_interrupt_handler(), console_add_character().     *)
(* Nothing tests whether the buffer is full.                               *)
Press ==
  /\ keys < MaxKeys
  /\ keys' = keys + 1
  /\ buffer' = [buffer EXCEPT ![wr] = keys + 1]
  /\ wr' = After(wr)
  /\ UNCHANGED reader

(* console_read(): the reader calls it, ... *)
Call ==
  /\ pc = "caller"
  /\ len' \in ReadSizes
  /\ count' = 0
  /\ pc' = "test"
  /\ UNCHANGED <<buffer, wr, keys, rd, c, last>>

(* ... loops as long as the indices are equal, ... *)
Spin ==
  /\ pc = "test" /\ rd = wr
  /\ UNCHANGED vars

(* Mutant: the indices are not compared. *)
Test_Unguarded ==
  /\ pc = "test"
  /\ pc' = "load"
  /\ UNCHANGED <<buffer, wr, keys, rd, len, count, c, last>>

Test ==
  /\ pc = "test" /\ rd # wr
  /\ pc' = "load"
  /\ UNCHANGED <<buffer, wr, keys, rd, len, count, c, last>>

(* Mutant: the character tested is taken at the write index. *)
Load_AtWrite ==
  /\ pc = "load"
  /\ c' = buffer[wr]
  /\ pc' = "copy"
  /\ UNCHANGED <<buffer, wr, keys, rd, len, count, last>>

(* ... reads the slot once for itself ... *)
Load ==
  /\ pc = "load"
  /\ c' = buffer[rd]
  /\ pc' = "copy"
  /\ UNCHANGED <<buffer, wr, keys, rd, len, count, last>>

(* ... and once more for its caller, ... *)
Copy ==
  /\ pc = "copy"
  /\ last' = buffer[rd]
  /\ pc' = "advance"
  /\ UNCHANGED <<buffer, wr, keys, rd, len, count, c>>

(* Mutant: a new line ends the read before the read index moves. *)
Advance_NewlineStays ==
  /\ pc = "advance"
  /\ rd' = IF c \in Newlines THEN rd ELSE After(rd)
  /\ count' = count + 1
  /\ pc' = IF count' = len \/ c \in Newlines THEN "caller" ELSE "test"
  /\ UNCHANGED <<buffer, wr, keys, len, c, last>>

(* ... and goes on until it has read len characters or a new line (the     *)
(* mode is CONSOLE_MODE_CANON, nothing changes it; there is no echo).      *)
Advance ==
  /\ pc = "advance"
  /\ rd' = After(rd)
  /\ count' = count + 1
  /\ pc' = IF count' = len \/ c \in Newlines THEN "caller" ELSE "test"
  /\ UNCHANGED <<buffer, wr, keys, len, c, last>>

Read == Call \/ Spin \/ Test \/ Load \/ Copy \/ Advance
Next == Press \/ Read
Spec == Init /\ [][Next]_vars

(* The keyboard is never more than Length - 1 keys ahead of the reader,    *)
(* which the code leaves to the typist; the reading thread gets the        *)
(* processor again and again, and the editor always reads the next key.    *)
PacedPress == Press /\ keys - last < Length - 1
PacedNext  == PacedPress \/ Read
PacedSpec  == Init /\ [][PacedNext]_vars /\ WF_vars(Read)

-----------------------------------------------------------------------------
TypeOK ==
  /\ buffer \in [Slot -> 0 .. MaxKeys]
  /\ rd \in Slot /\ wr \in Slot
  /\ keys \in 0 .. MaxKeys
  /\ pc \in {"caller", "test", "load", "copy", "advance"}
  /\ len \in Nat /\ count \in Nat
  /\ c \in 0 .. MaxKeys /\ last \in 0 .. MaxKeys

(* What the reader copies is always newer than what it copied before, even *)
(* when the keyboard laps it in the middle of console_read(): no key comes *)
(* twice, no key comes before an earlier one, and no zero of               *)
(* console_setup() is taken for a key (console.c:67-86, 127-131).          *)
KeysInOrder == [][Copy => last' > last]_vars

(* What is lost is lost in whole laps: an overrun drops a multiple of      *)
(* Length keys, never a few of them.                                       *)
LossInLaps == [][Copy => (last' - last - 1) % Length = 0]_vars

(* The character console_read() tests for '\n' is the one it hands over,   *)
(* or an older one: the slot is read twice.                                *)
TestedIsCopied == pc = "advance" => c <= last /\ (last - c) % Length = 0

(* "No character available" (console.c:65): a reader that finds the        *)
(* indices equal has read every key.                                       *)
EmptyMeansAllRead == pc = "test" /\ rd = wr => last = keys

(* With a keyboard that is not too far ahead nothing is lost, and every    *)
(* key is read in the end.                                                 *)
Stream == INSTANCE KeyStream WITH Presses <- MaxKeys, sent <- keys, received <- last

ImplementsKeyStream == Stream!Spec
=============================================================================
