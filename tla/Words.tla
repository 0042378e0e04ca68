-------------------------------- MODULE Words --------------------------------
(***************************************************************************)
(* How a word is packed into a cell: a variable-length code of its letters *)
(* in the 28 high bits, its color in the 4 low ones.  A letter is its      *)
(* index in the string `code` of editor.c (1 'r' .. 47 '?'; the blank, 0,  *)
(* is never part of a word), and a name is its 28 bits, the high bit first. *)
(***************************************************************************)
EXTENDS Integers, Sequences, SequencesExt

CONSTANTS
  CellBits,    \* the width of cell_t
  BlockCells   \* 256, cells in a block

ASSUME WordsAssumption == CellBits \in Nat \ (0 .. 8) /\ BlockCells \in Nat \ {0}

Letter == 1 .. 47
NameBits == 28

(* The digits '0' .. '9' are consecutive in `code`. *)
Zero == 24
Digit == Zero .. Zero + 9

Bits(v, n) == [i \in 1 .. n |-> (v \div 2 ^ (n - i)) % 2]

(* Mutant: eight letters more get the short code. *)
CodeLength_Late(k) == IF k <= 8 THEN 4 ELSE IF k <= 15 THEN 5 ELSE 7

(* 0xxx, 10xxx and 11xxxxx: the shorter, the more frequent the letter.     *)
CodeLength(k) == IF k <= 7 THEN 4 ELSE IF k <= 15 THEN 5 ELSE 7

CodeOf(k) ==
  Bits(k + (IF CodeLength(k) = 5 THEN 8 ELSE IF CodeLength(k) = 7 THEN 80 ELSE 0), CodeLength(k))

(* The codes of the letters, one after the other. *)
Coded(word) ==
  LET upto[i \in 0 .. Len(word)] ==
        IF i = 0 THEN <<>> ELSE upto[i - 1] \o CodeOf(word[i])
  IN  upto[Len(word)]

(* The bits of a name, moved to the high end of the cell. *)
Zeroes(n) == [i \in 1 .. n |-> 0]

Pad(bits) == SubSeq(bits \o Zeroes(NameBits), 1, NameBits)

(* Mutant: the bits are not moved to the high end of the cell. *)
Pack_Low(word) ==
  LET all == Zeroes(NameBits) \o Coded(word)
  IN  SubSeq(all, Len(all) - NameBits + 1, Len(all))

(* pack(): up to 32 bits of letters, of which the color takes the last 4.  *)
(* Beyond 32 the shift count is out of range and the result is undefined.  *)
Pack(word) == Pad(Coded(word))

(* unpack(): a letter at a time, until only zeroes are left. *)
Unpack(name) ==
  LET bit(p)  == IF p <= NameBits THEN name[p] ELSE 0
      three(p) == 4 * bit(p) + 2 * bit(p + 1) + bit(p + 2)
      from[p \in 1 .. NameBits + 7] ==
        LET nibble == 8 * bit(p) + three(p + 1)
        IN  IF \A q \in p .. NameBits : bit(q) = 0 THEN <<>>
            ELSE IF nibble < 8 THEN <<nibble>> \o from[p + 4]
            ELSE IF nibble < 12 THEN <<2 * (nibble - 4) + bit(p + 4)>> \o from[p + 5]
            ELSE <<8 * (nibble - 10) + three(p + 4)>> \o from[p + 7]
  IN  from[1]

-----------------------------------------------------------------------------
(* The 28 high bits of a cell, and its hexadecimal bit, which in a name is *)
(* the last bit of the code.                                               *)
NameOf(c) ==
  IF "name" \in DOMAIN c THEN c.name
  ELSE Pad(Bits((c.cell % 2 ^ CellBits) \div 16, CellBits - 4))

HexBit(c) == IF "name" \in DOMAIN c THEN c.name[NameBits] ELSE (c.cell \div 16) % 2

(* cell_t, and signed arithmetic on its CellBits bits. *)
CellRange == -(2 ^ (CellBits - 1)) .. 2 ^ (CellBits - 1) - 1

Signed(v) ==
  LET low == v % 2 ^ CellBits
  IN  IF low < 2 ^ (CellBits - 1) THEN low ELSE low - 2 ^ CellBits

(* All bits of a cell as a number: what is after a name may be its data. *)
NumberOf(c) ==
  IF "cell" \in DOMAIN c THEN c.cell
  ELSE Signed(16 * Signed(FoldLeft(LAMBDA v, b : 2 * v + b, 0, c.name)) + c.color)

(* Division of C, towards zero. *)
Quotient(b, a) ==
  LET abs(x) == IF x < 0 THEN -x ELSE x
  IN  IF (a < 0) = (b < 0) THEN abs(b) \div abs(a) ELSE -(abs(b) \div abs(a))

(* is_number() and atoi(); the empty word is the number 0. *)
IsNumber(word) == \A i \in DOMAIN word : word[i] \in Digit

Atoi(word) ==
  LET value[i \in 0 .. Len(word)] ==
        IF i = 0 THEN 0 ELSE 10 * value[i - 1] + (word[i] - Zero)
  IN  value[Len(word)]
=============================================================================
