------------------------------- MODULE Printing -------------------------------
(***************************************************************************)
(* How numbers are written on the screen: print_hex() and print_dec() of   *)
(* editor.c for the numbers of a block, itoa() of libc.c for the data      *)
(* stack, and the numerals both are meant to be.                           *)
(***************************************************************************)
EXTENDS Words, FiniteSets

ASSUME PrintingAssumption == CellBits % 4 = 0   \* print_hex() takes four bits at a time

Minus == 35

(* hex[]: '0' .. '9', 'a' .. 'f'; any other index reads another variable.  *)
Garbage == 48
HexLetter == <<5, 19, 10, 16, 4, 14>>

HexDigit(k) ==
  CASE k \in 0 .. 9   -> Zero + k
    [] k \in 10 .. 15 -> HexLetter[k - 9]
    [] OTHER          -> Garbage

Unsigned(v) == v % 2 ^ CellBits

(* The digits are written from the first one that is not zero. *)
Numeral(digit) ==
  LET written == {k \in DOMAIN digit : \E m \in 1 .. k : digit[m] # 0}
      left_out == Len(digit) - Cardinality(written)
  IN  [k \in 1 .. Cardinality(written) |-> HexDigit(digit[left_out + k])]

(* print_hex(): the four high bits, shifted out until none are left. *)
PrintHex(v) ==
  LET i[n \in 0 .. CellBits \div 4] == IF n = 0 THEN Unsigned(v) ELSE Unsigned(i[n - 1] * 16)
      high == [n \in 1 .. CellBits \div 4 |-> i[n - 1] \div 2 ^ (CellBits - 4)]
  IN  IF v = 0 THEN <<Zero>> ELSE Numeral(high)

PlaceValues(base) ==
  LET power[k \in 0 .. CellBits] == IF k = 0 THEN 1 ELSE base * power[k - 1] IN power

(* 1000000000, for a cell of 32 bits; ten has more than three bits. *)
HighestPower ==
  Cardinality({p \in 1 .. CellBits \div 3 : PlaceValues(10)[p] < 2 ^ (CellBits - 1)})

(* print_dec(): the powers of ten, the highest first.  The least number is *)
(* its own negative, and its quotients are no indices of hex[].            *)
PrintDec(v) ==
  LET j(n) == PlaceValues(10)[HighestPower + 1 - n]
      i[n \in 0 .. HighestPower + 1] ==
        IF n = 0 THEN (IF v < 0 THEN Signed(-v) ELSE v)
        ELSE i[n - 1] - j(n) * Quotient(i[n - 1], j(n))
      k == [n \in 1 .. HighestPower + 1 |-> Quotient(i[n - 1], j(n))]
  IN  IF v = 0 THEN <<Zero>> ELSE (IF v < 0 THEN <<Minus>> ELSE <<>>) \o Numeral(k)

(* itoa(): the remainders, the last one first, and a sign in base ten only. *)
(* The remainders of a negative number are negative: no digits either.      *)
Itoa(v, base) ==
  LET negative == v < 0 /\ base = 10
      value[n \in 0 .. CellBits] ==
        IF n = 0 THEN (IF negative THEN Signed(-v) ELSE v) ELSE Quotient(value[n - 1], base)
      length == Cardinality({n \in 0 .. CellBits : value[n] # 0})
      remainder(n) == value[n - 1] - base * value[n]
  IN  IF v = 0 THEN <<Zero>>
      ELSE (IF negative THEN <<Minus>> ELSE <<>>)
           \o [n \in 1 .. length |-> HexDigit(remainder(length + 1 - n))]

-----------------------------------------------------------------------------
(* The reference: the digits of n >= 0, each from its own position. *)
Positional(n, base) ==
  LET power  == PlaceValues(base)
      places == CHOOSE p \in 1 .. CellBits : power[p] > n /\ (p = 1 \/ power[p - 1] <= n)
  IN  [k \in 1 .. places |-> HexDigit((n \div power[places - k]) % base)]

Decimal(v) == IF v < 0 THEN <<Minus>> \o Positional(-v, 10) ELSE Positional(v, 10)

Hexadecimal(v) == Positional(Unsigned(v), 16)
=============================================================================
