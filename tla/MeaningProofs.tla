---------------------------- MODULE MeaningProofs ----------------------------
(***************************************************************************)
(* Proofs about the interpreter: run cell by cell, through any nesting of  *)
(* blocks, a command comes to what it means when it is evaluated in one    *)
(* piece from what is spelled on the screen.                               *)
(***************************************************************************)
EXTENDS Meaning, EditorProofs

-----------------------------------------------------------------------------
(* Two names that are shown as the same word are the same bits, whatever   *)
(* the bits are.                                                           *)

Names == [1 .. NameBits -> Bit]

FirstLetter(name, p) ==
  IF Nibble(name, p) < 8 THEN Nibble(name, p)
  ELSE IF Nibble(name, p) < 12 THEN 2 * (Nibble(name, p) - 4) + BitAt(name, p + 4)
  ELSE 8 * (Nibble(name, p) - 10) + Three(name, p + 4)

Width(name, p) == IF Nibble(name, p) < 8 THEN 4 ELSE IF Nibble(name, p) < 12 THEN 5 ELSE 7

LEMMA BitIs ==
  ASSUME NEW name \in Names, NEW q \in Nat \ {0}
  PROVE  BitAt(name, q) \in {0, 1}
<1>1. CASE q <= NameBits
  <2>1. q \in 1 .. NameBits
    BY <1>1 DEF NameBits
  <2> QED
    BY <1>1, <2>1 DEF BitAt, Names, Bit
<1>2. CASE ~(q <= NameBits)
  BY <1>2 DEF BitAt
<1> QED
  BY <1>1, <1>2

LEMMA SevenBits ==
  ASSUME NEW name \in Names, NEW p \in Nat \ {0}
  PROVE  \E b0, b1, b2, b3, b4, b5, b6 \in {0, 1} :
           /\ BitAt(name, p) = b0 /\ BitAt(name, p + 1) = b1 /\ BitAt(name, p + 2) = b2
           /\ BitAt(name, p + 3) = b3 /\ BitAt(name, p + 4) = b4 /\ BitAt(name, p + 5) = b5
           /\ BitAt(name, p + 6) = b6
           /\ Nibble(name, p) = 8 * b0 + 4 * b1 + 2 * b2 + b3
           /\ Three(name, p + 4) = 4 * b4 + 2 * b5 + b6
<1>1. /\ p + 1 \in Nat \ {0} /\ p + 2 \in Nat \ {0} /\ p + 3 \in Nat \ {0}
      /\ p + 4 \in Nat \ {0} /\ p + 5 \in Nat \ {0} /\ p + 6 \in Nat \ {0}
      /\ (p + 1) + 1 = p + 2 /\ (p + 1) + 2 = p + 3 /\ (p + 4) + 1 = p + 5 /\ (p + 4) + 2 = p + 6
  OBVIOUS
<1>2. PICK b0 \in {0, 1} : BitAt(name, p) = b0
  BY BitIs
<1>3. PICK b1 \in {0, 1} : BitAt(name, p + 1) = b1
  BY <1>1, BitIs
<1>4. PICK b2 \in {0, 1} : BitAt(name, p + 2) = b2
  BY <1>1, BitIs
<1>5. PICK b3 \in {0, 1} : BitAt(name, p + 3) = b3
  BY <1>1, BitIs
<1>6. PICK b4 \in {0, 1} : BitAt(name, p + 4) = b4
  BY <1>1, BitIs
<1>7. PICK b5 \in {0, 1} : BitAt(name, p + 5) = b5
  BY <1>1, BitIs
<1>8. PICK b6 \in {0, 1} : BitAt(name, p + 6) = b6
  BY <1>1, BitIs
<1>9. Three(name, p + 1) = 4 * b1 + 2 * b2 + b3 /\ Three(name, p + 4) = 4 * b4 + 2 * b5 + b6
  BY <1>1, <1>3, <1>4, <1>5, <1>6, <1>7, <1>8 DEF Three
<1>10. Nibble(name, p) = 8 * b0 + (4 * b1 + 2 * b2 + b3)
  BY <1>2, <1>9 DEF Nibble
<1>11. 8 * b0 + (4 * b1 + 2 * b2 + b3) = 8 * b0 + 4 * b1 + 2 * b2 + b3
  OBVIOUS
<1> QED
  BY <1>2, <1>3, <1>4, <1>5, <1>6, <1>7, <1>8, <1>9, <1>10, <1>11

(* The code is read in one way only. *)
LEMMA SameLetter ==
  ASSUME NEW a \in Names, NEW b \in Names, NEW p \in Nat \ {0},
         FirstLetter(a, p) = FirstLetter(b, p)
  PROVE  /\ Width(a, p) = Width(b, p)
         /\ \A j \in 0 .. Width(a, p) - 1 : BitAt(a, p + j) = BitAt(b, p + j)
<1>1. PICK a0, a1, a2, a3, a4, a5, a6 \in {0, 1} :
           /\ BitAt(a, p) = a0 /\ BitAt(a, p + 1) = a1 /\ BitAt(a, p + 2) = a2
           /\ BitAt(a, p + 3) = a3 /\ BitAt(a, p + 4) = a4 /\ BitAt(a, p + 5) = a5
           /\ BitAt(a, p + 6) = a6
           /\ Nibble(a, p) = 8 * a0 + 4 * a1 + 2 * a2 + a3
           /\ Three(a, p + 4) = 4 * a4 + 2 * a5 + a6
  BY SevenBits
<1>2. PICK b0, b1, b2, b3, b4, b5, b6 \in {0, 1} :
           /\ BitAt(b, p) = b0 /\ BitAt(b, p + 1) = b1 /\ BitAt(b, p + 2) = b2
           /\ BitAt(b, p + 3) = b3 /\ BitAt(b, p + 4) = b4 /\ BitAt(b, p + 5) = b5
           /\ BitAt(b, p + 6) = b6
           /\ Nibble(b, p) = 8 * b0 + 4 * b1 + 2 * b2 + b3
           /\ Three(b, p + 4) = 4 * b4 + 2 * b5 + b6
  BY SevenBits
<1>3. PICK m, n, t, u :
        /\ m = 8 * a0 + 4 * a1 + 2 * a2 + a3 /\ n = 8 * b0 + 4 * b1 + 2 * b2 + b3
        /\ t = 4 * a4 + 2 * a5 + a6 /\ u = 4 * b4 + 2 * b5 + b6
  OBVIOUS
<1>4. /\ FirstLetter(a, p) = IF m < 8 THEN m ELSE IF m < 12 THEN 2 * (m - 4) + a4 ELSE 8 * (m - 10) + t
      /\ FirstLetter(b, p) = IF n < 8 THEN n ELSE IF n < 12 THEN 2 * (n - 4) + b4 ELSE 8 * (n - 10) + u
      /\ Width(a, p) = IF m < 8 THEN 4 ELSE IF m < 12 THEN 5 ELSE 7
      /\ Width(b, p) = IF n < 8 THEN 4 ELSE IF n < 12 THEN 5 ELSE 7
  BY <1>1, <1>2, <1>3 DEF FirstLetter, Width
<1> DEFINE of(x, y, z) == IF x < 8 THEN x ELSE IF x < 12 THEN 2 * (x - 4) + y ELSE 8 * (x - 10) + z
<1>5. m = n /\ (m >= 8 /\ m < 12 => a4 = b4) /\ (m >= 12 => t = u) /\ m \in 0 .. 15
  <2>1. m \in 0 .. 15 /\ t \in 0 .. 7
    BY <1>1, <1>3
  <2>2. n \in 0 .. 15 /\ u \in 0 .. 7
    BY <1>2, <1>3
  <2>3. of(m, a4, t) = of(n, b4, u)
    BY <1>4
  <2>4. a4 \in 0 .. 1 /\ b4 \in 0 .. 1
    OBVIOUS
  <2> QED
    BY <2>1, <2>2, <2>3, <2>4
<1>6. a0 = b0 /\ a1 = b1 /\ a2 = b2 /\ a3 = b3
  BY <1>3, <1>5
<1>7. m >= 12 => a4 = b4 /\ a5 = b5 /\ a6 = b6
  BY <1>3, <1>5
<1>8. m >= 8 => a4 = b4
  BY <1>5, <1>7
<1>9. p + 0 = p
  OBVIOUS
<1>10. ASSUME NEW j \in 0 .. Width(a, p) - 1 PROVE BitAt(a, p + j) = BitAt(b, p + j)
  <2>1. \/ j = 0 \/ j = 1 \/ j = 2 \/ j = 3 \/ (j = 4 /\ m >= 8) \/ (j = 5 /\ m >= 12) \/ (j = 6 /\ m >= 12)
    BY <1>4, <1>5
  <2> QED
    BY <1>1, <1>2, <1>6, <1>7, <1>8, <1>9, <2>1
<1> QED
  BY <1>4, <1>5, <1>10

LEMMA ConsIsOne ==
  ASSUME NEW x, NEW y, NEW S, x \in S, y \in S, NEW s \in Seq(S), NEW t \in Seq(S),
         <<x>> \o s = <<y>> \o t
  PROVE  x = y /\ s = t
<1>1. PICK v, w : v = <<x>> \o s /\ w = <<y>> \o t
  OBVIOUS
<1>2. /\ Len(v) = Len(s) + 1 /\ v[1] = x /\ \A i \in 1 .. Len(s) : v[i + 1] = s[i]
      /\ Len(w) = Len(t) + 1 /\ w[1] = y /\ \A i \in 1 .. Len(t) : w[i + 1] = t[i]
  BY <1>1
<1>3. v = w
  BY <1>1
<1>4. Len(s) = Len(t) /\ \A i \in 1 .. Len(s) : s[i] = t[i]
  BY <1>2, <1>3
<1>5. s = t
  BY <1>4
<1> QED
  BY <1>2, <1>3, <1>5

(* What unpack() makes of the bits from p on. *)
LEMMA FromBit ==
  ASSUME NEW name \in Names, NEW f, \A p \in 1 .. NameBits + 7 : f[p] = Letters(f, name, p),
         NEW p \in 1 .. NameBits + 7
  PROVE  \/ (\A q \in p .. NameBits : name[q] = 0) /\ f[p] = <<>>
         \/ /\ p <= NameBits /\ p + Width(name, p) \in p + 4 .. NameBits + 7
            /\ f[p] = <<FirstLetter(name, p)>> \o f[p + Width(name, p)]
<1>1. f[p] = Letters(f, name, p) /\ p \in 1 .. 35
  BY DEF NameBits
<1>2. ASSUME NEW q \in p .. NameBits PROVE BitAt(name, q) = name[q]
  BY DEF BitAt, NameBits
<1>3. CASE \A q \in p .. NameBits : BitAt(name, q) = 0
  BY <1>1, <1>2, <1>3 DEF Letters
<1>4. CASE ~ \A q \in p .. NameBits : BitAt(name, q) = 0
  <2>1. p <= 28
    BY <1>1, <1>4 DEF NameBits
  <2>2. Width(name, p) \in {4, 5, 7}
    BY DEF Width
  <2>3. p + Width(name, p) \in p + 4 .. 35
    BY <1>1, <2>1, <2>2
  <2>4. f[p] = <<FirstLetter(name, p)>> \o f[p + Width(name, p)]
    BY <1>1, <1>4, Zenon DEF Letters, FirstLetter, Width
  <2> QED
    BY <2>1, <2>3, <2>4 DEF NameBits
<1> QED
  BY <1>3, <1>4

LEMMA LetterIsInt ==
  ASSUME NEW name \in Names, NEW p \in Nat \ {0}
  PROVE  FirstLetter(name, p) \in Int
<1>1. PICK b0, b1, b2, b3, b4, b5, b6 \in {0, 1} :
           /\ BitAt(name, p) = b0 /\ BitAt(name, p + 1) = b1 /\ BitAt(name, p + 2) = b2
           /\ BitAt(name, p + 3) = b3 /\ BitAt(name, p + 4) = b4 /\ BitAt(name, p + 5) = b5
           /\ BitAt(name, p + 6) = b6
           /\ Nibble(name, p) = 8 * b0 + 4 * b1 + 2 * b2 + b3
           /\ Three(name, p + 4) = 4 * b4 + 2 * b5 + b6
  BY SevenBits
<1>2. PICK m, t : m = 8 * b0 + 4 * b1 + 2 * b2 + b3 /\ t = 4 * b4 + 2 * b5 + b6
  OBVIOUS
<1>3. m \in Int /\ t \in Int
  BY <1>2
<1>4. FirstLetter(name, p) = IF m < 8 THEN m ELSE IF m < 12 THEN 2 * (m - 4) + b4 ELSE 8 * (m - 10) + t
  BY <1>1, <1>2 DEF FirstLetter
<1> QED
  BY <1>3, <1>4

LEMMA LettersAreInts ==
  ASSUME NEW name \in Names, NEW f, \A p \in 1 .. NameBits + 7 : f[p] = Letters(f, name, p)
  PROVE  \A p \in 1 .. NameBits + 7 : f[p] \in Seq(Int)
<1> DEFINE S == {d \in Nat : d <= 35 => \A p \in 36 - d .. 35 : f[p] \in Seq(Int)}
<1>1. 0 \in S
  OBVIOUS
<1>2. ASSUME NEW d \in Nat, d \in S PROVE d + 1 \in S
  <2> SUFFICES ASSUME d + 1 <= 35, NEW p \in 36 - (d + 1) .. 35 PROVE f[p] \in Seq(Int)
    OBVIOUS
  <2>1. p \in 1 .. NameBits + 7 /\ p \in Nat \ {0} /\ NameBits + 7 = 35
    BY DEF NameBits
  <2>2. \A q \in p + 1 .. 35 : f[q] \in Seq(Int)
    BY <1>2
  <2>3. CASE f[p] = <<>>
    BY <2>3
  <2>4. CASE /\ p + Width(name, p) \in p + 4 .. NameBits + 7
             /\ f[p] = <<FirstLetter(name, p)>> \o f[p + Width(name, p)]
    <3>1. PICK e \in p + 4 .. 35 : e = p + Width(name, p)
      BY <2>1, <2>4
    <3>2. f[e] \in Seq(Int)
      BY <2>2, <3>1
    <3>3. PICK l, s : l = FirstLetter(name, p) /\ s = f[e]
      OBVIOUS
    <3>4. l \in Int /\ s \in Seq(Int)
      BY <2>1, <3>2, <3>3, LetterIsInt
    <3>5. <<l>> \o s \in Seq(Int)
      BY <3>4
    <3> QED
      BY <2>4, <3>1, <3>3, <3>5
  <2> QED
    BY <2>1, <2>3, <2>4, FromBit
<1> HIDE DEF S
<1>3. 35 \in S
  BY <1>1, <1>2, Induct
<1>4. \A p \in 1 .. 35 : f[p] \in Seq(Int)
  BY <1>3 DEF S
<1>5. NameBits + 7 = 35
  BY DEF NameBits
<1> QED
  BY <1>4, <1>5

LEMMA SpelledOnce ==
  ASSUME NEW a \in Names, NEW b \in Names, Unpack(a) = Unpack(b)
  PROVE  a = b
<1>1. PICK f : Unpack(a) = f[1] /\ \A p \in 1 .. NameBits + 7 : f[p] = Letters(f, a, p)
  BY UnpackIs
<1>2. PICK g : Unpack(b) = g[1] /\ \A p \in 1 .. NameBits + 7 : g[p] = Letters(g, b, p)
  BY UnpackIs
<1>3. \A p \in 1 .. 35 : f[p] \in Seq(Int) /\ g[p] \in Seq(Int)
  <2>1. NameBits + 7 = 35
    BY DEF NameBits
  <2>2. \A p \in 1 .. NameBits + 7 : f[p] \in Seq(Int)
    BY <1>1, LettersAreInts
  <2>3. \A p \in 1 .. NameBits + 7 : g[p] \in Seq(Int)
    BY <1>2, LettersAreInts
  <2> QED
    BY <2>1, <2>2, <2>3
<1> DEFINE agree(p) == \A q \in p .. NameBits : a[q] = b[q]
           S == {d \in Nat : d <= 35 => \A p \in 36 - d .. 35 : f[p] = g[p] => agree(p)}
<1>4. 0 \in S
  OBVIOUS
<1>5. ASSUME NEW d \in Nat, d \in S PROVE d + 1 \in S
  <2> SUFFICES ASSUME d + 1 <= 35, NEW p \in 36 - (d + 1) .. 35, f[p] = g[p] PROVE agree(p)
    OBVIOUS
  <2>1. p \in 1 .. NameBits + 7 /\ p \in Nat \ {0} /\ NameBits = 28
    BY DEF NameBits
  <2>2. \A q \in p + 1 .. 35 : f[q] = g[q] => agree(q)
    BY <1>5
  <2>3. PICK x, y : x = FirstLetter(a, p) /\ y = FirstLetter(b, p)
    OBVIOUS
  <2>4. PICK s, t : s = f[p + Width(a, p)] /\ t = g[p + Width(b, p)]
    OBVIOUS
  <2>5. x \in Int /\ y \in Int
    BY <2>1, <2>3, LetterIsInt
  <2>6. \/ (\A q \in p .. NameBits : a[q] = 0) /\ f[p] = <<>>
        \/ /\ p <= NameBits /\ p + Width(a, p) \in p + 4 .. 35 /\ s \in Seq(Int)
           /\ f[p] = <<x>> \o s
    <3>1. \/ (\A q \in p .. NameBits : a[q] = 0) /\ f[p] = <<>>
          \/ /\ p <= NameBits /\ p + Width(a, p) \in p + 4 .. NameBits + 7
             /\ f[p] = <<FirstLetter(a, p)>> \o f[p + Width(a, p)]
      BY <1>1, <2>1, FromBit
    <3>2. \A e \in p + 4 .. 35 : e \in 1 .. 35
      BY <2>1
    <3>3. \A e \in p + 4 .. 35 : f[e] \in Seq(Int)
      BY <1>3, <3>2
    <3> QED
      BY <2>1, <2>3, <2>4, <3>1, <3>3
  <2>7. \/ (\A q \in p .. NameBits : b[q] = 0) /\ g[p] = <<>>
        \/ /\ p <= NameBits /\ p + Width(b, p) \in p + 4 .. 35 /\ t \in Seq(Int)
           /\ g[p] = <<y>> \o t
    <3>1. \/ (\A q \in p .. NameBits : b[q] = 0) /\ g[p] = <<>>
          \/ /\ p <= NameBits /\ p + Width(b, p) \in p + 4 .. NameBits + 7
             /\ g[p] = <<FirstLetter(b, p)>> \o g[p + Width(b, p)]
      BY <1>2, <2>1, FromBit
    <3>2. \A e \in p + 4 .. 35 : e \in 1 .. 35
      BY <2>1
    <3>3. \A e \in p + 4 .. 35 : g[e] \in Seq(Int)
      BY <1>3, <3>2
    <3> QED
      BY <2>1, <2>3, <2>4, <3>1, <3>3
  <2>8. s \in Seq(Int) => <<x>> \o s # <<>>
    BY <2>5
  <2>9. t \in Seq(Int) => <<y>> \o t # <<>>
    BY <2>5
  <2>10. CASE (\A q \in p .. NameBits : a[q] = 0) /\ (\A q \in p .. NameBits : b[q] = 0)
    BY <2>10
  <2>11. CASE /\ p + Width(a, p) \in p + 4 .. 35 /\ s \in Seq(Int) /\ f[p] = <<x>> \o s
              /\ p + Width(b, p) \in p + 4 .. 35 /\ t \in Seq(Int) /\ g[p] = <<y>> \o t
    <3>1. x = y /\ s = t
      BY <2>5, <2>11, ConsIsOne
    <3>2. PICK w : w = Width(a, p)
      OBVIOUS
    <3>3. /\ Width(b, p) = w
          /\ \A j \in 0 .. w - 1 : BitAt(a, p + j) = BitAt(b, p + j)
      BY <2>1, <2>3, <3>1, <3>2, SameLetter
    <3>4. w \in {4, 5, 7}
      BY <3>2 DEF Width
    <3>5. agree(p + w)
      <4>1. p + w \in p + 1 .. 35
        BY <2>11, <3>2
      <4> QED
        BY <2>2, <2>4, <3>1, <3>2, <3>3, <4>1
    <3>6. ASSUME NEW q \in p .. NameBits PROVE a[q] = b[q]
      <4>1. CASE q >= p + w
        <5>1. q \in p + w .. NameBits
          BY <2>1, <3>4, <4>1
        <5> QED
          BY <3>5, <5>1
      <4>2. CASE q < p + w
        <5>1. PICK j \in 0 .. w - 1 : q = p + j
          BY <3>4, <4>2, q - p \in 0 .. w - 1, q = p + (q - p)
        <5>2. BitAt(a, q) = BitAt(b, q) /\ q <= NameBits
          BY <2>1, <3>3, <5>1
        <5> QED
          BY <5>2 DEF BitAt
      <4> QED
        BY <3>4, <4>1, <4>2
    <3> QED
      BY <3>6
  <2> QED
    BY <2>6, <2>7, <2>8, <2>9, <2>10, <2>11
<1> HIDE DEF S
<1>6. 35 \in S
  BY <1>4, <1>5, Induct
<1>7. f[1] = g[1] => agree(1)
  <2>1. \A p \in 36 - 35 .. 35 : f[p] = g[p] => agree(p)
    BY <1>6 DEF S
  <2> HIDE DEF agree
  <2> QED
    BY <2>1
<1>8. \A q \in 1 .. NameBits : a[q] = b[q]
  BY <1>1, <1>2, <1>7
<1>9. PICK D : D = 1 .. NameBits
  OBVIOUS
<1>10. a \in [D -> Bit] /\ b \in [D -> Bit] /\ \A q \in D : a[q] = b[q]
  BY <1>8, <1>9 DEF Names
<1>11. a = b
  BY <1>10
<1> QED
  BY <1>11

(* The bits of any cell are a name. *)
LEMMA PadIsName ==
  ASSUME NEW b \in Seq(Bit)
  PROVE  Pad(b) \in Names
BY PadIs DEF Names

(* However a name came about, it runs the built-in word it is shown as. *)
LEMMA NameFound ==
  ASSUME NEW name \in Names
  PROVE  Lookup(name) = Means(Unpack(name))
<1> DEFINE hit(i) == Dictionary[i].name = name
<1>1. PICK w : w = Unpack(name)
  OBVIOUS
<1>2. ASSUME NEW i \in DOMAIN Dictionary
      PROVE  /\ Dictionary[i].code \in DOMAIN Spelling
             /\ hit(i) <=> Spelling[Dictionary[i].code] = w
  <2>1. DictionaryEntry(i)
    BY Entries, SpellingsDiffer
  <2>2. PICK s : s = Spelling[Dictionary[i].code]
    OBVIOUS
  <2>3. s \in Seq(Letter) /\ Len(Coded(s)) <= NameBits /\ Dictionary[i].name = Pack(s)
    BY <2>1, <2>2 DEF DictionaryEntry
  <2>4. Unpack(Pack(s)) = s
    BY <2>3, UnpackPack
  <2>5. Pack(s) \in Names
    BY <2>3, CodedBits, PadIsName DEF Pack
  <2>6. s = w => Pack(s) = name
    BY <1>1, <2>4, <2>5, SpelledOnce
  <2> QED
    BY <1>1, <2>1, <2>2, <2>3, <2>4, <2>6 DEF DictionaryEntry
<1>3. CASE \E c \in DOMAIN Spelling : Spelling[c] = w
  <2>1. PICK c \in DOMAIN Spelling : Spelling[c] = w
    BY <1>3
  <2>2. \A d \in DOMAIN Spelling : Spelling[d] = w => d = c
    BY <2>1, SpellingsDiffer
  <2>3. Means(w) = c
    <3>1. Means(w) = CHOOSE d \in DOMAIN Spelling : Spelling[d] = w
      BY <2>1 DEF Means
    <3> QED
      BY <2>1, <2>2, <3>1
  <2>4. PICK i \in DOMAIN Dictionary : Dictionary[i].code = c
    BY SpellingsDiffer
  <2>5. hit(i)
    BY <1>2, <2>1, <2>4
  <2>6. PICK j : j = CHOOSE e \in DOMAIN Dictionary : hit(e)
    OBVIOUS
  <2>7. j \in DOMAIN Dictionary /\ hit(j)
    BY <2>5, <2>6
  <2>8. Lookup(name) = Dictionary[j].code
    BY <2>5, <2>6 DEF Lookup
  <2> QED
    BY <1>1, <1>2, <2>2, <2>3, <2>7, <2>8
<1>4. CASE ~ \E c \in DOMAIN Spelling : Spelling[c] = w
  <2>1. Means(w) = "none"
    BY <1>4 DEF Means
  <2>2. ~ \E i \in DOMAIN Dictionary : hit(i)
    BY <1>2, <1>4
  <2> QED
    BY <1>1, <2>1, <2>2 DEF Lookup
<1> QED
  BY <1>3, <1>4

LEMMA CellIsName ==
  ASSUME NEW n \in DOMAIN Blocks, NEW i \in 1 .. BlockCells
  PROVE  NameOf(Blocks[n][i]) \in Names
<1>1. PICK c : c = Blocks[n][i]
  OBVIOUS
<1>2. CASE "name" \in DOMAIN c
  <2>1. c.name \in Names
    BY <1>1, <1>2, ForthAssumption DEF Names, Bit
  <2> QED
    BY <1>1, <1>2, <2>1 DEF NameOf
<1>3. CASE "name" \notin DOMAIN c
  <2>1. c.cell \in Int
    BY <1>1, <1>3, ForthAssumption, CellSize
  <2>2. PICK m \in Nat \ {0} : m = 2 ^ CellBits
    BY CellSize
  <2>3. PICK x \in Int : x = c.cell
    BY <2>1
  <2>4. (x % m) \div 16 \in Nat
    <3>1. x % m \in Nat
      OBVIOUS
    <3>2. (x % m) \div 16 \in 0 .. x % m
      BY <3>1, DivLess
    <3> QED
      BY <3>1, <3>2
  <2>5. CellBits - 4 \in Nat
    BY WordsAssumption
  <2>6. Bits((x % m) \div 16, CellBits - 4) \in Seq(Bit)
    BY <2>4, <2>5, BitsAre
  <2>7. Pad(Bits((x % m) \div 16, CellBits - 4)) \in Names
    BY <2>6, PadIsName
  <2> QED
    BY <1>1, <1>3, <2>2, <2>3, <2>7 DEF NameOf
<1> QED
  BY <1>2, <1>3

-----------------------------------------------------------------------------
(* The equations of the meaning.                                           *)

Runs == [Int -> [Stacks -> Results]]

LEMMA ResultTypes ==
  /\ Bad \in Results /\ Deep \in Results /\ \A s \in Stacks : Good(s) \in Results
  /\ \A r \in Results : r.is = "good" => r.stack \in Stacks /\ r = Good(r.stack)
  /\ Bad.is = "bad" /\ Deep.is = "deep" /\ \A s : Good(s).is = "good" /\ Good(s).stack = s
  /\ \A r \in Results : r.is # "good" => r \in {Bad, Deep}
BY DEF Results, Good, Bad, Deep

LEMMA ThenType ==
  ASSUME NEW r \in Results, NEW rest \in [Stacks -> Results]
  PROVE  Then(r, rest) \in Results
BY ResultTypes DEF Then

LEMMA AfterBlocksIs ==
  ASSUME NEW run \in Runs
  PROVE  /\ AfterBlocks(run) \in [Nat -> Runs]
         /\ \A i \in Int, s \in Stacks : AfterBlocks(run)[0][i][s] = Good(s)
         /\ \A k \in Nat \ {0}, i \in Int, s \in Stacks :
              AfterBlocks(run)[k][i][s] =
                IF Len(s) >= StackSize THEN Bad
                ELSE Then(run[i][s], AfterBlocks(run)[k - 1][i + 2])
<1> DEFINE first == [i \in Int |-> [s \in Stacks |-> Good(s)]]
           value(h, i, s) == IF Len(s) >= StackSize THEN Bad ELSE Then(run[i][s], h[i + 2])
           step(h) == [i \in Int |-> [s \in Stacks |-> value(h, i, s)]]
           is(f) == f = [k \in Nat |-> [i \in Int |-> [s \in Stacks |->
                      IF k = 0 THEN Good(s)
                      ELSE IF Len(s) >= StackSize THEN Bad
                      ELSE Then(run[i][s], f[k - 1][i + 2])]]]
<1>1. AfterBlocks(run) = CHOOSE f : is(f)
  BY DEF AfterBlocks
<1>2. PICK c : c = first
  OBVIOUS
<1>3. c \in Runs
  BY <1>2, ResultTypes DEF Runs
<1>4. ASSUME NEW h \in Runs PROVE step(h) \in Runs
  <2>1. ASSUME NEW i \in Int, NEW s \in Stacks PROVE value(h, i, s) \in Results
    <3>1. i + 2 \in Int /\ run[i] \in [Stacks -> Results]
      BY DEF Runs
    <3>2. h[i + 2] \in [Stacks -> Results] /\ run[i][s] \in Results
      BY <3>1 DEF Runs
    <3> QED
      BY <3>2, ThenType, ResultTypes
  <2> HIDE DEF value
  <2> QED
    BY <2>1 DEF Runs
<1>5. PICK G : G = [k \in Nat |-> [h \in Runs |-> step(h)]]
  OBVIOUS
<1> HIDE DEF step
<1>6. G \in [Nat -> [Runs -> Runs]]
  BY <1>4, <1>5
<1>7. PICK f \in [Nat -> Runs] : f[0] = c /\ \A k \in Nat \ {0} : f[k] = G[k][f[k - 1]]
  BY <1>3, <1>6, RecursionNat DEF Ascends
<1>8. ASSUME NEW k \in Nat \ {0} PROVE f[k] = step(f[k - 1])
  <2>1. k \in Nat /\ k - 1 \in Nat
    OBVIOUS
  <2>2. f[k - 1] \in Runs
    BY <2>1
  <2> QED
    BY <1>5, <1>7, <2>1, <2>2
<1>9. is(f)
  <2>1. ASSUME NEW k \in Nat
        PROVE  f[k] = [i \in Int |-> [s \in Stacks |->
                      IF k = 0 THEN Good(s)
                      ELSE IF Len(s) >= StackSize THEN Bad
                      ELSE Then(run[i][s], f[k - 1][i + 2])]]
    <3>1. CASE k = 0
      BY <1>2, <1>7, <3>1
    <3>2. CASE k # 0
      BY <1>8, <3>2 DEF step
    <3> QED
      BY <3>1, <3>2
  <2> QED
    BY <2>1
<1>10. PICK g : g = AfterBlocks(run)
  OBVIOUS
<1>11. is(g)
  BY <1>1, <1>9, <1>10
<1>12. ASSUME NEW k \in Nat
       PROVE  g[k] = IF k = 0 THEN c ELSE step(g[k - 1])
  <2>1. CASE k = 0
    BY <1>2, <1>11, <2>1
  <2>2. CASE k # 0
    BY <1>11, <2>2 DEF step
  <2> QED
    BY <2>1, <2>2
<1>13. g \in [Nat -> Runs]
  <2>1. \A k \in Nat : k \in {e \in Nat : g[e] \in Runs}
    <3> DEFINE S == {e \in Nat : g[e] \in Runs}
    <3>1. 0 \in S
      BY <1>3, <1>12
    <3>2. ASSUME NEW k \in Nat, k \in S PROVE k + 1 \in S
      <4>1. k + 1 \in Nat /\ k + 1 # 0 /\ (k + 1) - 1 = k /\ g[k] \in Runs
        BY <3>2
      <4>2. g[k + 1] = step(g[k])
        BY <1>12, <4>1
      <4> QED
        BY <1>4, <4>1, <4>2
    <3> HIDE DEF S
    <3> QED
      BY <3>1, <3>2, Induct DEF S
  <2>2. g = [k \in Nat |-> g[k]]
    BY <1>11
  <2> QED
    BY <2>1, <2>2
<1>14. \A i \in Int, s \in Stacks : g[0][i][s] = Good(s)
  BY <1>2, <1>12
<1>15. ASSUME NEW k \in Nat \ {0}, NEW i \in Int, NEW s \in Stacks
       PROVE  g[k][i][s] = IF Len(s) >= StackSize THEN Bad ELSE Then(run[i][s], g[k - 1][i + 2])
  <2>1. g[k] = step(g[k - 1])
    BY <1>12
  <2> QED
    BY <2>1 DEF step
<1> QED
  BY <1>10, <1>13, <1>14, <1>15

LEMMA StackParts ==
  ASSUME NEW s \in Stacks, NEW n \in 0 .. 2, Len(s) >= n
  PROVE  /\ SubSeq(s, 1, Len(s) - n) \in Stacks
         /\ n >= 1 => s[Len(s)] \in CellRange
         /\ n = 2 => s[Len(s) - 1] \in CellRange
<1>1. s \in Seq(CellRange) /\ Len(s) \in Nat
  BY DEF Stacks
<1>2. SubSeq(s, 1, Len(s) - n) \in Seq(CellRange)
  BY <1>1
<1>3. n >= 1 => Len(s) \in 1 .. Len(s)
  BY <1>1
<1>4. n = 2 => Len(s) - 1 \in 1 .. Len(s)
  BY <1>1
<1> QED
  BY <1>1, <1>2, <1>3, <1>4 DEF Stacks

LEMMA MoreStack ==
  ASSUME NEW s \in Stacks, NEW v \in CellRange
  PROVE  Append(s, v) \in Stacks
BY DEF Stacks

LEMMA NumberOfCell ==
  ASSUME NEW x \in CellRange
  PROVE  x \div 32 \in CellRange
<1>1. PICK m \in Nat \ {0} : m = 2 ^ (CellBits - 1)
  BY CellSize
<1>2. x \in -m .. m - 1
  BY <1>1 DEF CellRange
<1>3. x \div 32 \in -m .. m - 1
  BY <1>2
<1> QED
  BY <1>1, <1>3 DEF CellRange

LEMMA Counted ==
  ASSUME NEW nos \in Int, NEW top \in Int
  PROVE  (IF nos > top THEN 0 ELSE (top - nos + 2) \div 2) \in Nat
OBVIOUS

LEMMA AfterWordType ==
  ASSUME NEW run \in Runs, NEW s \in Stacks, NEW code \in DOMAIN Takes
  PROVE  AfterWord(run, s, code) \in Results
<1>1. code \in {"comma", "load", "loads", "forth", "macro", "dot", "add", "divide", "none"}
  BY DEF Takes
<1>2. PICK n, rest, top, nos : /\ n = Takes[code] /\ rest = SubSeq(s, 1, Len(s) - n)
                               /\ top = s[Len(s)] /\ nos = s[Len(s) - 1]
  OBVIOUS
<1>3. Bad \in Results /\ \A q \in Stacks : Good(q) \in Results
  BY ResultTypes
<1>4. CASE Len(s) < n
  BY <1>2, <1>3, <1>4 DEF AfterWord
<1>5. CASE code \in {"comma", "forth", "macro", "none"} /\ ~(Len(s) < n)
  <2>1. n = 0
    BY <1>2, <1>5 DEF Takes
  <2>2. AfterWord(run, s, code) = Good(s)
    BY <1>2, <1>5, <2>1 DEF AfterWord
  <2> QED
    BY <1>3, <2>2
<1>6. CASE code \in {"load", "dot"} /\ ~(Len(s) < n)
  <2>1. n = 1
    BY <1>2, <1>6 DEF Takes
  <2>2. Len(s) >= 1 /\ 1 \in 0 .. 2 /\ 1 >= 1
    BY <1>6, <2>1 DEF Stacks
  <2>3. rest \in Stacks /\ top \in CellRange
    BY <1>2, <2>1, <2>2, StackParts
  <2>4. run[top] \in [Stacks -> Results]
    BY <2>3, CellSize DEF Runs
  <2>5. AfterWord(run, s, code) = IF code = "dot" THEN Good(rest) ELSE run[top][rest]
    BY <1>2, <1>6, <2>1 DEF AfterWord
  <2> QED
    BY <1>3, <2>3, <2>4, <2>5
<1>7. CASE code \in {"loads", "add", "divide"} /\ ~(Len(s) < n)
  <2>1. n = 2
    BY <1>2, <1>7 DEF Takes
  <2>2. Len(s) >= 2 /\ 2 \in 0 .. 2 /\ 2 >= 1
    BY <1>7, <2>1 DEF Stacks
  <2>3. rest \in Stacks /\ top \in CellRange /\ nos \in CellRange
    BY <1>2, <2>1, <2>2, StackParts
  <2>4. top \in Int /\ nos \in Int
    BY <2>3, CellSize
  <2>5. CASE code = "add"
    <3>1. AfterWord(run, s, code) = Good(Append(rest, Signed(nos + top)))
      BY <1>2, <1>7, <2>1, <2>5 DEF AfterWord
    <3>2. Signed(nos + top) \in CellRange
      BY <2>4, SignedIsCell
    <3> QED
      BY <1>3, <2>3, <3>1, <3>2, MoreStack
  <2>6. CASE code = "divide"
    <3>1. AfterWord(run, s, code) =
            IF top = 0 \/ Quotient(nos, top) \notin CellRange THEN Bad
            ELSE Good(Append(rest, Quotient(nos, top)))
      BY <1>2, <1>7, <2>1, <2>6 DEF AfterWord
    <3> QED
      BY <1>3, <2>3, <3>1, MoreStack
  <2>7. CASE code = "loads"
    <3>1. PICK k \in Nat : k = IF nos > top THEN 0 ELSE (top - nos + 2) \div 2
      BY <2>4, Counted
    <3>2. AfterWord(run, s, code) = AfterBlocks(run)[k][nos][rest]
      BY <1>2, <1>7, <2>1, <2>7, <3>1 DEF AfterWord
    <3>3. AfterBlocks(run)[k] \in Runs
      BY AfterBlocksIs
    <3>4. AfterBlocks(run)[k][nos] \in [Stacks -> Results]
      BY <2>4, <3>3 DEF Runs
    <3> QED
      BY <2>3, <3>2, <3>4
  <2> QED
    BY <1>7, <2>5, <2>6, <2>7
<1> QED
  BY <1>1, <1>4, <1>5, <1>6, <1>7

LEMMA MeansType ==
  \A spelled : Means(spelled) \in DOMAIN Takes
<1> SUFFICES ASSUME NEW spelled PROVE Means(spelled) \in DOMAIN Takes
  OBVIOUS
<1>1. Means(spelled) \in DOMAIN Spelling \cup {"none"}
  BY DEF Means
<1> QED
  BY <1>1 DEF Spelling, Takes

LEMMA AfterCellType ==
  ASSUME NEW run \in Runs, NEW s \in Stacks, NEW c, c.color = NumberTag => c.cell \in CellRange
  PROVE  AfterCell(run, s, c) \in Results
<1>1. CASE c.color = WordTag
  <2>1. AfterCell(run, s, c) = AfterWord(run, s, Means(Unpack(NameOf(c))))
    BY <1>1 DEF AfterCell, WordTag, NumberTag
  <2> QED
    BY <2>1, MeansType, AfterWordType
<1>2. CASE c.color = NumberTag
  <2>1. AfterCell(run, s, c) = Pushed(s, c.cell \div 32)
    BY <1>2 DEF AfterCell, WordTag, NumberTag
  <2>2. c.cell \div 32 \in CellRange
    BY <1>2, NumberOfCell
  <2> QED
    BY <2>1, <2>2, MoreStack, ResultTypes DEF Pushed
<1>3. CASE c.color # WordTag /\ c.color # NumberTag
  BY <1>3, ResultTypes DEF AfterCell
<1> QED
  BY <1>1, <1>2, <1>3

(* A cell of the disk that is a number is one of the cells. *)
LEMMA NumberOnDisk ==
  ASSUME NEW n \in DOMAIN Blocks, NEW i \in 1 .. BlockCells, Blocks[n][i].color = NumberTag
  PROVE  Blocks[n][i].cell \in CellRange
BY ForthAssumption

LEMMA AfterCellsIs ==
  ASSUME NEW run \in Runs, NEW cells,
         \A i \in 1 .. BlockCells : cells[i].color = NumberTag => cells[i].cell \in CellRange
  PROVE  /\ AfterCells(run, cells) \in [1 .. BlockCells -> [Stacks -> Results]]
         /\ \A s \in Stacks : AfterCells(run, cells)[BlockCells][s] = Good(s)
         /\ \A i \in 1 .. BlockCells, s \in Stacks : i < BlockCells =>
              AfterCells(run, cells)[i][s] =
                IF i \in DataOf(cells) THEN AfterCells(run, cells)[i + 1][s]
                ELSE Then(AfterCell(run, s, cells[i]), AfterCells(run, cells)[i + 1])
<1> DEFINE T == [Stacks -> Results]
           last == [s \in Stacks |-> Good(s)]
           step(h, i) == [s \in Stacks |->
                            IF i \in DataOf(cells) THEN h[s]
                            ELSE Then(AfterCell(run, s, cells[i]), h)]
           is(f) == f = [i \in 1 .. BlockCells |-> [s \in Stacks |->
                      IF i = BlockCells THEN Good(s)
                      ELSE IF i \in DataOf(cells) THEN f[i + 1][s]
                      ELSE Then(AfterCell(run, s, cells[i]), f[i + 1])]]
<1>1. AfterCells(run, cells) = CHOOSE f : is(f)
  BY DEF AfterCells
<1>2. PICK c : c = last
  OBVIOUS
<1>3. c \in T
  BY <1>2, ResultTypes
<1>4. ASSUME NEW h \in T, NEW i \in 1 .. BlockCells PROVE step(h, i) \in T
  <2>1. ASSUME NEW s \in Stacks PROVE Then(AfterCell(run, s, cells[i]), h) \in Results
    <3>1. AfterCell(run, s, cells[i]) \in Results
      BY AfterCellType
    <3> QED
      BY <3>1, ThenType
  <2> QED
    BY <2>1
<1>5. PICK N \in Nat \ {0} : N = BlockCells
  BY WordsAssumption
<1>6. PICK G : G = [i \in 1 .. N |-> [h \in T |-> step(h, i)]]
  OBVIOUS
<1> HIDE DEF step, T
<1>7. G \in [1 .. N -> [T -> T]]
  BY <1>4, <1>5, <1>6
<1>8. PICK f \in [1 .. N -> T] : f[N] = c /\ \A i \in 1 .. N - 1 : f[i] = G[i][f[i + 1]]
  <2>1. PICK U : U = T
    OBVIOUS
  <2>2. c \in U /\ G \in [1 .. N -> [U -> U]]
    BY <1>3, <1>7, <2>1
  <2>3. \E f \in [1 .. N -> U] : Descends(f, c, G, N)
    BY <2>2, RecursionDown
  <2> QED
    BY <2>1, <2>3 DEF Descends
<1>9. ASSUME NEW i \in 1 .. N - 1 PROVE f[i] = step(f[i + 1], i)
  <2>1. i \in 1 .. N /\ i + 1 \in 1 .. N
    OBVIOUS
  <2>2. f[i + 1] \in T
    BY <2>1
  <2> QED
    BY <1>6, <1>8, <2>1, <2>2
<1>10. is(f)
  <2>1. ASSUME NEW i \in 1 .. N
        PROVE  f[i] = [s \in Stacks |->
                      IF i = N THEN Good(s)
                      ELSE IF i \in DataOf(cells) THEN f[i + 1][s]
                      ELSE Then(AfterCell(run, s, cells[i]), f[i + 1])]
    <3>1. CASE i = N
      BY <1>2, <1>8, <3>1
    <3>2. CASE i # N
      <4>1. i \in 1 .. N - 1
        BY <3>2
      <4> QED
        BY <1>9, <3>2, <4>1 DEF step
    <3> QED
      BY <3>1, <3>2
  <2> QED
    BY <1>5, <2>1
<1>11. PICK g : g = AfterCells(run, cells)
  OBVIOUS
<1>12. is(g)
  BY <1>1, <1>10, <1>11
<1>13. g[N] = c
  <2>1. N \in 1 .. N
    OBVIOUS
  <2> QED
    BY <1>2, <1>5, <1>12, <2>1
<1>14. ASSUME NEW i \in 1 .. N - 1 PROVE g[i] = step(g[i + 1], i)
  <2>1. i \in 1 .. N /\ i # N
    OBVIOUS
  <2> QED
    BY <1>5, <1>12, <2>1 DEF step
<1>15. g \in [1 .. N -> T]
  <2> DEFINE S == {d \in Nat : d < N => g[N - d] \in T}
  <2>1. 0 \in S
    <3>1. N - 0 = N
      OBVIOUS
    <3> QED
      BY <1>3, <1>13, <3>1
  <2>2. ASSUME NEW d \in Nat, d \in S PROVE d + 1 \in S
    <3> SUFFICES ASSUME d + 1 < N PROVE g[N - (d + 1)] \in T
      OBVIOUS
    <3>1. PICK i \in 1 .. N - 1 : i = N - (d + 1)
      OBVIOUS
    <3>2. i + 1 = N - d /\ d < N
      BY <3>1
    <3>3. g[i + 1] \in T
      BY <2>2, <3>2
    <3>4. i \in 1 .. BlockCells
      BY <1>5
    <3> QED
      BY <1>4, <1>14, <3>1, <3>3, <3>4
  <2> HIDE DEF S
  <2>3. \A d \in Nat : d \in S
    BY <2>1, <2>2, Induct
  <2>4. ASSUME NEW i \in 1 .. N PROVE g[i] \in T
    <3>1. N - i \in Nat /\ N - i < N /\ N - (N - i) = i
      OBVIOUS
    <3> QED
      BY <2>3, <3>1 DEF S
  <2>5. g = [i \in 1 .. N |-> g[i]]
    BY <1>5, <1>12
  <2> QED
    BY <2>4, <2>5
<1>16. \A s \in Stacks : g[BlockCells][s] = Good(s)
  BY <1>2, <1>5, <1>13
<1>17. ASSUME NEW i \in 1 .. BlockCells, NEW s \in Stacks, i < BlockCells
       PROVE  g[i][s] = IF i \in DataOf(cells) THEN g[i + 1][s]
                        ELSE Then(AfterCell(run, s, cells[i]), g[i + 1])
  <2>1. i \in 1 .. N - 1
    BY <1>5, <1>17
  <2>2. g[i] = step(g[i + 1], i)
    BY <1>14, <2>1
  <2> QED
    BY <2>2 DEF step
<1> QED
  BY <1>5, <1>11, <1>15, <1>16, <1>17 DEF T

LEMMA AfterBlockIs ==
  /\ AfterBlock \in [Nat -> Runs]
  /\ \A d \in Nat, n \in Int, s \in Stacks :
       AfterBlock[d][n][s] =
         IF n \notin DOMAIN Blocks THEN Bad
         ELSE IF d = 0 THEN Deep
         ELSE AfterCells(AfterBlock[d - 1], Blocks[n])[1][s]
<1> DEFINE first == [n \in Int |-> [s \in Stacks |-> IF n \notin DOMAIN Blocks THEN Bad ELSE Deep]]
           step(h) == [n \in Int |-> [s \in Stacks |->
                         IF n \notin DOMAIN Blocks THEN Bad ELSE AfterCells(h, Blocks[n])[1][s]]]
           is(f) == f = [d \in Nat |-> [n \in Int |-> [s \in Stacks |->
                      IF n \notin DOMAIN Blocks THEN Bad
                      ELSE IF d = 0 THEN Deep
                      ELSE AfterCells(f[d - 1], Blocks[n])[1][s]]]]
<1>1. AfterBlock = CHOOSE f : is(f)
  BY DEF AfterBlock
<1>2. PICK c : c = first
  OBVIOUS
<1>3. c \in Runs
  BY <1>2, ResultTypes DEF Runs
<1>4. ASSUME NEW h \in Runs PROVE step(h) \in Runs
  <2>1. ASSUME NEW n \in DOMAIN Blocks, NEW s \in Stacks
        PROVE  AfterCells(h, Blocks[n])[1][s] \in Results
    <3>1. PICK cells : cells = Blocks[n]
      OBVIOUS
    <3>2. \A i \in 1 .. BlockCells : cells[i].color = NumberTag => cells[i].cell \in CellRange
      BY <3>1, NumberOnDisk
    <3>3. AfterCells(h, cells) \in [1 .. BlockCells -> [Stacks -> Results]]
      BY <3>2, AfterCellsIs
    <3>4. 1 \in 1 .. BlockCells
      BY WordsAssumption
    <3>5. AfterCells(h, cells)[1] \in [Stacks -> Results]
      BY <3>3, <3>4
    <3> QED
      BY <3>1, <3>5
  <2> QED
    BY <2>1, ResultTypes DEF Runs
<1>5. PICK G : G = [d \in Nat |-> [h \in Runs |-> step(h)]]
  OBVIOUS
<1> HIDE DEF step
<1>6. G \in [Nat -> [Runs -> Runs]]
  BY <1>4, <1>5
<1>7. PICK f \in [Nat -> Runs] : f[0] = c /\ \A d \in Nat \ {0} : f[d] = G[d][f[d - 1]]
  <2>1. PICK U : U = Runs
    OBVIOUS
  <2>2. c \in U /\ G \in [Nat -> [U -> U]]
    BY <1>3, <1>6, <2>1
  <2>3. \E f \in [Nat -> U] : Ascends(f, c, G)
    BY <2>2, RecursionNat
  <2> QED
    BY <2>1, <2>3 DEF Ascends
<1>8. ASSUME NEW d \in Nat \ {0} PROVE f[d] = step(f[d - 1])
  <2>1. d \in Nat /\ d - 1 \in Nat
    OBVIOUS
  <2>2. f[d - 1] \in Runs
    BY <2>1
  <2> QED
    BY <1>5, <1>7, <2>1, <2>2
<1>9. is(f)
  <2>1. ASSUME NEW d \in Nat
        PROVE  f[d] = [n \in Int |-> [s \in Stacks |->
                      IF n \notin DOMAIN Blocks THEN Bad
                      ELSE IF d = 0 THEN Deep
                      ELSE AfterCells(f[d - 1], Blocks[n])[1][s]]]
    <3>1. CASE d = 0
      BY <1>2, <1>7, <3>1
    <3>2. CASE d # 0
      BY <1>8, <3>2 DEF step
    <3> QED
      BY <3>1, <3>2
  <2> QED
    BY <2>1
<1>10. PICK g : g = AfterBlock
  OBVIOUS
<1>11. is(g)
  BY <1>1, <1>9, <1>10
<1>12. ASSUME NEW d \in Nat
       PROVE  g[d] = IF d = 0 THEN c ELSE step(g[d - 1])
  <2>1. CASE d = 0
    BY <1>2, <1>11, <2>1
  <2>2. CASE d # 0
    BY <1>11, <2>2 DEF step
  <2> QED
    BY <2>1, <2>2
<1>13. g \in [Nat -> Runs]
  <2>1. \A d \in Nat : d \in {e \in Nat : g[e] \in Runs}
    <3> DEFINE S == {e \in Nat : g[e] \in Runs}
    <3>1. 0 \in S
      BY <1>3, <1>12
    <3>2. ASSUME NEW d \in Nat, d \in S PROVE d + 1 \in S
      <4>1. d + 1 \in Nat /\ d + 1 # 0 /\ (d + 1) - 1 = d /\ g[d] \in Runs
        BY <3>2
      <4>2. g[d + 1] = step(g[d])
        BY <1>12, <4>1
      <4> QED
        BY <1>4, <4>1, <4>2
    <3> HIDE DEF S
    <3> QED
      BY <3>1, <3>2, Induct DEF S
  <2>2. g = [d \in Nat |-> g[d]]
    BY <1>11
  <2> QED
    BY <2>1, <2>2
<1>14. ASSUME NEW d \in Nat, NEW n \in Int, NEW s \in Stacks
       PROVE  g[d][n][s] = IF n \notin DOMAIN Blocks THEN Bad
                           ELSE IF d = 0 THEN Deep
                           ELSE AfterCells(g[d - 1], Blocks[n])[1][s]
  <2>1. g[d] = [m \in Int |-> [q \in Stacks |->
                  IF m \notin DOMAIN Blocks THEN Bad
                  ELSE IF d = 0 THEN Deep
                  ELSE AfterCells(g[d - 1], Blocks[m])[1][q]]]
    BY <1>11
  <2>2. g[d][n] = [q \in Stacks |->
                  IF n \notin DOMAIN Blocks THEN Bad
                  ELSE IF d = 0 THEN Deep
                  ELSE AfterCells(g[d - 1], Blocks[n])[1][q]]
    BY <2>1
  <2> QED
    BY <2>2
<1> QED
  BY <1>10, <1>13, <1>14

(* The cells of a block of the disk, when d more blocks may be open. *)
InBlock(d, n) == AfterCells(AfterBlock[d], Blocks[n])

LEMMA InBlockIs ==
  ASSUME NEW d \in Nat, NEW n \in DOMAIN Blocks
  PROVE  /\ InBlock(d, n) \in [1 .. BlockCells -> [Stacks -> Results]]
         /\ \A s \in Stacks : InBlock(d, n)[BlockCells][s] = Good(s)
         /\ \A i \in 1 .. BlockCells, s \in Stacks : i < BlockCells =>
              InBlock(d, n)[i][s] =
                IF i \in DataOf(Blocks[n]) THEN InBlock(d, n)[i + 1][s]
                ELSE Then(AfterCell(AfterBlock[d], s, Blocks[n][i]), InBlock(d, n)[i + 1])
<1>1. PICK cells, run : cells = Blocks[n] /\ run = AfterBlock[d]
  OBVIOUS
<1>2. \A i \in 1 .. BlockCells : cells[i].color = NumberTag => cells[i].cell \in CellRange
  BY <1>1, NumberOnDisk
<1>3. run \in Runs
  BY <1>1, AfterBlockIs
<1>4. InBlock(d, n) = AfterCells(run, cells)
  BY <1>1 DEF InBlock
<1> QED
  BY <1>1, <1>2, <1>3, <1>4, AfterCellsIs

-----------------------------------------------------------------------------
(* The calls that are open: what is left of each of them.                  *)

(* How many blocks of the disk a Span is, from where it stands. *)
Left(f) == IF f.at > f.to THEN 0 ELSE (f.to - f.at + 2) \div 2

(* What comes of r by the rest of the call f, when d more blocks may be    *)
(* open: ...                                                               *)
After(f, d, r) ==
  IF r.is # "good" THEN r
  ELSE IF f.kind = "run" THEN InBlock(d, f.at)[f.to][r.stack]
  ELSE AfterBlocks(AfterBlock[d])[Left(f)][f.at][r.stack]

(* ... and m is what comes of r by all calls of fs, the innermost first:   *)
(* before the call k, upto[k] blocks more may be open and result[k] is what *)
(* the calls within it have come to.                                       *)
Unwinds(fs, upto, result) ==
  \A k \in 1 .. Len(fs) :
    /\ upto[k] = IF fs[k].kind = "run" THEN upto[k - 1] - 1 ELSE upto[k - 1]
    /\ result[k - 1] = After(fs[k], upto[k], result[k])

Comes(fs, d, r, m) ==
  \E upto \in [0 .. Len(fs) -> Nat], result \in [0 .. Len(fs) -> Results] :
    /\ upto[0] = Nesting /\ upto[Len(fs)] = d
    /\ result[0] = m /\ result[Len(fs)] = r
    /\ Unwinds(fs, upto, result)

LEMMA NoCalls ==
  ASSUME NEW m \in Results
  PROVE  /\ Comes(<<>>, Nesting, m, m)
         /\ \A d, r : Comes(<<>>, d, r, m) => d = Nesting /\ r = m
<1>1. PICK upto, result : upto = [k \in 0 .. 0 |-> Nesting] /\ result = [k \in 0 .. 0 |-> m]
  OBVIOUS
<1>2. PICK fs : fs = <<>>
  OBVIOUS
<1>3. Len(fs) = 0
  BY <1>2
<1>4. upto \in [0 .. Len(fs) -> Nat] /\ result \in [0 .. Len(fs) -> Results]
  BY <1>1, <1>3, MeaningAssumption
<1>5. upto[0] = Nesting /\ result[0] = m
  BY <1>1
<1>6. Unwinds(fs, upto, result)
  BY <1>3 DEF Unwinds
<1>7. Comes(fs, Nesting, m, m)
  BY <1>3, <1>4, <1>5, <1>6 DEF Comes
<1>8. ASSUME NEW d, NEW r, Comes(fs, d, r, m) PROVE d = Nesting /\ r = m
  BY <1>3, <1>8 DEF Comes
<1> QED
  BY <1>2, <1>7, <1>8

(* A call more: its rest comes first. *)
LEMMA CallMore ==
  ASSUME NEW fs \in Seq(Frame), NEW f \in Frame, NEW d \in Nat, NEW e \in Nat,
         e = (IF f.kind = "run" THEN d - 1 ELSE d), NEW r \in Results, NEW m,
         Comes(fs, d, After(f, e, r), m)
  PROVE  Comes(Append(fs, f), e, r, m)
<1>1. PICK n \in Nat : n = Len(fs)
  OBVIOUS
<1>2. PICK upto \in [0 .. n -> Nat], result \in [0 .. n -> Results] :
         /\ upto[0] = Nesting /\ upto[n] = d
         /\ result[0] = m /\ result[n] = After(f, e, r)
         /\ Unwinds(fs, upto, result)
  BY <1>1 DEF Comes
<1>3. PICK gs : gs = Append(fs, f)
  OBVIOUS
<1>4. Len(gs) = n + 1 /\ gs[n + 1] = f /\ \A k \in 1 .. n : gs[k] = fs[k]
  BY <1>1, <1>3
<1>5. PICK up, re : /\ up = [k \in 0 .. n + 1 |-> IF k = n + 1 THEN e ELSE upto[k]]
                    /\ re = [k \in 0 .. n + 1 |-> IF k = n + 1 THEN r ELSE result[k]]
  OBVIOUS
<1>6. /\ up \in [0 .. n + 1 -> Nat] /\ re \in [0 .. n + 1 -> Results]
      /\ up[n + 1] = e /\ re[n + 1] = r
      /\ \A k \in 0 .. n : up[k] = upto[k] /\ re[k] = result[k]
  BY <1>2, <1>5
<1>7. ASSUME NEW k \in 1 .. n + 1
      PROVE  /\ up[k] = IF gs[k].kind = "run" THEN up[k - 1] - 1 ELSE up[k - 1]
             /\ re[k - 1] = After(gs[k], up[k], re[k])
  <2>1. CASE k = n + 1
    <3>1. k - 1 = n /\ n \in 0 .. n
      BY <2>1
    <3> QED
      BY <1>2, <1>4, <1>6, <2>1, <3>1
  <2>2. CASE k # n + 1
    <3>1. k \in 1 .. n /\ k - 1 \in 0 .. n /\ k \in 0 .. n
      BY <2>2
    <3>2. /\ upto[k] = IF fs[k].kind = "run" THEN upto[k - 1] - 1 ELSE upto[k - 1]
          /\ result[k - 1] = After(fs[k], upto[k], result[k])
      BY <1>1, <1>2, <3>1 DEF Unwinds
    <3> QED
      BY <1>4, <1>6, <3>1, <3>2
  <2> QED
    BY <2>1, <2>2
<1>8. Unwinds(gs, up, re)
  BY <1>4, <1>7 DEF Unwinds
<1>9. up[0] = Nesting /\ re[0] = m
  <2>1. 0 \in 0 .. n
    OBVIOUS
  <2> QED
    BY <1>2, <1>6, <2>1
<1>10. Comes(gs, e, r, m)
  BY <1>4, <1>6, <1>8, <1>9 DEF Comes
<1> QED
  BY <1>3, <1>10

(* And a call less. *)
LEMMA CallLess ==
  ASSUME NEW fs \in Seq(Frame), NEW f \in Frame, NEW e, NEW r, NEW m,
         Comes(Append(fs, f), e, r, m)
  PROVE  /\ e \in Nat /\ r \in Results
         /\ \E d \in Nat : /\ e = IF f.kind = "run" THEN d - 1 ELSE d
                           /\ Comes(fs, d, After(f, e, r), m)
<1>1. PICK n \in Nat : n = Len(fs)
  OBVIOUS
<1>2. PICK gs : gs = Append(fs, f)
  OBVIOUS
<1>3. Len(gs) = n + 1 /\ gs[n + 1] = f /\ \A k \in 1 .. n : gs[k] = fs[k]
  BY <1>1, <1>2
<1>4. PICK upto \in [0 .. n + 1 -> Nat], result \in [0 .. n + 1 -> Results] :
         /\ upto[0] = Nesting /\ upto[n + 1] = e
         /\ result[0] = m /\ result[n + 1] = r
         /\ Unwinds(gs, upto, result)
  BY <1>2, <1>3 DEF Comes
<1>5. n + 1 \in 1 .. n + 1 /\ (n + 1) - 1 = n /\ n \in 0 .. n + 1 /\ n + 1 \in 0 .. n + 1
  OBVIOUS
<1>6. /\ e = IF f.kind = "run" THEN upto[n] - 1 ELSE upto[n]
      /\ result[n] = After(f, e, r)
  <2>1. /\ upto[n + 1] = IF gs[n + 1].kind = "run" THEN upto[n] - 1 ELSE upto[n]
        /\ result[n] = After(gs[n + 1], upto[n + 1], result[n + 1])
    BY <1>3, <1>4, <1>5 DEF Unwinds
  <2> QED
    BY <1>3, <1>4, <2>1
<1>7. PICK up, re : up = [k \in 0 .. n |-> upto[k]] /\ re = [k \in 0 .. n |-> result[k]]
  OBVIOUS
<1>8. \A k \in 0 .. n : k \in 0 .. n + 1
  OBVIOUS
<1>9. /\ up \in [0 .. n -> Nat] /\ re \in [0 .. n -> Results]
      /\ \A k \in 0 .. n : up[k] = upto[k] /\ re[k] = result[k]
  BY <1>4, <1>7, <1>8
<1>10. ASSUME NEW k \in 1 .. n
       PROVE  /\ up[k] = IF fs[k].kind = "run" THEN up[k - 1] - 1 ELSE up[k - 1]
              /\ re[k - 1] = After(fs[k], up[k], re[k])
  <2>1. k \in 1 .. n + 1 /\ k - 1 \in 0 .. n /\ k \in 0 .. n
    OBVIOUS
  <2>2. /\ upto[k] = IF gs[k].kind = "run" THEN upto[k - 1] - 1 ELSE upto[k - 1]
        /\ result[k - 1] = After(gs[k], upto[k], result[k])
    BY <1>3, <1>4, <2>1 DEF Unwinds
  <2> QED
    BY <1>3, <1>9, <2>1, <2>2
<1>11. Unwinds(fs, up, re)
  BY <1>1, <1>10 DEF Unwinds
<1>12. /\ up[0] = Nesting /\ re[0] = m
       /\ up[n] = upto[n] /\ re[n] = After(f, e, r)
  <2>1. 0 \in 0 .. n /\ n \in 0 .. n
    OBVIOUS
  <2> QED
    BY <1>4, <1>6, <1>9, <2>1
<1>13. Comes(fs, upto[n], After(f, e, r), m)
  BY <1>1, <1>9, <1>11, <1>12 DEF Comes
<1>14. upto[n] \in Nat /\ e \in Nat /\ r \in Results
  BY <1>4, <1>5
<1> QED
  BY <1>6, <1>13, <1>14

(* What is wrong stays wrong. *)
LEMMA StaysWrong ==
  ASSUME NEW fs \in Seq(Frame), NEW d, NEW r, NEW m, Comes(fs, d, r, m), r.is # "good"
  PROVE  m = r
<1>1. PICK n \in Nat : n = Len(fs)
  OBVIOUS
<1>2. PICK upto \in [0 .. n -> Nat], result \in [0 .. n -> Results] :
         result[0] = m /\ result[n] = r /\ Unwinds(fs, upto, result)
  BY <1>1 DEF Comes
<1> DEFINE S == {j \in Nat : j <= n => result[n - j] = r}
<1>3. 0 \in S
  BY <1>2
<1>4. ASSUME NEW j \in Nat, j \in S PROVE j + 1 \in S
  <2> SUFFICES ASSUME j + 1 <= n PROVE result[n - (j + 1)] = r
    OBVIOUS
  <2>1. PICK k \in 1 .. n : k = n - j
    OBVIOUS
  <2>2. k - 1 = n - (j + 1) /\ result[k] = r
    BY <1>4, <2>1
  <2>3. result[k - 1] = After(fs[k], upto[k], result[k])
    BY <1>1, <1>2 DEF Unwinds
  <2> QED
    BY <2>2, <2>3 DEF After
<1> HIDE DEF S
<1>5. n \in S
  BY <1>3, <1>4, Induct
<1>6. n - n = 0
  OBVIOUS
<1> QED
  BY <1>2, <1>5, <1>6 DEF S

-----------------------------------------------------------------------------
(* One step after the other.                                               *)

(* What is on the stack comes to m by the calls that are open. *)
Sound(m) ==
  \/ m = Deep
  \/ broken /\ m = Bad
  \/ ~broken /\ \E d \in Nat : Comes(frames, d, Good(stack), m)

LEMMA BecomesSound ==
  ASSUME ~broken, NEW s, NEW calls, Becomes(s, calls), NEW m,
         m = Deep \/ \E d \in Nat : Comes(calls, d, Good(s), m)
  PROVE  Sound(m)'
BY DEF Becomes, Sound

LEMMA BreaksSound ==
  ASSUME Breaks, NEW m, m \in {Bad, Deep}
  PROVE  Sound(m)'
BY DEF Breaks, Sound

LEMMA StartsBlock ==
  ASSUME NEW n \in Int, NEW q \in Stacks, NEW d \in Nat, NEW calls \in Seq(Frame), NEW m,
         Comes(calls, d, AfterBlock[d][n][q], m)
  PROVE  IF n \notin DOMAIN Blocks THEN m = Bad
         ELSE m = Deep \/ \E e \in Nat : Comes(Append(calls, Run(n)), e, Good(q), m)
<1>1. CASE n \notin DOMAIN Blocks
  <2>1. AfterBlock[d][n][q] = Bad
    BY <1>1, AfterBlockIs
  <2>2. m = Bad
    BY <2>1, StaysWrong, ResultTypes
  <2> QED
    BY <1>1, <2>2
<1>2. CASE n \in DOMAIN Blocks /\ d = 0
  <2>1. AfterBlock[d][n][q] = Deep
    BY <1>2, AfterBlockIs
  <2>2. m = Deep
    BY <2>1, StaysWrong, ResultTypes
  <2> QED
    BY <1>2, <2>2
<1>3. CASE n \in DOMAIN Blocks /\ d # 0
  <2>1. PICK e \in Nat : e = d - 1
    BY <1>3
  <2>2. AfterBlock[d][n][q] = InBlock(e, n)[1][q]
    BY <1>3, <2>1, AfterBlockIs DEF InBlock
  <2>3. PICK f, r : f = Run(n) /\ r = Good(q)
    OBVIOUS
  <2>4. f \in Frame /\ f.kind = "run" /\ f.at = n /\ f.to = 1
    <3>1. 1 \in 1 .. BlockCells
      BY WordsAssumption
    <3> QED
      BY <1>3, <2>3, <3>1 DEF Run, Frame
  <2>5. r \in Results /\ r.is = "good" /\ r.stack = q
    BY <2>3, ResultTypes
  <2>6. After(f, e, r) = AfterBlock[d][n][q]
    BY <2>2, <2>4, <2>5 DEF After
  <2>7. Comes(calls, d, After(f, e, r), m)
    BY <2>6
  <2>8. e = IF f.kind = "run" THEN d - 1 ELSE d
    BY <2>1, <2>4
  <2>9. Comes(Append(calls, f), e, r, m)
    BY <2>4, <2>5, <2>7, <2>8, CallMore
  <2> QED
    BY <1>3, <2>3, <2>9
<1> QED
  BY <1>1, <1>2, <1>3

LEMMA WordSound ==
  ASSUME ForthInv, ~broken, NEW calls \in Seq(Frame), NEW code \in DOMAIN Takes, NEW d \in Nat,
         NEW m, Comes(calls, d, AfterWord(AfterBlock[d], stack, code), m),
         Execute(code, calls)
  PROVE  Sound(m)'
<1>1. stack \in Stacks /\ Len(stack) \in Nat /\ blocks = Blocks
  BY DEF ForthInv, Stacks
<1>2. PICK n, R : n = Takes[code] /\ R = AfterWord(AfterBlock[d], stack, code)
  OBVIOUS
<1>3. Comes(calls, d, R, m)
  BY <1>2
<1>4. \A k \in {1, 2} : ~Pops(k) <=> Len(stack) < k
  BY <1>1 DEF Pops
<1>5. FromTop(0) = stack[Len(stack)] /\ FromTop(1) = stack[Len(stack) - 1]
  <2>1. Len(stack) - 0 = Len(stack)
    BY <1>1
  <2> QED
    BY <2>1 DEF FromTop
<1>6. R = Bad => m = Bad
  BY <1>3, StaysWrong, ResultTypes
<1>7. CASE code \in {"none", "comma", "forth", "macro"} /\ Becomes(stack, calls)
  <2>1. n = 0
    BY <1>2, <1>7 DEF Takes
  <2>2. R = Good(stack)
    BY <1>1, <1>2, <1>7, <2>1 DEF AfterWord
  <2> QED
    BY <1>3, <1>7, <2>2, BecomesSound
<1>8. CASE code = "load" /\ Load(calls)
  <2>1. n = 1
    BY <1>2, <1>8 DEF Takes
  <2>2. R = IF Len(stack) < 1 THEN Bad ELSE AfterBlock[d][FromTop(0)][Dropped(1)]
    BY <1>2, <1>5, <1>8, <2>1 DEF AfterWord, Dropped
  <2>3. CASE Len(stack) < 1
    <3>1. Breaks
      BY <1>4, <1>8, <2>3 DEF Load
    <3> QED
      BY <1>6, <2>2, <2>3, <3>1, BreaksSound
  <2>4. CASE ~(Len(stack) < 1)
    <3>1. Pops(1) /\ FromTop(0) \in Int /\ Dropped(1) \in Stacks
      <4>1. Pops(1)
        BY <1>4, <2>4
      <4>2. FromTop(0) \in CellRange /\ Dropped(1) \in Seq(CellRange)
        BY <4>1, FromTopCell, 1 \in 1 .. 2
      <4> QED
        BY <4>1, <4>2, CellSize DEF Stacks
    <3>2. PICK t, q : t = FromTop(0) /\ q = Dropped(1)
      OBVIOUS
    <3>3. t \in Int /\ q \in Stacks /\ Comes(calls, d, AfterBlock[d][t][q], m)
      BY <1>3, <2>2, <2>4, <3>1, <3>2
    <3>4. CASE t \notin DOMAIN Blocks
      <4>1. m = Bad
        <5>1. AfterBlock[d][t][q] = Bad
          BY <3>3, <3>4, AfterBlockIs
        <5> QED
          BY <3>3, <5>1, StaysWrong, ResultTypes
      <4>2. Breaks
        BY <1>1, <1>8, <3>2, <3>4 DEF Load
      <4> QED
        BY <4>1, <4>2, BreaksSound
    <3>5. CASE t \in DOMAIN Blocks
      <4>1. m = Deep \/ \E e \in Nat : Comes(Append(calls, Run(t)), e, Good(q), m)
        BY <3>3, <3>5, StartsBlock
      <4>2. Becomes(q, Append(calls, Run(t)))
        BY <1>1, <1>8, <3>1, <3>2, <3>5 DEF Load
      <4>3. PICK more : more = Append(calls, Run(t))
        OBVIOUS
      <4> QED
        BY <4>1, <4>2, <4>3, BecomesSound
    <3> QED
      BY <3>4, <3>5
  <2> QED
    BY <2>3, <2>4
<1>9. CASE code = "dot" /\ Dot(calls)
  <2>1. n = 1
    BY <1>2, <1>9 DEF Takes
  <2>2. R = IF Len(stack) < 1 THEN Bad ELSE Good(Dropped(1))
    BY <1>2, <1>9, <2>1 DEF AfterWord, Dropped
  <2>3. CASE Len(stack) < 1
    <3>1. Breaks
      BY <1>4, <1>9, <2>3 DEF Dot
    <3> QED
      BY <1>6, <2>2, <2>3, <3>1, BreaksSound
  <2>4. CASE ~(Len(stack) < 1)
    <3>1. PICK q : q = Dropped(1)
      OBVIOUS
    <3>2. Becomes(q, calls)
      BY <1>4, <1>9, <2>4, <3>1 DEF Dot
    <3>3. Comes(calls, d, Good(q), m)
      BY <1>3, <2>2, <2>4, <3>1
    <3> QED
      BY <3>2, <3>3, BecomesSound
  <2> QED
    BY <2>3, <2>4
<1>10. CASE code = "add" /\ Add(calls)
  <2>1. n = 2
    BY <1>2, <1>10 DEF Takes
  <2>2. R = IF Len(stack) < 2 THEN Bad
            ELSE Good(Append(Dropped(2), Signed(FromTop(1) + FromTop(0))))
    BY <1>2, <1>5, <1>10, <2>1 DEF AfterWord, Dropped
  <2>3. CASE Len(stack) < 2
    <3>1. Breaks
      BY <1>4, <1>10, <2>3 DEF Add
    <3> QED
      BY <1>6, <2>2, <2>3, <3>1, BreaksSound
  <2>4. CASE ~(Len(stack) < 2)
    <3>1. Pops(2)
      BY <1>4, <2>4
    <3>2. FromTop(0) \in CellRange /\ FromTop(1) \in CellRange
      BY <3>1, FromTopCell, 2 \in 1 .. 2
    <3>3. FromTop(1) + FromTop(0) = FromTop(0) + FromTop(1)
      <4>1. \A x, y \in Int : x + y = y + x
        OBVIOUS
      <4>2. FromTop(0) \in Int /\ FromTop(1) \in Int
        BY <3>2, CellSize
      <4> QED
        BY <4>1, <4>2
    <3>4. PICK q : q = Append(Dropped(2), Signed(FromTop(0) + FromTop(1)))
      OBVIOUS
    <3>5. Becomes(q, calls)
      BY <1>4, <1>10, <2>4, <3>4 DEF Add
    <3>6. Comes(calls, d, Good(q), m)
      BY <1>3, <2>2, <2>4, <3>3, <3>4
    <3> QED
      BY <3>5, <3>6, BecomesSound
  <2> QED
    BY <2>3, <2>4
<1>11. CASE code = "divide" /\ Divide(calls)
  <2>1. n = 2
    BY <1>2, <1>11 DEF Takes
  <2>2. R = IF Len(stack) < 2 THEN Bad
            ELSE IF FromTop(0) = 0 \/ Quotient(FromTop(1), FromTop(0)) \notin CellRange THEN Bad
            ELSE Good(Append(Dropped(2), Quotient(FromTop(1), FromTop(0))))
    BY <1>2, <1>5, <1>11, <2>1 DEF AfterWord, Dropped
  <2>3. CASE Len(stack) < 2
    <3>1. Breaks
      BY <1>4, <1>11, <2>3 DEF Divide, Divides
    <3> QED
      BY <1>6, <2>2, <2>3, <3>1, BreaksSound
  <2>4. CASE ~(Len(stack) < 2)
    <3>1. Pops(2)
      BY <1>4, <2>4
    <3>2. FromTop(0) \in CellRange /\ FromTop(1) \in CellRange
      BY <3>1, FromTopCell, 2 \in 1 .. 2
    <3>3. PICK x : x = Quotient(FromTop(1), FromTop(0))
      OBVIOUS
    <3>4. FromTop(0) # 0 /\ x < 2 ^ (CellBits - 1) => x \in CellRange
      BY <3>2, <3>3, QuotientIsCell
    <3>5. x \in CellRange => x < 2 ^ (CellBits - 1)
      <4>1. PICK k \in Nat \ {0} : k = 2 ^ (CellBits - 1)
        BY CellSize
      <4> QED
        BY <4>1 DEF CellRange
    <3>6. Divides <=> FromTop(0) # 0 /\ x \in CellRange
      BY <3>1, <3>3, <3>4, <3>5 DEF Divides
    <3>7. CASE Divides
      <4>1. PICK q : q = Append(Dropped(2), x)
        OBVIOUS
      <4>2. Becomes(q, calls)
        BY <1>11, <3>3, <3>7, <4>1 DEF Divide
      <4>3. Comes(calls, d, Good(q), m)
        BY <1>3, <2>2, <2>4, <3>3, <3>6, <3>7, <4>1
      <4> QED
        BY <4>2, <4>3, BecomesSound
    <3>8. CASE ~Divides
      <4>1. Breaks
        BY <1>11, <3>8 DEF Divide
      <4> QED
        BY <1>6, <2>2, <2>4, <3>3, <3>6, <3>8, <4>1, BreaksSound
    <3> QED
      BY <3>7, <3>8
  <2> QED
    BY <2>3, <2>4
<1>12. CASE code = "loads" /\ Loads(calls)
  <2>1. n = 2
    BY <1>2, <1>12 DEF Takes
  <2>2. PICK i, j, q : i = FromTop(1) /\ j = FromTop(0) /\ q = Dropped(2)
    OBVIOUS
  <2>3. R = IF Len(stack) < 2 THEN Bad
            ELSE AfterBlocks(AfterBlock[d])[IF i > j THEN 0 ELSE (j - i + 2) \div 2][i][q]
    BY <1>2, <1>5, <1>12, <2>1, <2>2 DEF AfterWord, Dropped
  <2>4. CASE Len(stack) < 2
    <3>1. Breaks
      BY <1>4, <1>12, <2>4 DEF Loads
    <3> QED
      BY <1>6, <2>3, <2>4, <3>1, BreaksSound
  <2>5. CASE ~(Len(stack) < 2)
    <3>1. Pops(2)
      BY <1>4, <2>5
    <3>2. i \in Int /\ j \in Int /\ q \in Stacks
      <4>1. FromTop(0) \in CellRange /\ FromTop(1) \in CellRange /\ Dropped(2) \in Seq(CellRange)
        BY <3>1, FromTopCell, 2 \in 1 .. 2
      <4> QED
        BY <2>2, <4>1, CellSize DEF Stacks
    <3>3. PICK f, r : f = Span(i, j) /\ r = Good(q)
      OBVIOUS
    <3>4. f \in Frame /\ f.kind = "loads" /\ f.at = i /\ f.to = j
      BY <3>2, <3>3 DEF Span, Frame
    <3>5. r \in Results /\ r.is = "good" /\ r.stack = q
      BY <3>2, <3>3, ResultTypes
    <3>6. After(f, d, r) = R
      BY <2>3, <2>5, <3>4, <3>5 DEF After, Left
    <3>7. d = IF f.kind = "run" THEN d - 1 ELSE d
      BY <3>4
    <3>8. Comes(calls, d, After(f, d, r), m)
      BY <1>3, <3>6
    <3>9. Comes(Append(calls, f), d, r, m)
      BY <3>4, <3>5, <3>7, <3>8, CallMore
    <3>10. PICK more : more = Append(calls, f)
      OBVIOUS
    <3>11. Becomes(q, more)
      BY <1>12, <2>2, <3>1, <3>3, <3>10 DEF Loads
    <3> QED
      BY <3>3, <3>9, <3>10, <3>11, BecomesSound
  <2> QED
    BY <2>4, <2>5
<1> QED
  BY <1>7, <1>8, <1>9, <1>10, <1>11, <1>12 DEF Execute

(* A number that is typed comes back from its cell without its high bits.  *)
LEMMA SmallMultiple ==
  ASSUME NEW M \in Nat \ {0}, NEW e \in Int, -M < M * e, M * e < M
  PROVE  e = 0
<1>1. ASSUME e >= 1 PROVE FALSE
  <2>1. PICK k \in Nat : e = k + 1
    BY <1>1, e - 1 \in Nat, e = (e - 1) + 1
  <2>2. M * k \in Nat
    OBVIOUS
  <2>3. M * e = M * k + M
    BY <2>1
  <2> QED
    BY <2>2, <2>3
<1>2. ASSUME e <= -1 PROVE FALSE
  <2>1. PICK k \in Nat : e = -(k + 1)
    BY <1>2, -e - 1 \in Nat, e = -((-e - 1) + 1)
  <2>2. M * k \in Nat
    OBVIOUS
  <2>3. M * e = -(M * k) - M
    BY <2>1
  <2> QED
    BY <2>2, <2>3
<1> QED
  BY <1>1, <1>2

LEMMA TypedIs ==
  ASSUME NEW n \in Int, NEW v \in Int, NEW p \in Int, Limit \in Nat \ {0},
         v \in -Limit .. Limit - 1, n - v = (2 * Limit) * p
  PROVE  Typed(n) = v
<1>1. PICK M, L \in Nat \ {0} : M = 2 * L /\ L = Limit
  OBVIOUS
<1>2. M \in Nat \ {0} /\ n - v = M * p /\ v \in -L .. L - 1
  BY <1>1
<1>3. (n - v) % M = 0
  <2>1. PICK q \in Int : n - v = M * q + ((n - v) % M) /\ (n - v) % M \in 0 .. M - 1
    BY <1>2, n - v \in Int, DivMod
  <2>2. PICK r \in Int : r = (n - v) % M
    BY <2>1
  <2>3. M * p = M * q + r /\ r \in 0 .. M - 1
    BY <1>2, <2>1, <2>2
  <2>4. PICK e \in Int : e = p - q
    OBVIOUS
  <2>5. M * e = r
    BY <1>2, <2>3, <2>4
  <2>6. e = 0
    <3>1. -M < M * e /\ M * e < M
      BY <1>2, <2>3, <2>5
    <3> QED
      BY <1>2, <3>1, SmallMultiple
  <2> QED
    BY <1>2, <2>2, <2>5, <2>6
<1>4. ASSUME NEW w \in -L .. L - 1, (n - w) % M = 0 PROVE w = v
  <2>1. PICK q \in Int : n - w = M * q + ((n - w) % M)
    BY <1>2, n - w \in Int, DivMod
  <2>2. n - w = M * q
    BY <1>2, <1>4, <2>1
  <2>3. PICK e \in Int : e = p - q
    OBVIOUS
  <2>4. M * e = w - v
    BY <1>2, <2>2, <2>3
  <2>5. e = 0
    <3>1. -M < M * e /\ M * e < M
      BY <1>1, <1>2, <2>4
    <3> QED
      BY <1>2, <3>1, SmallMultiple
  <2> QED
    BY <1>2, <2>4, <2>5
<1>5. PICK T : T = -L .. L - 1
  OBVIOUS
<1>6. Typed(n) = CHOOSE w \in T : (n - w) % M = 0
  BY <1>1, <1>5 DEF Typed
<1>7. v \in T /\ \A w \in T : (n - w) % M = 0 => w = v
  BY <1>2, <1>4, <1>5
<1> QED
  BY <1>3, <1>6, <1>7

LEMMA NumberMeans ==
  ASSUME NEW n \in Int
  PROVE  Number(n).cell \div 32 = Typed(n) /\ Number(n).cell \in CellRange
<1>1. PICK L \in Nat \ {0} : L = Limit /\ 2 ^ (CellBits - 1) = 32 * L /\ 2 ^ CellBits = 64 * L
  BY TagSize DEF Limit
<1>2. PICK z, N \in Int : z = n * 32 + 8 /\ N = 64 * L
  OBVIOUS
<1>3. N \in Nat \ {0}
  BY <1>2
<1>4. PICK q \in Int : z = N * q + (z % N) /\ z % N \in 0 .. N - 1
  BY <1>2, <1>3, DivMod
<1>5. PICK c : c = Number(n).cell
  OBVIOUS
<1>6. c = IF z % N < 32 * L THEN z % N ELSE (z % N) - N
  BY <1>1, <1>2, <1>5 DEF Number, NumberTag, Signed
<1>7. PICK k \in Int : c = z - N * k
  <2>1. N * (q + 1) = N * q + N
    BY <1>2
  <2>2. c = z - N * q \/ c = z - N * (q + 1)
    BY <1>2, <1>4, <1>6, <2>1
  <2> QED
    BY <1>4, <2>2, q + 1 \in Int
<1>8. c \in -(32 * L) .. 32 * L - 1
  BY <1>2, <1>4, <1>6
<1>9. PICK p, v \in Int : p = L * k /\ v = n - 2 * p
  BY <1>7
<1>10. N * k = 64 * p
  BY <1>2, <1>9
<1>11. c = 32 * v + 8
  BY <1>2, <1>7, <1>9, <1>10
<1>12. c \div 32 = v
  BY <1>11
<1>13. v \in -L .. L - 1
  BY <1>8, <1>11
<1>14. n - v = (2 * L) * k
  BY <1>9
<1>15. Typed(n) = v
  BY <1>1, <1>13, <1>14, TypedIs
<1>16. c \in CellRange
  BY <1>1, <1>8 DEF CellRange
<1> QED
  BY <1>5, <1>12, <1>15, <1>16

LEMMA DispatchSound ==
  ASSUME ForthInv, ~broken, NEW calls \in Seq(Frame), NEW d \in Nat, NEW m, NEW c,
         c.color = WordTag => NameOf(c) \in Names,
         Comes(calls, d, AfterCell(AfterBlock[d], stack, c), m),
         Dispatch(c, calls)
  PROVE  Sound(m)'
<1>1. stack \in Stacks
  BY DEF ForthInv, Stacks
<1>2. WordTag # NumberTag
  BY DEF WordTag, NumberTag
<1>3. CASE c.color = WordTag /\ Execute(Lookup(NameOf(c)), calls)
  <2>1. PICK code : code = Means(Unpack(NameOf(c)))
    OBVIOUS
  <2>2. code \in DOMAIN Takes
    BY <2>1, MeansType
  <2>3. AfterCell(AfterBlock[d], stack, c) = AfterWord(AfterBlock[d], stack, code)
    BY <1>3, <2>1 DEF AfterCell, WordTag, NumberTag
  <2>4. Execute(code, calls)
    BY <1>3, <2>1, NameFound
  <2>5. Comes(calls, d, AfterWord(AfterBlock[d], stack, code), m)
    BY <2>3
  <2> QED
    BY <2>2, <2>4, <2>5, WordSound
<1>4. CASE c.color = NumberTag /\ Push(c.cell \div 32, calls)
  <2>1. PICK v : v = c.cell \div 32
    OBVIOUS
  <2>2. AfterCell(AfterBlock[d], stack, c) = Pushed(stack, v)
    BY <1>4, <2>1 DEF AfterCell, WordTag, NumberTag
  <2>3. CASE Len(stack) < StackSize
    <3>1. PICK q : q = Append(stack, v)
      OBVIOUS
    <3>2. Becomes(q, calls)
      BY <1>1, <1>4, <2>1, <2>3, <3>1, ForthAssumption DEF Push, Stacks
    <3>3. Comes(calls, d, Good(q), m)
      BY <2>2, <2>3, <3>1 DEF Pushed
    <3> QED
      BY <3>2, <3>3, BecomesSound
  <2>4. CASE ~(Len(stack) < StackSize)
    <3>1. Breaks
      BY <1>4, <2>4 DEF Push
    <3>2. Comes(calls, d, Bad, m)
      BY <2>2, <2>4 DEF Pushed
    <3>3. m = Bad
      BY <3>2, StaysWrong, ResultTypes
    <3> QED
      BY <3>1, <3>3, BreaksSound
  <2> QED
    BY <2>3, <2>4
<1>5. CASE c.color \notin {WordTag, NumberTag} /\ Becomes(stack, calls)
  <2>1. AfterCell(AfterBlock[d], stack, c) = Good(stack)
    BY <1>5 DEF AfterCell
  <2> QED
    BY <1>5, <2>1, BecomesSound
<1> QED
  BY <1>3, <1>4, <1>5 DEF Dispatch

LEMMA SplitCalls ==
  ASSUME ForthInv, frames # <<>>
  PROVE  frames = Append(Front(frames), Last(frames))
<1>1. PICK fs : fs = frames
  OBVIOUS
<1>2. fs \in Seq(Frame) /\ Len(fs) \in Nat \ {0}
  BY <1>1 DEF ForthInv
<1>3. fs = Append(SubSeq(fs, 1, Len(fs) - 1), fs[Len(fs)])
  BY <1>2
<1> QED
  BY <1>1, <1>3 DEF Front, Last

(* One cell, one block or one return of the interpreter. *)
LEMMA InterpretSound ==
  ASSUME ForthInv, Interpret, NEW m, Sound(m)
  PROVE  Sound(m)'
<1>1. frames # <<>> /\ ~broken
  BY DEF Interpret, RunCell, RunDone, LoadNext, LoadsDone, Open
<1>2. CASE m = Deep
  BY <1>2 DEF Sound
<1>3. CASE m # Deep
  <2>1. PICK e \in Nat : Comes(frames, e, Good(stack), m)
    BY <1>1, <1>3 DEF Sound
  <2>2. PICK f, outer, s : f = Last(frames) /\ outer = Front(frames) /\ s = stack
    OBVIOUS
  <2>3. f \in Frame /\ outer \in Seq(Frame) /\ \A g \in Frame : Append(outer, g) \in Seq(Frame)
    BY <1>1, <2>2, LastFrame
  <2>4. s \in Stacks /\ blocks = Blocks
    BY <2>2 DEF ForthInv, Stacks
  <2>5. Comes(Append(outer, f), e, Good(s), m)
    BY <1>1, <2>1, <2>2, SplitCalls
  <2>6. PICK d \in Nat : /\ e = IF f.kind = "run" THEN d - 1 ELSE d
                         /\ Comes(outer, d, After(f, e, Good(s)), m)
    BY <2>3, <2>5, CallLess
  <2>7. Good(s) \in Results /\ Good(s).is = "good" /\ Good(s).stack = s
    BY <2>4, ResultTypes
  <2>8. CASE RunCell
    <3>1. /\ f.kind = "run" /\ f.to < BlockCells
          /\ Dispatch(blocks[f.at][f.to], Advanced([f EXCEPT !.to = f.to + 1]))
      BY <2>2, <2>8 DEF RunCell, Open
    <3>2. PICK n, i : n = f.at /\ i = f.to
      OBVIOUS
    <3>3. /\ n \in DOMAIN Blocks /\ i \in 1 .. BlockCells
          /\ f \in [kind : {"run"}, at : DOMAIN Blocks, to : 1 .. BlockCells]
      BY <2>3, <3>1, <3>2 DEF Frame
    <3>4. i + 1 \in 1 .. BlockCells /\ i < BlockCells
      BY <3>1, <3>2, <3>3, WordsAssumption
    <3>5. PICK g : g = [f EXCEPT !.to = f.to + 1]
      OBVIOUS
    <3>6. g \in Frame /\ g.kind = "run" /\ g.at = n /\ g.to = i + 1
      BY <3>1, <3>2, <3>3, <3>4, <3>5 DEF Frame
    <3>7. PICK c, calls : c = Blocks[n][i] /\ calls = Append(outer, g)
      OBVIOUS
    <3>8. Dispatch(c, calls)
      BY <2>2, <2>4, <3>1, <3>2, <3>5, <3>7 DEF Advanced
    <3>9. calls \in Seq(Frame)
      BY <2>3, <3>6, <3>7
    <3>10. PICK R : R = IF i \in DataOf(Blocks[n]) THEN Good(s) ELSE AfterCell(AfterBlock[e], s, c)
      OBVIOUS
    <3>11. R \in Results
      <4>1. c.color = NumberTag => c.cell \in CellRange
        BY <3>3, <3>7, NumberOnDisk
      <4>2. AfterBlock[e] \in Runs
        BY AfterBlockIs
      <4> QED
        BY <2>4, <2>7, <3>10, <4>1, <4>2, AfterCellType
    <3>12. After(f, e, Good(s)) = After(g, e, R)
      <4>1. After(f, e, Good(s)) = InBlock(e, n)[i][s]
        BY <2>7, <3>1, <3>2 DEF After
      <4>2. After(g, e, R) = Then(R, InBlock(e, n)[i + 1])
        BY <3>6 DEF After, Then
      <4>3. InBlock(e, n)[i][s] =
              IF i \in DataOf(Blocks[n]) THEN InBlock(e, n)[i + 1][s]
              ELSE Then(AfterCell(AfterBlock[e], s, c), InBlock(e, n)[i + 1])
        BY <2>4, <3>3, <3>4, <3>7, InBlockIs
      <4>4. Then(Good(s), InBlock(e, n)[i + 1]) = InBlock(e, n)[i + 1][s]
        BY <2>7 DEF Then
      <4> QED
        BY <3>10, <4>1, <4>2, <4>3, <4>4
    <3>13. Comes(calls, e, R, m)
      <4>1. e = IF g.kind = "run" THEN d - 1 ELSE d
        BY <2>6, <3>1, <3>6
      <4>2. Comes(outer, d, After(g, e, R), m)
        BY <2>6, <3>12
      <4> QED
        BY <2>3, <3>6, <3>7, <3>11, <4>1, <4>2, CallMore
    <3>14. CASE i \in DataOf(Blocks[n])
      <4>1. c.color \notin {WordTag, NumberTag}
        BY <3>3, <3>4, <3>7, <3>14, MeaningAssumption
      <4>2. Becomes(stack, calls)
        BY <3>8, <4>1 DEF Dispatch
      <4>3. Comes(calls, e, Good(stack), m)
        BY <2>2, <3>10, <3>13, <3>14
      <4> QED
        BY <1>1, <4>2, <4>3, BecomesSound
    <3>15. CASE i \notin DataOf(Blocks[n])
      <4>1. Comes(calls, e, AfterCell(AfterBlock[e], stack, c), m)
        BY <2>2, <3>10, <3>13, <3>15
      <4>2. NameOf(c) \in Names
        BY <3>3, <3>7, CellIsName
      <4> QED
        BY <1>1, <3>8, <3>9, <4>1, <4>2, DispatchSound
    <3> QED
      BY <3>14, <3>15
  <2>9. CASE RunDone
    <3>1. f.kind = "run" /\ f.to >= BlockCells /\ Becomes(stack, outer)
      BY <2>2, <2>9 DEF RunDone, Open
    <3>2. f.at \in DOMAIN Blocks /\ f.to = BlockCells
      <4>1. f.at \in DOMAIN Blocks /\ f.to \in 1 .. BlockCells
        BY <2>3, <3>1 DEF Frame
      <4> QED
        BY <3>1, <4>1, WordsAssumption
    <3>3. After(f, e, Good(s)) = Good(s)
      <4>1. After(f, e, Good(s)) = InBlock(e, f.at)[BlockCells][s]
        BY <2>7, <3>1, <3>2 DEF After
      <4> QED
        BY <2>4, <3>2, <4>1, InBlockIs
    <3> QED
      BY <1>1, <2>2, <2>6, <3>1, <3>3, BecomesSound
  <2>10. CASE LoadNext
    <3>1. /\ f.kind = "loads" /\ f.at <= f.to
          /\ \/ /\ Len(stack) < StackSize /\ f.at \in DOMAIN blocks
                /\ Becomes(stack, Append(Advanced([f EXCEPT !.at = f.at + Stride]), Run(f.at)))
             \/ ~(Len(stack) < StackSize /\ f.at \in DOMAIN blocks) /\ Breaks
      BY <2>2, <2>10 DEF LoadNext, Open
    <3>2. PICK i, j : i = f.at /\ j = f.to
      OBVIOUS
    <3>3. i \in Int /\ j \in Int /\ i <= j /\ f \in [kind : {"loads"}, at : Int, to : Int]
      BY <2>3, <3>1, <3>2 DEF Frame
    <3>4. PICK g : g = [f EXCEPT !.at = f.at + Stride]
      OBVIOUS
    <3>5. g \in Frame /\ g.kind = "loads" /\ g.at = i + 2 /\ g.to = j
      BY <3>2, <3>3, <3>4 DEF Frame, Stride
    <3>6. PICK k \in Nat : Left(f) = k + 1 /\ Left(g) = k
      <4>1. Left(f) = (j - i + 2) \div 2
        BY <3>2, <3>3 DEF Left
      <4>2. Left(g) = IF i + 2 > j THEN 0 ELSE (j - (i + 2) + 2) \div 2
        BY <3>5 DEF Left
      <4>3. PICK k : k = IF i + 2 > j THEN 0 ELSE (j - (i + 2) + 2) \div 2
        OBVIOUS
      <4>4. k \in Nat /\ (j - i + 2) \div 2 = k + 1
        BY <3>3, <4>3
      <4> QED
        BY <4>1, <4>2, <4>3, <4>4
    <3>7. e = d
      BY <2>6, <3>1
    <3>8. PICK B : B = AfterBlocks(AfterBlock[e])
      OBVIOUS
    <3>9. After(f, e, Good(s)) =
            IF Len(s) >= StackSize THEN Bad ELSE Then(AfterBlock[e][i][s], B[k][i + 2])
      <4>1. After(f, e, Good(s)) = B[k + 1][i][s]
        BY <2>7, <3>1, <3>2, <3>6, <3>8 DEF After
      <4>2. k + 1 \in Nat \ {0} /\ (k + 1) - 1 = k
        OBVIOUS
      <4>3. PICK run : run = AfterBlock[e]
        OBVIOUS
      <4>4. run \in Runs /\ B = AfterBlocks(run)
        BY <3>8, <4>3, AfterBlockIs
      <4>5. \A l \in Nat \ {0}, n \in Int, q \in Stacks :
              B[l][n][q] = IF Len(q) >= StackSize THEN Bad ELSE Then(run[n][q], B[l - 1][n + 2])
        BY <4>4, AfterBlocksIs
      <4> QED
        BY <2>4, <3>3, <4>1, <4>2, <4>3, <4>5
    <3>10. CASE Len(s) >= StackSize
      <4>1. Comes(outer, d, Bad, m)
        BY <2>6, <3>9, <3>10
      <4>2. m = Bad
        <5>1. Bad.is # "good"
          BY ResultTypes
        <5> QED
          BY <2>3, <4>1, <5>1, StaysWrong
      <4>3. Breaks
        BY <2>2, <2>4, <3>1, <3>10, ForthAssumption DEF Stacks
      <4> QED
        BY <4>2, <4>3, BreaksSound
    <3>11. CASE ~(Len(s) >= StackSize)
      <4>1. PICK R, calls : R = AfterBlock[e][i][s] /\ calls = Append(outer, g)
        OBVIOUS
      <4>2. R \in Results
        <5>1. AfterBlock[e][i] \in [Stacks -> Results]
          BY <3>3, AfterBlockIs DEF Runs
        <5> QED
          BY <2>4, <4>1, <5>1
      <4>3. After(f, e, Good(s)) = After(g, e, R)
        BY <3>5, <3>6, <3>8, <3>9, <3>11, <4>1 DEF After, Then
      <4>4. Comes(calls, e, R, m)
        <5>1. e = IF g.kind = "run" THEN d - 1 ELSE d
          BY <3>5, <3>7
        <5>2. Comes(outer, d, After(g, e, R), m)
          BY <2>6, <4>3
        <5> QED
          BY <2>3, <3>5, <4>1, <4>2, <5>1, <5>2, CallMore
      <4>5. calls \in Seq(Frame)
        BY <2>3, <3>5, <4>1
      <4>6. IF i \notin DOMAIN Blocks THEN m = Bad
            ELSE m = Deep \/ \E h \in Nat : Comes(Append(calls, Run(i)), h, Good(s), m)
        <5>1. Comes(calls, e, AfterBlock[e][i][s], m)
          BY <4>1, <4>4
        <5> QED
          BY <2>4, <3>3, <4>5, <5>1, StartsBlock
      <4>7. CASE i \notin DOMAIN Blocks
        <5>1. Breaks
          BY <2>4, <3>1, <3>2, <4>7
        <5> QED
          BY <4>6, <4>7, <5>1, BreaksSound
      <4>8. CASE i \in DOMAIN Blocks
        <5>1. PICK more : more = Append(calls, Run(i))
          OBVIOUS
        <5>2. Len(s) < StackSize
          BY <2>4, <3>11, ForthAssumption DEF Stacks
        <5>3. Becomes(s, more)
          BY <2>2, <2>4, <3>1, <3>2, <3>4, <4>1, <4>8, <5>1, <5>2 DEF Advanced
        <5> QED
          BY <1>1, <1>3, <4>6, <4>8, <5>1, <5>3, BecomesSound
      <4> QED
        BY <4>7, <4>8
    <3> QED
      BY <3>10, <3>11
  <2>11. CASE LoadsDone
    <3>1. f.kind = "loads" /\ f.at > f.to /\ Becomes(stack, outer)
      BY <2>2, <2>11 DEF LoadsDone, Open
    <3>2. f.at \in Int
      BY <2>3, <3>1 DEF Frame
    <3>3. After(f, e, Good(s)) = Good(s)
      <4>1. Left(f) = 0
        BY <3>1 DEF Left
      <4>2. After(f, e, Good(s)) = AfterBlocks(AfterBlock[e])[0][f.at][s]
        BY <2>7, <3>1, <4>1 DEF After
      <4>3. AfterBlock[e] \in Runs
        BY AfterBlockIs
      <4> QED
        BY <2>4, <3>2, <4>2, <4>3, AfterBlocksIs
    <3> QED
      BY <1>1, <2>2, <2>6, <3>1, <3>3, BecomesSound
  <2> QED
    BY <2>8, <2>9, <2>10, <2>11 DEF Interpret
<1> QED
  BY <1>2, <1>3

-----------------------------------------------------------------------------
(* What is typed.                                                          *)

(* The beginning of a word has no more bits than the word. *)
LEMMA ShorterCode ==
  ASSUME NEW w \in Seq(Letter), NEW v \in Seq(Letter), Len(v) <= Len(w),
         \A i \in 1 .. Len(v) : v[i] = w[i]
  PROVE  Len(Coded(v)) <= Len(Coded(w))
<1>1. PICK u : CodedUpTo(u, w) /\ Coded(w) = u[Len(w)]
  BY CodedIs
<1>2. PICK t : CodedUpTo(t, v) /\ Coded(v) = t[Len(v)]
  BY CodedIs
<1>3. PICK N \in Nat, M \in Nat : N = Len(v) /\ M = Len(w)
  OBVIOUS
<1> DEFINE S == {i \in Nat : i <= N => t[i] = u[i]}
<1>4. 0 \in S
  BY <1>1, <1>2 DEF CodedUpTo
<1>5. ASSUME NEW i \in Nat, i \in S PROVE i + 1 \in S
  <2> SUFFICES ASSUME i + 1 <= N PROVE t[i + 1] = u[i + 1]
    OBVIOUS
  <2>1. i + 1 \in 1 .. N /\ i + 1 \in 1 .. M /\ (i + 1) - 1 = i /\ t[i] = u[i]
    BY <1>3, <1>5
  <2> QED
    BY <1>1, <1>2, <1>3, <2>1 DEF CodedUpTo
<1> HIDE DEF S
<1>6. N \in S
  BY <1>4, <1>5, Induct
<1>7. t[N] = u[N]
  BY <1>6 DEF S
<1>8. Len(u[N]) \in 0 .. Len(u[M])
  <2>1. N \in 0 .. M
    BY <1>3
  <2> QED
    BY <1>1, <1>3, <2>1, PrefixBits
<1>9. Len(u[M]) \in Nat
  <2>1. u[M] \in Seq(Bit)
    BY <1>1, <1>3 DEF CodedUpTo
  <2> QED
    BY <2>1
<1> QED
  BY <1>1, <1>2, <1>3, <1>7, <1>8, <1>9

(* A word of letters fits a cell, being the beginning of one that does. *)
Fits == NoLetter \notin Range(word) => Len(Coded(word)) <= NameBits

LEMMA NothingFits ==
  Len(Coded(<<>>)) <= NameBits
<1>1. PICK w : w = <<>>
  OBVIOUS
<1>2. w \in Seq(Letter) /\ Len(w) = 0
  BY <1>1
<1>3. PICK u : CodedUpTo(u, w) /\ Coded(w) = u[Len(w)]
  BY <1>2, CodedIs
<1>4. Coded(w) = <<>>
  BY <1>2, <1>3 DEF CodedUpTo
<1> QED
  BY <1>1, <1>4 DEF NameBits

LEMMA FitsStep ==
  ASSUME TypeInv, TypeInv', Fits, [Next]_vars
  PROVE  Fits'
<1>1. CASE word' = word
  BY <1>1 DEF Fits
<1>2. CASE word' = <<>>
  BY <1>2, NothingFits DEF Fits
<1>3. CASE word' = Append(word, NoLetter)
  <2>1. PICK v, x : v = word /\ x = word'
    OBVIOUS
  <2>2. v \in Seq(Letter \cup {NoLetter}) /\ x = Append(v, NoLetter)
    BY <1>3, <2>1 DEF TypeInv, EditorInv
  <2>3. Len(v) + 1 \in DOMAIN x /\ x[Len(v) + 1] = NoLetter
    BY <2>2
  <2>4. NoLetter \in Range(x)
    BY <2>3 DEF Range
  <2> QED
    BY <2>1, <2>4 DEF Fits
<1>4. ASSUME NEW w \in Vocabulary, Type(w) PROVE Fits'
  <2>1. PICK v, x : v = word /\ x = word'
    OBVIOUS
  <2>2. v \in Seq(Letter \cup {NoLetter}) /\ IsStrictPrefix(v, w) /\ x = Append(v, w[Len(v) + 1])
    BY <1>4, <2>1 DEF TypeInv, EditorInv, Type
  <2>3. w \in Seq(Letter) /\ Len(Coded(w)) <= NameBits
    BY EditorAssumption, MeaningAssumption
  <2>4. Len(v) + 1 \in 1 .. Len(w) /\ w[Len(v) + 1] \in Letter
    BY <2>2, NextLetter
  <2>5. v = SubSeq(w, 1, Len(v))
    <3>1. SubSeq(v, 1, Len(v)) = SubSeq(w, 1, Len(v))
      BY <2>2 DEF IsStrictPrefix, IsPrefix
    <3> QED
      BY <2>2, <3>1
  <2>6. \A i \in 1 .. Len(v) : v[i] = w[i]
    <3>1. PICK n \in Nat : n = Len(v)
      BY <2>2
    <3>2. \A i \in 1 .. n : SubSeq(w, 1, n)[i] = w[i]
      BY <2>3, <2>4, <3>1
    <3> QED
      BY <2>5, <3>1, <3>2
  <2>7. Len(x) = Len(v) + 1 /\ \A i \in 1 .. Len(x) : x[i] = w[i]
    BY <2>2, <2>6
  <2>8. x \in Seq(Letter)
    <3>1. \A i \in 1 .. Len(x) : x[i] \in Letter
      BY <2>3, <2>4, <2>7
    <3>2. x \in Seq(Letter \cup {NoLetter})
      BY <2>1 DEF TypeInv, EditorInv
    <3> QED
      BY <3>1, <3>2
  <2>9. Len(Coded(x)) <= Len(Coded(w))
    BY <2>3, <2>4, <2>7, <2>8, ShorterCode
  <2>10. Len(Coded(x)) \in Nat /\ Len(Coded(w)) \in Nat
    <3>1. Coded(x) \in Seq(Bit) /\ Coded(w) \in Seq(Bit)
      BY <2>3, <2>8, CodedBits
    <3>2. PICK a, b : a = Coded(x) /\ b = Coded(w)
      OBVIOUS
    <3> QED
      BY <3>1, <3>2
  <2>11. Len(Coded(x)) <= NameBits
    BY <2>3, <2>9, <2>10 DEF NameBits
  <2> QED
    BY <2>1, <2>11 DEF Fits
<1>5. \/ word' = word \/ word' = <<>> \/ word' = Append(word, NoLetter)
      \/ \E w \in Vocabulary : Type(w)
  BY DEF Next, Edit, Command, Go, editorVars, vars, Escape, F2, Control, Blank, PageUp, PageDown,
         OtherKey, Show, Select
<1> QED
  BY <1>1, <1>2, <1>3, <1>4, <1>5

-----------------------------------------------------------------------------
(* The invariant: what is on the stack comes to the meaning by the calls   *)
(* that are open.                                                          *)

MeaningInv == TypeInv /\ Fits /\ meant \in Results /\ Sound(meant)

LEMMA MeaningInit ==
  MInit => MeaningInv
<1> SUFFICES ASSUME MInit PROVE MeaningInv
  OBVIOUS
<1>1. TypeInv
  BY TypeInit DEF MInit
<1>2. frames = <<>> /\ ~broken /\ stack = <<>> /\ word = <<>> /\ meant = Good(<<>>)
  BY DEF MInit, Init, ForthInit
<1>3. Fits
  BY <1>2, NothingFits DEF Fits
<1>4. Good(<<>>) \in Results
  <2>1. <<>> \in Stacks
    BY EmptySeq DEF Stacks
  <2> QED
    BY <2>1, ResultTypes
<1>5. Sound(meant)
  <2>1. Comes(frames, Nesting, Good(stack), meant)
    BY <1>2, <1>4, NoCalls
  <2> QED
    BY <1>2, <2>1, MeaningAssumption DEF Sound
<1> QED
  BY <1>1, <1>2, <1>3, <1>4, <1>5 DEF MeaningInv

(* A command, from the stack that the one before came to. *)
LEMMA CommandSound ==
  ASSUME MeaningInv, Command, NEW m, m = AfterCommand(stack, word)
  PROVE  m \in Results /\ Sound(m)'
<1>1. ForthInv /\ ~broken /\ frames = <<>> /\ stack \in Stacks
  BY DEF MeaningInv, TypeInv, ForthInv, Command, Waiting, Stacks
<1>2. PICK calls : calls = <<>>
  OBVIOUS
<1>3. calls \in Seq(Frame)
  BY <1>2, EmptySeq
<1>4. PICK w : w = word
  OBVIOUS
<1>5. w \in Seq(Letter \cup {NoLetter})
  BY <1>4 DEF MeaningInv, TypeInv, EditorInv
<1>6. IsNumber(w) => NoLetter \notin Range(w)
  BY <1>5 DEF IsNumber, Range, NoLetter, Digit, Zero
<1>7. AfterBlock[Nesting] \in Runs
  BY MeaningAssumption, AfterBlockIs
<1>8. CASE NoLetter \in Range(w) /\ Breaks
  <2>1. m = Bad
    BY <1>4, <1>8 DEF AfterCommand
  <2> QED
    BY <1>8, <2>1, BreaksSound, ResultTypes
<1>9. CASE IsNumber(w) /\ Dispatch(Number(Atoi(w)), calls)
  <2>1. PICK n : n = Atoi(w)
    OBVIOUS
  <2>2. n \in Int
    <3>1. Letter \cup {NoLetter} \subseteq Int
      BY DEF Letter, NoLetter
    <3>2. w \in Seq(Int)
      BY <1>5, <3>1, LargerSeq
    <3> QED
      BY <2>1, <3>2, AtoiIsNumber
  <2>3. m = Pushed(stack, Typed(n))
    BY <1>4, <1>6, <1>9, <2>1 DEF AfterCommand
  <2>4. PICK c : c = Number(n)
    OBVIOUS
  <2>5. c.color = NumberTag /\ c.cell \div 32 = Typed(n) /\ c.cell \in CellRange
    BY <2>2, <2>4, NumberIsCell, NumberMeans
  <2>6. AfterCell(AfterBlock[Nesting], stack, c) = m
    BY <2>3, <2>5 DEF AfterCell, WordTag, NumberTag
  <2>7. m \in Results
    BY <1>1, <1>7, <2>5, <2>6, AfterCellType
  <2>8. Comes(calls, Nesting, m, m)
    BY <1>2, <2>7, NoCalls
  <2>9. c.color # WordTag
    BY <2>5 DEF WordTag, NumberTag
  <2>10. Sound(m)'
    BY <1>1, <1>3, <1>9, <2>1, <2>4, <2>6, <2>8, <2>9, DispatchSound, MeaningAssumption
  <2> QED
    BY <2>7, <2>10
<1>10. ASSUME NoLetter \notin Range(w), ~IsNumber(w)
       PROVE  /\ m = AfterWord(AfterBlock[Nesting], stack, Means(w)) /\ m \in Results
              /\ Lookup(Pack(w)) = Means(w) /\ Pack(w) \in Names /\ Unpack(Pack(w)) = w
  <2>1. w \in Seq(Letter) /\ Len(Coded(w)) <= NameBits
    BY <1>4, <1>10, OnlyLetters DEF MeaningInv, Fits
  <2>2. m = AfterWord(AfterBlock[Nesting], stack, Means(w))
    BY <1>4, <1>10 DEF AfterCommand
  <2>3. m \in Results
    BY <1>1, <1>7, <2>2, MeansType, AfterWordType
  <2>4. Pack(w) \in Names
    BY <2>1, CodedBits, PadIsName DEF Pack
  <2> QED
    BY <2>1, <2>2, <2>3, <2>4, WordFound, UnpackPack
<1>11. CASE NoLetter \notin Range(w) /\ ~IsNumber(w) /\ Dispatch(Word(Pack(w)), calls)
  <2>1. PICK c : c = Word(Pack(w))
    OBVIOUS
  <2>2. c.color = WordTag /\ NameOf(c) = Pack(w)
    BY <2>1 DEF Word, NameOf
  <2>3. AfterCell(AfterBlock[Nesting], stack, c) = m
    BY <1>10, <1>11, <2>2 DEF AfterCell, WordTag, NumberTag
  <2>4. m \in Results /\ NameOf(c) \in Names
    BY <1>10, <1>11, <2>2
  <2>5. Comes(calls, Nesting, m, m)
    BY <1>2, <2>4, NoCalls
  <2>6. Sound(m)'
    BY <1>1, <1>3, <1>11, <2>1, <2>3, <2>4, <2>5, DispatchSound, MeaningAssumption
  <2> QED
    BY <2>4, <2>6
<1>12. CASE /\ NoLetter \notin Range(w) /\ ~IsNumber(w)
            /\ Lookup(Pack(w)) = "none" /\ UNCHANGED forthVars
  <2>1. m = Good(stack)
    <3>1. m = AfterWord(AfterBlock[Nesting], stack, "none")
      BY <1>10, <1>12
    <3>2. Takes["none"] = 0 /\ ~(Len(stack) < 0)
      BY <1>1 DEF Takes, Stacks
    <3> QED
      BY <3>1, <3>2 DEF AfterWord
  <2>2. m \in Results
    BY <1>10, <1>12
  <2>3. Comes(calls, Nesting, Good(stack), m)
    BY <1>2, <2>1, <2>2, NoCalls
  <2>4. frames' = calls /\ stack' = stack /\ broken' = broken
    BY <1>1, <1>2, <1>12 DEF forthVars
  <2>5. Sound(m)'
    BY <1>1, <2>3, <2>4, MeaningAssumption DEF Sound
  <2> QED
    BY <2>2, <2>5
<1> QED
  BY <1>2, <1>4, <1>8, <1>9, <1>11, <1>12 DEF Command, Named

LEMMA MeaningStep ==
  MeaningInv /\ [MNext]_meaningVars => MeaningInv'
<1> SUFFICES ASSUME MeaningInv, [MNext]_meaningVars PROVE MeaningInv'
  OBVIOUS
<1>1. [Next]_vars
  BY DEF MNext, Next, meaningVars
<1>2. TypeInv' /\ Fits'
  <2>1. TypeInv'
    BY <1>1, TypeStep DEF MeaningInv
  <2> QED
    BY <1>1, <2>1, FitsStep DEF MeaningInv
<1>3. PICK m : m = meant
  OBVIOUS
<1>4. ForthInv /\ m \in Results /\ Sound(m)
  BY <1>3 DEF MeaningInv, TypeInv
<1>5. CASE UNCHANGED forthVars /\ meant' = meant
  <2>1. Sound(m)'
    BY <1>4, <1>5 DEF Sound, forthVars
  <2> QED
    BY <1>2, <1>3, <1>4, <1>5, <2>1 DEF MeaningInv, Sound
<1>6. CASE Go /\ meant' = meant
  <2>1. Sound(m)'
    BY <1>4, <1>6, InterpretSound DEF Go
  <2> QED
    BY <1>2, <1>3, <1>4, <1>6, <2>1 DEF MeaningInv, Sound
<1>7. CASE Command /\ meant' = AfterCommand(IF meant = Deep THEN stack ELSE meant.stack, word)
  <2>1. frames = <<>> /\ ~broken
    BY <1>7 DEF Command, Waiting
  <2>2. m = Deep \/ m = Good(stack)
    BY <1>4, <2>1, NoCalls DEF Sound
  <2>3. meant' = AfterCommand(stack, word)
    <3>1. Good(stack).stack = stack
      BY ResultTypes
    <3> QED
      BY <1>3, <1>7, <2>2, <3>1
  <2>4. PICK n : n = meant'
    OBVIOUS
  <2>5. n \in Results /\ Sound(n)'
    BY <1>7, <2>3, <2>4, CommandSound
  <2> QED
    BY <1>2, <2>4, <2>5 DEF MeaningInv, Sound
<1>8. Edit => UNCHANGED forthVars
  BY DEF Edit, Escape, F2, Control, Blank, PageUp, PageDown, OtherKey, Select, Type, Show
<1>9. meaningVars' = meaningVars => UNCHANGED forthVars /\ meant' = meant
  BY DEF meaningVars, vars
<1> QED
  BY <1>5, <1>6, <1>7, <1>8, <1>9 DEF MNext

(* Whatever blocks of the disk a command loads, in whatever nesting, the   *)
(* interpreter comes back with the stack the command means when it is read *)
(* off the screen, and it only breaks where the command has no meaning:    *)
(* for every disk, every vocabulary and any width of a cell.               *)
THEOREM CommandsComeToTheirMeaning == MSpec => []CommandsMean
<1>1. MeaningInv => CommandsMean
  <2> SUFFICES ASSUME MeaningInv PROVE CommandsMean
    OBVIOUS
  <2>1. PICK m : m = meant
    OBVIOUS
  <2>2. Sound(m) /\ m \in Results
    BY <2>1 DEF MeaningInv
  <2>3. broken => m \in {Bad, Deep}
    BY <2>2 DEF Sound
  <2>4. Waiting => m \in {Good(stack), Deep}
    BY <2>2, NoCalls DEF Sound, Waiting
  <2> QED
    BY <2>1, <2>3, <2>4 DEF CommandsMean
<1> QED
  BY <1>1, MeaningInit, MeaningStep, PTL DEF MSpec
=============================================================================
