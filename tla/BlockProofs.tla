------------------------------ MODULE BlockProofs ------------------------------
(***************************************************************************)
(* Proofs about the page of a block, for every text an author can write:   *)
(* it is a sheet of places, one behind the other, the words of the block   *)
(* and the numerals of its numbers stand on it in the order in which they  *)
(* were written, and what is printed on the page is what the sheet says.   *)
(***************************************************************************)
EXTENDS DisplayProofs

(* The digits that are printed, the highest first, are the numeral. *)
HighFirst(digit, q, b, N) == digit = [n \in 1 .. N |-> q[N - n] % b]

LEMMA NumeralOf ==
  ASSUME NEW b \in {10, 16}, NEW u \in Nat, NEW q, NEW N \in 1 .. CellBits, NEW digit,
         u > 0, u < 2 ^ CellBits, u < PlaceValues(b)[N],
         Counts(PlaceValues(b), q, u, b, CellBits), HighFirst(digit, q, b, N)
  PROVE  Numeral(digit) = Positional(u, b) /\ Positional(u, b) \in Seq(Nat)
<1>90. digit = [n \in 1 .. N |-> q[N - n] % b]
  BY DEF HighFirst
<1>1. PICK C \in Nat : C = CellBits /\ C \in 0 .. C /\ N \in 0 .. C /\ N \in Nat
  BY WordsAssumption DEF WordsAssumption
<1>2. PICK P : P = PlaceValues(b)
  OBVIOUS
<1>3. Counts(P, q, u, b, C)
  BY <1>1, <1>2
<1>4. \A i \in 0 .. C : /\ P[i] \in Nat /\ q[i] \in Nat /\ P[i] > 0
                        /\ u \div P[i] = q[i] /\ (q[i] # 0 <=> P[i] <= u)
  BY <1>3, PlacesAre
<1>5. q[C] = 0 /\ q[N] = 0
  <2>1. P[C] >= 2 ^ C /\ 2 ^ C \in Nat
    BY <1>1, <1>3, PlacesCount
  <2>2. ~(P[C] <= u) /\ ~(P[N] <= u)
    BY <1>1, <1>2, <1>4, <2>1
  <2> QED
    BY <1>1, <1>4, <2>2
<1>0. PICK m \in 1 .. C : /\ m = CHOOSE p \in 1 .. C : P[p] > u /\ (p = 1 \/ P[p - 1] <= u)
                          /\ Occupied(q, C, m)
  BY <1>3, <1>5, HowManyDigits
<1>6. \A i \in 0 .. C : (q[i] # 0) <=> (i < m)
  BY <1>0 DEF Occupied
<1>7. m <= N
  BY <1>1, <1>5, <1>6
<1>8. Positional(u, b) = [k \in 1 .. m |-> PlaceDigit(P, u, b, m - k)]
  <2>1. HasPlaces(u, b, m)
    BY <1>0, <1>1, <1>2 DEF HasPlaces
  <2> QED
    BY <1>2, <2>1, PositionalIs
<1>9. ASSUME NEW n \in 1 .. N PROVE N - n \in 0 .. C /\ digit[n] = q[N - n] % b
  BY <1>1, <1>90
<1>10. ASSUME NEW n \in 1 .. N, n <= N - m PROVE digit[n] = 0
  <2>1. N - n \in 0 .. C /\ ~(N - n < m)
    BY <1>9, <1>10
  <2>2. q[N - n] = 0
    BY <1>6, <2>1
  <2>3. 0 % b = 0
    OBVIOUS
  <2> QED
    BY <1>9, <2>2, <2>3
<1>11. PICK f \in 1 .. N : f = N + 1 - m /\ N - f = m - 1
  BY <1>7
<1>12. digit[f] # 0
  <2>1. m \in 0 .. C /\ m - 1 \in 0 .. C /\ m \in 1 .. C
    BY <1>1, <1>7
  <2>2. q[m] = 0 /\ q[m - 1] # 0 /\ q[m - 1] \in Nat
    BY <1>4, <1>6, <2>1
  <2>3. q[m] = q[m - 1] \div b
    BY <1>3, <2>1 DEF Counts
  <2>4. PICK v \in Nat : v = q[m - 1] /\ v # 0 /\ v \div b = 0
    BY <2>2, <2>3
  <2>5. v % b = v
    <3>1. CASE b = 10
      BY <2>4, <3>1
    <3>2. CASE b = 16
      BY <2>4, <3>2
    <3> QED
      BY <3>1, <3>2
  <2> QED
    BY <1>9, <1>11, <2>4, <2>5
<1>13. PICK written : written = {k \in DOMAIN digit : \E j \in 1 .. k : digit[j] # 0}
  OBVIOUS
<1>14. DOMAIN digit = 1 .. N /\ Len(digit) = N
  <2>1. DOMAIN digit = 1 .. N
    BY <1>90
  <2> QED
    BY <1>1, <2>1
<1>15. written = f .. N
  <2>1. ASSUME NEW k \in 1 .. N, f <= k PROVE k \in written
    BY <1>11, <1>12, <1>13, <1>14, <2>1
  <2>2. ASSUME NEW k \in written PROVE k \in f .. N
    <3>1. k \in 1 .. N
      BY <1>13, <1>14
    <3>2. PICK j \in 1 .. k : digit[j] # 0
      BY <1>13
    <3>3. j \in 1 .. N /\ ~(j <= N - m)
      BY <1>10, <3>1, <3>2
    <3> QED
      BY <1>7, <1>11, <3>1, <3>2, <3>3
  <2>3. \A k \in f .. N : k \in 1 .. N /\ f <= k
    BY <1>11
  <2> QED
    BY <2>1, <2>2, <2>3
<1>16. Cardinality(written) = m
  <2>1. Cardinality(f .. N) = N - f + 1
    BY <1>7, <1>11, FS_Interval, f \in Int, N \in Int, ~(f > N)
  <2> QED
    BY <1>11, <1>15, <2>1
<1>17. PICK d : d = [k \in 1 .. m |-> HexDigit(digit[(N - m) + k])]
  OBVIOUS
<1>18. Numeral(digit) = d
  <2> DEFINE w == {k \in DOMAIN digit : \E j \in 1 .. k : digit[j] # 0}
  <2>1. Numeral(digit) = [k \in 1 .. Cardinality(w) |-> HexDigit(digit[(Len(digit) - Cardinality(w)) + k])]
    BY Zenon DEF Numeral
  <2>2. Cardinality(w) = m
    BY <1>13, <1>16
  <2> HIDE DEF w
  <2> QED
    BY <1>14, <1>17, <2>1, <2>2
<1>19. ASSUME NEW k \in 1 .. m
       PROVE  HexDigit(digit[(N - m) + k]) = PlaceDigit(P, u, b, m - k)
  <2>1. PICK n \in 1 .. N : n = (N - m) + k /\ N - n = m - k /\ m - k \in 0 .. C
    BY <1>1, <1>7
  <2>2. digit[n] = q[m - k] % b
    BY <1>9, <2>1
  <2>3. u \div P[m - k] = q[m - k]
    BY <1>4, <2>1
  <2> QED
    BY <2>1, <2>2, <2>3 DEF PlaceDigit
<1>20. d = [k \in 1 .. m |-> PlaceDigit(P, u, b, m - k)]
  BY <1>17, <1>19
<1>21. d \in Seq(Nat)
  <2>1. \A k \in 1 .. m : d[k] \in Nat
    BY <1>17, HexDigitIsNat
  <2>2. d = [k \in 1 .. m |-> d[k]] /\ m \in Nat
    BY <1>17
  <2> QED
    BY <2>1, <2>2, DigitsAreSeq
<1> QED
  BY <1>8, <1>18, <1>20, <1>21

LEMMA Sixteens ==
  \A i \in Nat : 4 * i <= CellBits => PlaceValues(16)[i] = 2 ^ (4 * i) /\ 2 ^ (4 * i) \in Nat
<1> DEFINE S == {i \in Nat : 4 * i <= CellBits => PlaceValues(16)[i] = 2 ^ (4 * i) /\ 2 ^ (4 * i) \in Nat}
<1>1. PICK P : /\ P = PlaceValues(16) /\ P[0] = 1
               /\ \A i \in 1 .. CellBits : P[i] = 16 * P[i - 1]
  BY PlaceValuesAre
<1>2. 0 \in S
  <2>1. 4 * 0 = 0 /\ 2 ^ 0 = 1
    OBVIOUS
  <2> QED
    BY <1>1, <2>1
<1>3. ASSUME NEW i \in Nat, i \in S PROVE i + 1 \in S
  <2> SUFFICES ASSUME 4 * (i + 1) <= CellBits
               PROVE  P[i + 1] = 2 ^ (4 * (i + 1)) /\ 2 ^ (4 * (i + 1)) \in Nat
    BY <1>1
  <2>1. CellBits \in Nat
    BY WordsAssumption DEF WordsAssumption
  <2>2. 4 * i <= CellBits /\ i + 1 \in 1 .. CellBits /\ (i + 1) - 1 = i
    BY <2>1
  <2>3. PICK e \in Nat : e = 4 * i
    OBVIOUS
  <2>4. P[i] = 2 ^ e /\ 2 ^ e \in Nat
    BY <1>1, <1>3, <2>2, <2>3
  <2>5. /\ 2 ^ (e + 1) = 2 * 2 ^ e /\ 2 ^ (e + 2) = 2 * 2 ^ (e + 1)
        /\ 2 ^ (e + 3) = 2 * 2 ^ (e + 2) /\ 2 ^ (e + 4) = 2 * 2 ^ (e + 3)
    <3>1. 2 ^ (e + 1) = 2 * 2 ^ e
      BY PowerDoubles
    <3>2. 2 ^ ((e + 1) + 1) = 2 * 2 ^ (e + 1) /\ (e + 1) + 1 = e + 2
      BY PowerDoubles, e + 1 \in Nat
    <3>3. 2 ^ ((e + 2) + 1) = 2 * 2 ^ (e + 2) /\ (e + 2) + 1 = e + 3
      BY PowerDoubles, e + 2 \in Nat
    <3>4. 2 ^ ((e + 3) + 1) = 2 * 2 ^ (e + 3) /\ (e + 3) + 1 = e + 4
      BY PowerDoubles, e + 3 \in Nat
    <3> QED
      BY <3>1, <3>2, <3>3, <3>4
  <2>6. 4 * (i + 1) = e + 4 /\ P[i + 1] = 16 * P[i]
    BY <1>1, <2>2, <2>3
  <2>7. PICK t \in Nat : t = 2 ^ e
    BY <2>4
  <2>8. 2 ^ (e + 4) = 16 * t
    BY <2>5, <2>7
  <2> QED
    BY <2>4, <2>6, <2>7, <2>8
<1> HIDE DEF S
<1>4. \A i \in Nat : i \in S
  BY <1>2, <1>3, Induct
<1> QED
  BY <1>4 DEF S

(* One place of print_hex(): a and 16 c are the values of the places above *)
(* and below, w what is left of u in the high bits.                        *)
LeftIn(w, u, q, a, c, M) ==
  /\ q \in Nat /\ a \in Nat /\ c \in Nat /\ c > 0 /\ a * c = M
  /\ q * c <= u /\ u < q * c + c /\ w = (u - q * c) * a

LEMMA HexPlace ==
  ASSUME NEW w, NEW u \in Nat, NEW q, NEW a, NEW c, NEW d \in Nat, NEW K \in Nat, K > 0,
         LeftIn(w, u, q, a, c, 16 * K), c = 16 * d
  PROVE  /\ w \div K = (u \div d) % 16
         /\ LeftIn((w * 16) % (16 * K), u, u \div d, 16 * a, d, 16 * K)
         /\ w \in Nat
<1>1. /\ q \in Nat /\ a \in Nat /\ c \in Nat /\ c > 0 /\ a * c = 16 * K
      /\ q * c <= u /\ u < q * c + c /\ w = (u - q * c) * a
  BY DEF LeftIn
<1>2. d > 0
  BY <1>1
<1>3. PICK x \in Nat : x = q * d /\ q * c = 16 * x
  <2>1. q * d \in Nat
    BY <1>1
  <2>2. q * (16 * d) = 16 * (q * d)
    BY <1>1
  <2> QED
    BY <2>1, <2>2
<1>4. a * d = K
  <2>1. PICK y \in Nat : y = a * d
    BY <1>1
  <2>2. a * (16 * d) = 16 * (a * d)
    BY <1>1
  <2>3. 16 * y = 16 * K
    BY <1>1, <2>1, <2>2
  <2> QED
    BY <2>1, <2>3
<1>5. PICK r \in Nat : r = u - q * c /\ r < c
  <2>1. q * c \in Nat
    BY <1>1
  <2> QED
    BY <1>1, <2>1
<1>6. PICK k \in Nat, e \in Nat : k = r \div d /\ e = r % d /\ r = d * k + e /\ e < d
  <2>1. r \div d \in 0 .. r
    BY <1>2, DivLess
  <2>2. r = d * (r \div d) + (r % d) /\ r % d \in 0 .. d - 1
    BY <1>2
  <2> QED
    BY <2>1, <2>2
<1>7. PICK z \in Nat : z = k * d /\ r = z + e
  <2>1. k * d \in Nat /\ d * k = k * d
    BY <1>6
  <2> QED
    BY <1>6, <2>1
<1>8. k < 16
  <2> SUFFICES ASSUME k >= 16 PROVE FALSE
    BY <1>6
  <2>1. 15 * d + d <= k * d
    BY TimesLess, 15 \in Nat, 15 < k
  <2> QED
    BY <1>5, <1>7, <2>1
<1>9. u = 16 * x + z + e
  <2>1. PICK g \in Nat : g = q * c /\ g = 16 * x
    BY <1>3
  <2>2. r = u - g
    BY <1>5, <2>1
  <2> QED
    BY <1>7, <2>1, <2>2
<1>10. PICK p \in Nat : p = 16 * q + k /\ p * d = 16 * x + z
  <2>1. (16 * q + k) * d = 16 * (q * d) + k * d /\ 16 * q + k \in Nat
    BY <1>1
  <2> QED
    BY <1>3, <1>7, <2>1
<1>11. u \div d = p
  BY <1>2, <1>6, <1>9, <1>10, QuotientIs
<1>12. p % 16 = k
  BY <1>1, <1>8, <1>10
<1>13. PICK f \in Nat : f = e * a /\ w = k * K + f /\ f < K
  <2>1. w = (z + e) * a
    BY <1>1, <1>5, <1>7
  <2>2. (k * d + e) * a = k * (a * d) + e * a
    <3>1. k * d \in Nat /\ a \in Nat /\ e \in Nat /\ d \in Nat /\ k \in Nat
      BY <1>1, <1>6
    <3>2. (k * d + e) * a = (k * d) * a + e * a
      BY <3>1
    <3>3. (k * d) * a = k * (d * a) /\ d * a = a * d
      BY <3>1
    <3> QED
      BY <3>2, <3>3
  <2>3. w = k * K + e * a
    BY <1>4, <1>7, <2>1, <2>2
  <2>4. a > 0
    <3>1. a = 0 => a * d = 0
      BY <1>2
    <3> QED
      BY <1>1, <1>4, <3>1
  <2>5. e * a + a <= d * a
    BY <1>1, <1>6, TimesLess
  <2>6. d * a = K /\ e * a \in Nat
    BY <1>1, <1>4
  <2> QED
    BY <1>1, <2>3, <2>4, <2>5, <2>6
<1>14. k * K \in Nat
  OBVIOUS
<1>15. w \div K = k
  BY <1>13, <1>14, QuotientIs, w \in Nat
<1>16. (w * 16) % (16 * K) = 16 * f
  <2>1. PICK y \in Nat : y = k * K /\ w = y + f
    BY <1>13, <1>14
  <2>2. PICK M \in Nat : M = 16 * K /\ M > 0 /\ 16 * f < M
    BY <1>13
  <2>3. k * M = 16 * y
    BY <2>1, <2>2
  <2>4. w * 16 = k * M + 16 * f
    BY <2>1, <2>3
  <2>5. PICK n \in Nat : n = w * 16
    BY <2>1
  <2>6. n \div M = k
    BY <2>2, <2>3, <2>4, <2>5, QuotientIs, 16 * f \in Nat, k * M \in Nat
  <2>7. n = M * (n \div M) + (n % M)
    BY <2>2
  <2>8. n % M \in Int
    BY <2>2
  <2>9. PICK g \in Nat : g = k * M
    OBVIOUS
  <2>10. n = g + (n % M)
    BY <2>6, <2>7, <2>9
  <2> QED
    BY <2>2, <2>4, <2>5, <2>8, <2>9, <2>10
<1>17. LeftIn((w * 16) % (16 * K), u, p, 16 * a, d, 16 * K)
  <2>1. (16 * a) * d = 16 * K
    <3>1. (16 * a) * d = 16 * (a * d)
      BY <1>1
    <3> QED
      BY <1>4, <3>1
  <2>2. u - p * d = e
    BY <1>9, <1>10
  <2>3. e * (16 * a) = 16 * f
    <3>1. e * (16 * a) = 16 * (e * a)
      BY <1>1
    <3> QED
      BY <1>13, <3>1
  <2>4. p * d <= u /\ u < p * d + d
    BY <1>6, <1>9, <1>10
  <2>5. 16 * a \in Nat
    BY <1>1
  <2> QED
    BY <1>2, <1>16, <2>1, <2>2, <2>3, <2>4, <2>5 DEF LeftIn
<1>18. w \in Nat
  BY <1>13, <1>14
<1>19. w \div K = (u \div d) % 16
  BY <1>11, <1>12, <1>15
<1>20. LeftIn((w * 16) % (16 * K), u, u \div d, 16 * a, d, 16 * K)
  BY <1>11, <1>17
<1> QED
  BY <1>18, <1>19, <1>20

LEMMA QuotientsAre ==
  ASSUME NEW b \in {10, 16}, NEW u \in Nat
  PROVE  \E q : Counts(PlaceValues(b), q, u, b, CellBits)
<1>1. PICK N \in Nat : N = CellBits
  BY WordsAssumption DEF WordsAssumption
<1> DEFINE G == [i \in 1 .. N |-> [x \in Nat |-> x \div b]]
<1>2. ASSUME NEW x \in Nat PROVE x \div b \in Nat
  <2>1. CASE b = 10
    BY <2>1
  <2>2. CASE b = 16
    BY <2>2
  <2> QED
    BY <2>1, <2>2
<1>3. G \in [1 .. N -> [Nat -> Nat]]
  BY <1>2
<1>4. PICK H : H = G
  OBVIOUS
<1>5. \A i \in 1 .. N, x \in Nat : H[i][x] = x \div b
  BY <1>4
<1>6. H \in [1 .. N -> [Nat -> Nat]]
  BY <1>3, <1>4
<1> HIDE DEF G
<1>7. PICK q \in [0 .. N -> Nat] : Follows(q, u, H, N)
  <2>1. PICK T : T = Nat
    OBVIOUS
  <2>2. u \in T /\ H \in [1 .. N -> [T -> T]]
    BY <1>6, <2>1
  <2>3. \E q \in [0 .. N -> T] : Follows(q, u, H, N)
    BY <2>2, Recursion
  <2> QED
    BY <2>1, <2>3
<1>8. ASSUME NEW i \in 1 .. N PROVE q[i] = q[i - 1] \div b
  <2>1. q[i - 1] \in Nat
    OBVIOUS
  <2> QED
    BY <1>5, <1>7, <2>1 DEF Follows
<1>9. q[0] = u
  BY <1>7 DEF Follows
<1>10. Counts(PlaceValues(b), q, u, b, N)
  BY <1>1, <1>8, <1>9, PlaceValuesAre DEF Counts
<1> QED
  BY <1>1, <1>10

(* print_hex() of the high bits, one place after the other. *)
ShiftedOut(i, u, N) ==
  i[0] = u /\ \A n \in 1 .. N : i[n] = Unsigned(i[n - 1] * 16)

LEMMA PrintHexIs ==
  ASSUME NEW v \in Int, v # 0, NEW u \in Nat, u = Unsigned(v), NEW N \in Nat, N = CellBits \div 4
  PROVE  \E i : /\ ShiftedOut(i, u, N)
                /\ PrintHex(v) = Numeral([n \in 1 .. N |-> i[n - 1] \div 2 ^ (CellBits - 4)])
<1> DEFINE value[n \in 0 .. CellBits \div 4] == IF n = 0 THEN Unsigned(v) ELSE Unsigned(value[n - 1] * 16)
           G == [n \in 1 .. N |-> [x \in Nat |-> Unsigned(x * 16)]]
<1>1. PrintHex(v) = Numeral([n \in 1 .. CellBits \div 4 |-> value[n - 1] \div 2 ^ (CellBits - 4)])
  BY DEF PrintHex
<1>2. ASSUME NEW x \in Nat PROVE Unsigned(x * 16) \in Nat
  <2>1. PICK m \in Nat \ {0} : 2 ^ CellBits = 2 * m
    BY CellSize
  <2>2. PICK M \in Nat \ {0} : M = 2 ^ CellBits
    BY <2>1
  <2>3. PICK y \in Nat : y = x * 16
    OBVIOUS
  <2>4. y % M \in Nat
    BY <2>2
  <2> QED
    BY <2>2, <2>3, <2>4 DEF Unsigned
<1>3. G \in [1 .. N -> [Nat -> Nat]]
  BY <1>2
<1>4. PICK H : H = G
  OBVIOUS
<1>5. \A i \in 1 .. N, x \in Nat : H[i][x] = Unsigned(x * 16)
  BY <1>4
<1>6. H \in [1 .. N -> [Nat -> Nat]]
  BY <1>3, <1>4
<1> HIDE DEF G
<1>7. PICK f \in [0 .. N -> Nat] : Follows(f, u, H, N)
  <2>1. PICK T : T = Nat
    OBVIOUS
  <2>2. u \in T /\ H \in [1 .. N -> [T -> T]]
    BY <1>6, <2>1
  <2>3. \E q \in [0 .. N -> T] : Follows(q, u, H, N)
    BY <2>2, Recursion
  <2> QED
    BY <2>1, <2>3
<1>8. ASSUME NEW n \in 0 .. N
      PROVE  f[n] = IF n = 0 THEN Unsigned(v) ELSE Unsigned(f[n - 1] * 16)
  <2>1. CASE n # 0
    <3>1. n \in 1 .. N /\ n - 1 \in 0 .. N /\ f[n - 1] \in Nat
      BY <2>1
    <3> QED
      BY <1>5, <1>7, <2>1, <3>1 DEF Follows
  <2> QED
    BY <1>7, <2>1 DEF Follows
<1>9. f = [n \in 0 .. CellBits \div 4 |-> IF n = 0 THEN Unsigned(v) ELSE Unsigned(f[n - 1] * 16)]
  BY <1>8
<1>10. value = [n \in 0 .. CellBits \div 4 |-> IF n = 0 THEN Unsigned(v) ELSE Unsigned(value[n - 1] * 16)]
  <2> DEFINE is(g) == g = [n \in 0 .. CellBits \div 4 |-> IF n = 0 THEN Unsigned(v) ELSE Unsigned(g[n - 1] * 16)]
  <2>1. \E g : is(g)
    BY <1>9
  <2>2. value = CHOOSE g : is(g)
    OBVIOUS
  <2> HIDE DEF is
  <2>3. is(value)
    BY <2>1, <2>2
  <2> QED
    BY <2>3 DEF is
<1>11. PICK i : i = value
  OBVIOUS
<1> HIDE DEF value
<1>12. \A n \in 0 .. N : i[n] = IF n = 0 THEN Unsigned(v) ELSE Unsigned(i[n - 1] * 16)
  BY <1>10, <1>11
<1>13. ShiftedOut(i, u, N)
  <2>1. \A n \in 1 .. N : n \in 0 .. N /\ n # 0
    OBVIOUS
  <2>2. 0 \in 0 .. N
    OBVIOUS
  <2> QED
    BY <1>12, <2>1, <2>2 DEF ShiftedOut
<1>14. PrintHex(v) = Numeral([n \in 1 .. N |-> i[n - 1] \div 2 ^ (CellBits - 4)])
  BY <1>1, <1>11
<1> QED
  BY <1>13, <1>14

LEMMA HighBits ==
  ASSUME NEW i, NEW u \in Nat, NEW N \in Nat, 4 * N = CellBits, N > 0, u < 2 ^ CellBits,
         ShiftedOut(i, u, N)
  PROVE  \A n \in 1 .. N : i[n - 1] \div 2 ^ (CellBits - 4) = (u \div PlaceValues(16)[N - n]) % 16
<1>1. PICK P : P = PlaceValues(16) /\ \A n \in 1 .. CellBits : P[n] = 16 * P[n - 1]
  BY PlaceValuesAre
<1>2. CellBits \in Nat /\ N <= CellBits
  BY WordsAssumption DEF WordsAssumption
<1>3. PICK Q : Counts(P, Q, 0, 16, CellBits)
  <2>1. 0 \in Nat /\ 16 \in {10, 16}
    OBVIOUS
  <2> QED
    BY <1>1, <2>1, QuotientsAre
<1>4. P[0] = 1 /\ \A n \in 0 .. CellBits : P[n] \in Nat /\ P[n] > 0
  <2>1. 0 \in Nat /\ 16 \in {10, 16}
    OBVIOUS
  <2> QED
    <3>1. P[0] = 1
      BY <1>3 DEF Counts
    <3> QED
      BY <1>2, <1>3, <2>1, <3>1, PlacesAre
<1>5. PICK K \in Nat : K = 2 ^ (CellBits - 4) /\ K > 0 /\ 2 ^ CellBits = 16 * K
  <2>1. PICK k \in Nat : k = N - 1 /\ k + 1 = N /\ 4 * k <= CellBits /\ 4 * k = CellBits - 4
    OBVIOUS
  <2>2. P[k] = 2 ^ (4 * k) /\ P[N] = 2 ^ (4 * N)
    BY <1>1, <2>1, Sixteens
  <2>3. N \in 1 .. CellBits /\ k \in 0 .. CellBits /\ N - 1 = k
    BY <1>2, <2>1
  <2>4. P[N] = 16 * P[k] /\ P[k] \in Nat /\ P[k] > 0
    BY <1>1, <1>4, <2>3
  <2> QED
    BY <2>1, <2>2, <2>4
<1>6. P[N] = 16 * K
  BY <1>1, <1>5, Sixteens
<1> DEFINE S == {n \in Nat : n <= N => LeftIn(i[n], u, u \div P[N - n], P[n], P[N - n], 16 * K)}
<1>7. 0 \in S
  <2>1. PICK M \in Nat : M = 16 * K /\ M > 0 /\ u < M
    BY <1>5
  <2>2. u \div M = 0
    BY <2>1, QuotientIs, 0 * M = 0, 0 \in Nat
  <2>3. 1 * M = M /\ 0 * M = 0 /\ u = (u - 0) * 1 /\ N - 0 = N
    BY <2>1
  <2>4. i[0] = u
    BY DEF ShiftedOut
  <2>5. LeftIn(u, u, 0, 1, M, M)
    <3>1. u - 0 * M = u
      BY <2>3
    <3> QED
      BY <2>1, <2>3, <3>1, 0 \in Nat, 1 \in Nat DEF LeftIn
  <2>6. LeftIn(i[0], u, u \div P[N - 0], P[0], P[N - 0], M)
    BY <1>4, <1>6, <2>1, <2>2, <2>3, <2>4, <2>5
  <2> QED
    BY <2>1, <2>6
<1>8. ASSUME NEW n \in Nat, n < N, LeftIn(i[n], u, u \div P[N - n], P[n], P[N - n], 16 * K)
      PROVE  /\ i[n] \div K = (u \div P[N - (n + 1)]) % 16
             /\ LeftIn(i[n + 1], u, u \div P[N - (n + 1)], P[n + 1], P[N - (n + 1)], 16 * K)
  <2>1. PICK d \in Nat : d = P[N - (n + 1)] /\ P[N - n] = 16 * d
    <3>1. N - n \in 1 .. CellBits /\ N - (n + 1) = (N - n) - 1 /\ N - (n + 1) \in 0 .. CellBits
      BY <1>2, <1>8
    <3>2. P[N - n] = 16 * P[(N - n) - 1] /\ P[N - (n + 1)] \in Nat
      BY <1>1, <1>4, <3>1
    <3> QED
      BY <3>1, <3>2
  <2>2. PICK w, a, c, q : w = i[n] /\ a = P[n] /\ c = P[N - n] /\ q = u \div P[N - n]
    OBVIOUS
  <2>3. LeftIn(w, u, q, a, c, 16 * K) /\ c = 16 * d
    BY <1>8, <2>1, <2>2
  <2>4. /\ w \div K = (u \div d) % 16
        /\ LeftIn((w * 16) % (16 * K), u, u \div d, 16 * a, d, 16 * K)
        /\ w \in Nat
    BY <1>5, <2>3, HexPlace
  <2>5. i[n + 1] = (w * 16) % (16 * K)
    <3>1. n + 1 \in 1 .. N /\ (n + 1) - 1 = n
      BY <1>8
    <3>2. i[n + 1] = Unsigned(w * 16)
      BY <2>2, <3>1 DEF ShiftedOut
    <3> QED
      BY <1>5, <3>2 DEF Unsigned
  <2>6. P[n + 1] = 16 * a
    <3>1. n + 1 \in 1 .. CellBits /\ (n + 1) - 1 = n
      BY <1>2, <1>8
    <3> QED
      BY <1>1, <2>2, <3>1
  <2> QED
    BY <2>1, <2>2, <2>4, <2>5, <2>6
<1>9. ASSUME NEW n \in Nat, n \in S PROVE n + 1 \in S
  BY <1>8, <1>9
<1> HIDE DEF S
<1>10. \A n \in Nat : n \in S
  BY <1>7, <1>9, Induct
<1>11. ASSUME NEW n \in 1 .. N PROVE i[n - 1] \div K = (u \div P[N - n]) % 16
  <2>1. PICK k \in Nat : k = n - 1 /\ k < N /\ k + 1 = n /\ k <= N
    OBVIOUS
  <2>2. k \in S
    BY <1>10
  <2>3. LeftIn(i[k], u, u \div P[N - k], P[k], P[N - k], 16 * K)
    BY <2>1, <2>2 DEF S
  <2>4. i[k] \div K = (u \div P[N - (k + 1)]) % 16
    BY <1>8, <2>1, <2>3
  <2> QED
    BY <2>1, <2>4
<1> QED
  BY <1>1, <1>5, <1>11

(* print_hex() writes the hexadecimal numeral of every number of a cell. *)
LEMMA PrintHexMeant ==
  ASSUME NEW v \in CellRange
  PROVE  PrintHex(v) = Hexadecimal(v) /\ Hexadecimal(v) \in Seq(Nat)
<1>1. PICK m \in Nat \ {0} : m = 2 ^ (CellBits - 1) /\ 2 ^ CellBits = 2 * m
  BY CellSize
<1>2. v \in -m .. m - 1
  BY <1>1 DEF CellRange
<1>3. CASE v = 0
  <2>1. Unsigned(v) = 0
    BY <1>1, <1>3 DEF Unsigned
  <2>2. Hexadecimal(v) = <<Zero>>
    BY <2>1, PositionalZero DEF Hexadecimal
  <2> QED
    BY <1>3, <2>2, ZeroIsSeq DEF PrintHex
<1>4. CASE v # 0
  <2>1. PICK u \in Nat : u = Unsigned(v) /\ u > 0 /\ u < 2 ^ CellBits
    <3>1. PICK M \in Nat : M = 2 * m /\ M = 2 ^ CellBits
      BY <1>1
    <3>2. v % M = IF v < 0 THEN v + M ELSE v
      BY <1>2, <3>1
    <3> QED
      BY <1>2, <1>4, <3>1, <3>2 DEF Unsigned
  <2>2. PICK N \in Nat : N = CellBits \div 4 /\ 4 * N = CellBits /\ N > 0 /\ N \in 1 .. CellBits
    BY WordsAssumption, PrintingAssumption DEF WordsAssumption, PrintingAssumption
  <2>3. PICK i : /\ ShiftedOut(i, u, N)
                 /\ PrintHex(v) = Numeral([n \in 1 .. N |-> i[n - 1] \div 2 ^ (CellBits - 4)])
    <3>1. v \in Int
      BY <1>2
    <3> QED
      BY <1>4, <2>1, <2>2, <3>1, PrintHexIs
  <2>4. PICK P : P = PlaceValues(16)
    OBVIOUS
  <2>5. \A n \in 1 .. N : i[n - 1] \div 2 ^ (CellBits - 4) = (u \div P[N - n]) % 16
    <3>1. \A n \in 1 .. N :
            i[n - 1] \div 2 ^ (CellBits - 4) = (u \div PlaceValues(16)[N - n]) % 16
      BY ONLY <2>1, <2>2, <2>3, HighBits
    <3> QED
      BY ONLY <2>4, <3>1
  <2>6. PICK q : Counts(P, q, u, 16, CellBits)
    BY <2>4, QuotientsAre, 16 \in {10, 16}
  <2>7. \A k \in 0 .. CellBits : u \div P[k] = q[k]
    <3>1. CellBits \in Nat
      BY WordsAssumption DEF WordsAssumption
    <3> QED
      BY <2>6, <3>1, PlacesAre, 16 \in {10, 16}
  <2>8. PICK digit : digit = [n \in 1 .. N |-> q[N - n] % 16]
    OBVIOUS
  <2>9. [n \in 1 .. N |-> i[n - 1] \div 2 ^ (CellBits - 4)] = digit
    <3>1. \A n \in 1 .. N : N - n \in 0 .. CellBits
      BY <2>2
    <3>2. \A n \in 1 .. N : i[n - 1] \div 2 ^ (CellBits - 4) = q[N - n] % 16
      BY <2>5, <2>7, <3>1
    <3> QED
      BY <2>8, <3>2
  <2>10. u < P[N]
    BY <2>1, <2>2, <2>4, Sixteens
  <2>11. Numeral(digit) = Positional(u, 16) /\ Positional(u, 16) \in Seq(Nat)
    <3>1. PICK b \in {10, 16} : b = 16
      OBVIOUS
    <3>2. HighFirst(digit, q, b, N) /\ Counts(PlaceValues(b), q, u, b, CellBits) /\ u < PlaceValues(b)[N]
      BY <2>4, <2>6, <2>8, <2>10, <3>1 DEF HighFirst
    <3>3. Numeral(digit) = Positional(u, b) /\ Positional(u, b) \in Seq(Nat)
      BY <2>1, <2>2, <3>2, NumeralOf
    <3> QED
      BY <3>1, <3>3
  <2> QED
    BY <2>1, <2>3, <2>9, <2>11 DEF Hexadecimal
<1> QED
  BY <1>3, <1>4

(* Ten has more than three bits. *)
LEMMA TenIsMore ==
  \A i \in Nat : i <= CellBits => PlaceValues(10)[i] \in Nat /\ PlaceValues(10)[i] >= 2 ^ (3 * i) /\ 2 ^ (3 * i) \in Nat
<1> DEFINE S == {i \in Nat : i <= CellBits =>
                   PlaceValues(10)[i] \in Nat /\ PlaceValues(10)[i] >= 2 ^ (3 * i) /\ 2 ^ (3 * i) \in Nat}
<1>1. PICK P : /\ P = PlaceValues(10) /\ P[0] = 1
               /\ \A i \in 1 .. CellBits : P[i] = 10 * P[i - 1]
  BY PlaceValuesAre
<1>2. 0 \in S
  <2>1. 3 * 0 = 0 /\ 2 ^ 0 = 1
    OBVIOUS
  <2> QED
    BY <1>1, <2>1
<1>3. ASSUME NEW i \in Nat, i \in S PROVE i + 1 \in S
  <2> SUFFICES ASSUME i + 1 <= CellBits
               PROVE  P[i + 1] \in Nat /\ P[i + 1] >= 2 ^ (3 * (i + 1)) /\ 2 ^ (3 * (i + 1)) \in Nat
    BY <1>1
  <2>1. CellBits \in Nat
    BY WordsAssumption DEF WordsAssumption
  <2>2. i <= CellBits /\ i + 1 \in 1 .. CellBits /\ (i + 1) - 1 = i
    BY <2>1
  <2>3. PICK e \in Nat : e = 3 * i
    OBVIOUS
  <2>4. PICK p \in Nat : p = P[i] /\ p >= 2 ^ e /\ 2 ^ e \in Nat
    BY <1>1, <1>3, <2>2, <2>3
  <2>5. /\ 2 ^ (e + 1) = 2 * 2 ^ e /\ 2 ^ (e + 2) = 2 * 2 ^ (e + 1)
        /\ 2 ^ (e + 3) = 2 * 2 ^ (e + 2)
    <3>1. 2 ^ (e + 1) = 2 * 2 ^ e
      BY PowerDoubles
    <3>2. 2 ^ ((e + 1) + 1) = 2 * 2 ^ (e + 1) /\ (e + 1) + 1 = e + 2
      BY PowerDoubles, e + 1 \in Nat
    <3>3. 2 ^ ((e + 2) + 1) = 2 * 2 ^ (e + 2) /\ (e + 2) + 1 = e + 3
      BY PowerDoubles, e + 2 \in Nat
    <3> QED
      BY <3>1, <3>2, <3>3
  <2>6. 3 * (i + 1) = e + 3 /\ P[i + 1] = 10 * p
    BY <1>1, <2>2, <2>3, <2>4
  <2>7. PICK t \in Nat : t = 2 ^ e
    BY <2>4
  <2>8. 2 ^ (e + 3) = 8 * t
    BY <2>5, <2>7
  <2> QED
    BY <2>4, <2>6, <2>7, <2>8
<1> HIDE DEF S
<1>4. \A i \in Nat : i \in S
  BY <1>2, <1>3, Induct
<1> QED
  BY <1>4 DEF S

(* The powers of ten that print_dec() goes through are enough for a cell. *)
LEMMA HighestIs ==
  /\ HighestPower \in Nat /\ HighestPower + 1 \in 1 .. CellBits
  /\ PlaceValues(10)[HighestPower + 1] >= 2 ^ (CellBits - 1)
<1>1. PICK C \in Nat : C = CellBits /\ C > 8
  BY WordsAssumption DEF WordsAssumption
<1>2. PICK T \in Nat : T = C \div 3 /\ T + 1 \in 1 .. C /\ T \in 0 .. C /\ 3 * (T + 1) \in C + 1 .. C + 3
  BY <1>1
<1>3. PICK P : P = PlaceValues(10)
  OBVIOUS
<1>4. PICK B \in Nat \ {0} : B = 2 ^ (C - 1) /\ 2 ^ C = 2 * B /\ B > 1
  <2>1. PICK e \in Nat : e = C - 2 /\ e + 1 = C - 1
    BY <1>1
  <2>2. 2 ^ (e + 1) = 2 * 2 ^ e /\ 2 ^ e \in Nat
    BY PowerDoubles
  <2>3. 2 ^ (C - 1) \in Nat \ {0} /\ 2 ^ C = 2 * 2 ^ (C - 1)
    BY <1>1, CellSize
  <2>4. 2 ^ (C - 1) > 1
    BY <2>1, <2>2, <2>3
  <2> QED
    BY <2>3, <2>4
<1>5. P[T + 1] >= B
  <2>1. P[T + 1] \in Nat /\ P[T + 1] >= 2 ^ (3 * (T + 1)) /\ 2 ^ (3 * (T + 1)) \in Nat
    <3>1. PICK t \in Nat : t = T + 1 /\ t <= CellBits
      BY <1>1, <1>2
    <3>2. PlaceValues(10)[t] \in Nat /\ PlaceValues(10)[t] >= 2 ^ (3 * t) /\ 2 ^ (3 * t) \in Nat
      BY <3>1, TenIsMore
    <3> QED
      BY <1>3, <3>1, <3>2
  <2>2. 2 ^ (3 * (T + 1)) >= B
    <3>1. 2 ^ (C + 1) = 2 * 2 ^ C
      BY PowerDoubles
    <3>2. 2 ^ ((C + 1) + 1) = 2 * 2 ^ (C + 1) /\ (C + 1) + 1 = C + 2
      BY PowerDoubles, C + 1 \in Nat
    <3>3. 2 ^ ((C + 2) + 1) = 2 * 2 ^ (C + 2) /\ (C + 2) + 1 = C + 3
      BY PowerDoubles, C + 2 \in Nat
    <3>4. 2 ^ (C + 1) = 4 * B /\ 2 ^ (C + 2) = 8 * B /\ 2 ^ (C + 3) = 16 * B
      BY <1>4, <3>1, <3>2, <3>3
    <3>5. 3 * (T + 1) = C + 1 \/ 3 * (T + 1) = C + 2 \/ 3 * (T + 1) = C + 3
      BY <1>2
    <3>6. PICK e \in Nat : e = 3 * (T + 1)
      OBVIOUS
    <3>7. 2 ^ e >= B
      BY <3>4, <3>5, <3>6
    <3> QED
      BY <3>6, <3>7
  <2> QED
    BY <2>1, <2>2
<1>6. PICK n \in Nat : n = B - 1 /\ n > 0
  BY <1>4
<1>7. PICK b \in {10, 16} : b = 10
  OBVIOUS
<1>8. PICK q : Counts(P, q, n, b, C)
  BY <1>1, <1>3, <1>7, QuotientsAre
<1>9. \A i \in 0 .. C : P[i] \in Nat /\ (q[i] # 0 <=> P[i] <= n)
  BY <1>8, PlacesAre
<1>10. q[C] = 0
  <2>1. P[C] >= 2 ^ C
    BY <1>8, PlacesCount, C \in 0 .. C
  <2>2. ~(P[C] <= n)
    BY <1>4, <1>6, <1>9, <2>1, C \in 0 .. C
  <2> QED
    BY <1>9, <2>2, C \in 0 .. C
<1>11. PICK m \in 1 .. C : Occupied(q, C, m)
  BY <1>6, <1>8, <1>10, HowManyDigits
<1>12. \A i \in 0 .. C : (P[i] <= n) <=> (i < m)
  BY <1>9, <1>11 DEF Occupied
<1>13. m <= T + 1
  <2>1. T + 1 \in 0 .. C
    BY <1>2
  <2>2. ~(P[T + 1] <= n)
    BY <1>4, <1>5, <1>6, <1>9, <2>1
  <2>3. ~(T + 1 < m)
    BY <1>12, <2>1, <2>2
  <2> QED
    BY <2>3
<1>14. {p \in 1 .. T : P[p] < B} = 1 .. m - 1
  <2>1. \A p \in 1 .. T : p \in 0 .. C
    BY <1>2
  <2>2. \A p \in 1 .. T : P[p] < B <=> p < m
    BY <1>4, <1>6, <1>9, <1>12, <2>1
  <2> QED
    BY <1>13, <2>2
<1>15. HighestPower = m - 1
  <2>1. Cardinality(1 .. m - 1) = m - 1
    BY FS_Interval, m - 1 \in Int, 1 \in Int
  <2>2. HighestPower = Cardinality({p \in 1 .. T : P[p] < B})
    BY <1>1, <1>2, <1>3, <1>4 DEF HighestPower
  <2> QED
    BY <1>14, <2>1, <2>2
<1>16. P[m] >= B
  <2>1. m \in 0 .. C /\ ~(m < m)
    OBVIOUS
  <2>2. ~(P[m] <= n) /\ P[m] \in Nat
    BY <1>9, <1>12, <2>1
  <2> QED
    BY <1>4, <1>6, <2>2
<1>17. (m - 1) + 1 = m /\ m - 1 \in Nat
  OBVIOUS
<1> QED
  BY <1>1, <1>3, <1>4, <1>15, <1>16, <1>17

LEMMA Division ==
  ASSUME NEW x \in Nat, NEW y \in Nat \ {0}
  PROVE  x \div y \in Nat /\ x = y * (x \div y) + (x % y) /\ x % y \in 0 .. y - 1
<1>1. PICK q : q = x \div y
  OBVIOUS
<1>2. q \in Int /\ x = y * q + (x % y) /\ x % y \in 0 .. y - 1
  BY <1>1
<1>3. q \in 0 .. x
  BY <1>1, DivLess
<1> QED
  BY <1>1, <1>2, <1>3

(* One place of print_dec(): w is what is left of u below the place c. *)
RestIn(w, u, q, c) ==
  q \in Nat /\ c \in Nat /\ c > 0 /\ q * c <= u /\ u < q * c + c /\ w = u - q * c

LEMMA DecPlace ==
  ASSUME NEW w, NEW u \in Nat, NEW q, NEW c, NEW d \in Nat,
         RestIn(w, u, q, c), c = 10 * d
  PROVE  /\ w \in Nat /\ Quotient(w, d) = (u \div d) % 10
         /\ RestIn(w - d * Quotient(w, d), u, u \div d, d)
<1>1. q \in Nat /\ c \in Nat /\ c > 0 /\ q * c <= u /\ u < q * c + c /\ w = u - q * c
  BY DEF RestIn
<1>2. d > 0
  BY <1>1
<1>3. PICK x \in Nat : x = q * d /\ q * c = 10 * x
  <2>1. q * d \in Nat
    BY <1>1
  <2>2. q * (10 * d) = 10 * (q * d)
    BY <1>1
  <2> QED
    BY <2>1, <2>2
<1>4. PICK r \in Nat : r = w /\ r < 10 * d /\ u = 10 * x + r
  <2>1. PICK g \in Nat : g = q * c /\ g = 10 * x
    BY <1>3
  <2>2. g <= u /\ u < g + c /\ w = u - g
    BY <1>1, <2>1
  <2> QED
    BY <2>1, <2>2
<1>5. PICK k \in Nat, e \in Nat : k = r \div d /\ e = r % d /\ r = d * k + e /\ e < d
  <2>1. r \div d \in 0 .. r
    BY <1>2, DivLess
  <2>2. r = d * (r \div d) + (r % d) /\ r % d \in 0 .. d - 1
    BY <1>2
  <2> QED
    BY <2>1, <2>2
<1>6. PICK z \in Nat : z = k * d /\ r = z + e /\ d * k = z
  <2>1. k * d \in Nat /\ d * k = k * d
    BY <1>5
  <2> QED
    BY <1>5, <2>1
<1>7. k < 10
  <2> SUFFICES ASSUME k >= 10 PROVE FALSE
    BY <1>5
  <2>1. 9 * d + d <= k * d
    BY TimesLess, 9 \in Nat, 9 < k
  <2> QED
    BY <1>4, <1>6, <2>1
<1>8. Quotient(w, d) = k
  <2>1. (d < 0) = (w < 0) /\ ~(d < 0) /\ ~(w < 0)
    BY <1>4
  <2> QED
    BY <1>4, <1>5, <2>1 DEF Quotient
<1>9. PICK p \in Nat : p = 10 * q + k /\ p * d = 10 * x + z
  <2>1. (10 * q + k) * d = 10 * (q * d) + k * d /\ 10 * q + k \in Nat
    BY <1>1
  <2> QED
    BY <1>3, <1>6, <2>1
<1>10. u = p * d + e
  BY <1>4, <1>6, <1>9
<1>11. u \div d = p
  <2>1. p * d \in Nat
    OBVIOUS
  <2> QED
    BY <1>2, <1>5, <1>10, <2>1, QuotientIs
<1>12. p % 10 = k
  BY <1>1, <1>7, <1>9
<1>13. w - d * k = e
  BY <1>4, <1>6
<1>14. RestIn(e, u, p, d)
  <2>1. PICK g \in Nat : g = p * d /\ u = g + e
    BY <1>10
  <2>2. p * d <= u /\ u < p * d + d /\ e = u - p * d
    BY <1>5, <2>1
  <2> QED
    BY <1>2, <2>2 DEF RestIn
<1>15. w \in Nat /\ Quotient(w, d) = (u \div d) % 10
  BY <1>4, <1>8, <1>11, <1>12
<1>16. RestIn(w - d * Quotient(w, d), u, u \div d, d)
  BY <1>8, <1>11, <1>13, <1>14
<1> QED
  BY <1>15, <1>16

LEMMA TakeOff ==
  ASSUME NEW x \in Nat, NEW p \in Nat, p > 0
  PROVE  x - p * Quotient(x, p) \in Nat
<1>1. p \in Nat \ {0}
  OBVIOUS
<1>2. x \div p \in Nat /\ x = p * (x \div p) + (x % p) /\ x % p \in 0 .. p - 1
  BY <1>1, Division
<1>3. PICK d \in Nat, r \in Nat : d = x \div p /\ x = p * d + r
  BY <1>2
<1>4. Quotient(x, p) = d
  <2>1. (p < 0) = (x < 0) /\ ~(p < 0) /\ ~(x < 0)
    OBVIOUS
  <2> QED
    BY <1>3, <2>1 DEF Quotient
<1>5. PICK y \in Nat : y = p * d
  OBVIOUS
<1> QED
  BY <1>3, <1>4, <1>5

(* print_dec(): what is left of the number, one power of ten after the     *)
(* other.                                                                  *)
TakenOff(i, u, N) ==
  /\ i[0] = u
  /\ \A n \in 1 .. N : i[n] = i[n - 1] - PlaceValues(10)[N - n] * Quotient(i[n - 1], PlaceValues(10)[N - n])

LEMMA PrintDecIs ==
  ASSUME NEW v \in Int, v # 0, NEW u \in Nat, u = IF v < 0 THEN Signed(-v) ELSE v,
         NEW N \in Nat, N = HighestPower + 1
  PROVE  \E i : /\ TakenOff(i, u, N)
                /\ PrintDec(v) = (IF v < 0 THEN <<Minus>> ELSE <<>>)
                     \o Numeral([n \in 1 .. N |-> Quotient(i[n - 1], PlaceValues(10)[N - n])])
<1> DEFINE j(n) == PlaceValues(10)[HighestPower + 1 - n]
           value[n \in 0 .. HighestPower + 1] ==
             IF n = 0 THEN (IF v < 0 THEN Signed(-v) ELSE v)
             ELSE value[n - 1] - j(n) * Quotient(value[n - 1], j(n))
           k == [n \in 1 .. HighestPower + 1 |-> Quotient(value[n - 1], j(n))]
<1>1. PrintDec(v) = (IF v < 0 THEN <<Minus>> ELSE <<>>) \o Numeral(k)
  BY DEF PrintDec
<1>2. PICK P : P = PlaceValues(10)
  OBVIOUS
<1> DEFINE step(x, n) == x - P[N - n] * Quotient(x, P[N - n])
           G == [n \in 1 .. N |-> [x \in Nat |-> step(x, n)]]
<1>3. ASSUME NEW n \in 1 .. N PROVE P[N - n] \in Nat /\ P[N - n] > 0
  <2>1. CellBits \in Nat /\ N - n \in 0 .. CellBits /\ 0 \in Nat /\ 10 \in {10, 16}
    BY HighestIs, WordsAssumption DEF WordsAssumption
  <2>2. PICK Q : Counts(P, Q, 0, 10, CellBits)
    BY <1>2, <2>1, QuotientsAre
  <2> QED
    BY <2>1, <2>2, PlacesAre
<1>4. ASSUME NEW n \in 1 .. N, NEW x \in Nat PROVE step(x, n) \in Nat
  <2>1. PICK p \in Nat : p = P[N - n] /\ p > 0
    BY <1>3
  <2>2. x - p * Quotient(x, p) \in Nat
    BY <2>1, TakeOff
  <2> QED
    BY <2>1, <2>2
<1> HIDE DEF step
<1>5. G \in [1 .. N -> [Nat -> Nat]]
  BY <1>4
<1>6. PICK H : H = G
  OBVIOUS
<1>7. \A n \in 1 .. N, x \in Nat : H[n][x] = step(x, n)
  BY <1>6
<1>8. H \in [1 .. N -> [Nat -> Nat]]
  BY <1>5, <1>6
<1> HIDE DEF G
<1>9. PICK f \in [0 .. N -> Nat] : Follows(f, u, H, N)
  <2>1. PICK T : T = Nat
    OBVIOUS
  <2>2. u \in T /\ H \in [1 .. N -> [T -> T]]
    BY <1>8, <2>1
  <2>3. \E q \in [0 .. N -> T] : Follows(q, u, H, N)
    BY <2>2, Recursion
  <2> QED
    BY <2>1, <2>3
<1> DEFINE begin == IF v < 0 THEN Signed(-v) ELSE v
           next(g, n) == g[n - 1] - j(n) * Quotient(g[n - 1], j(n))
<1>10. ASSUME NEW n \in 0 .. N
       PROVE  f[n] = IF n = 0 THEN begin ELSE next(f, n)
  <2>1. CASE n # 0
    <3>1. n \in 1 .. N /\ n - 1 \in 0 .. N /\ f[n - 1] \in Nat
      BY <2>1
    <3>2. f[n] = step(f[n - 1], n)
      BY <1>7, <1>9, <3>1 DEF Follows
    <3>3. j(n) = P[N - n]
      BY <1>2, HighestIs
    <3>4. f[n] = next(f, n)
      BY <3>2, <3>3 DEF step
    <3> HIDE DEF next, begin
    <3> QED
      BY <2>1, <3>4
  <2>2. CASE n = 0
    BY <1>9, <2>2 DEF Follows
  <2> QED
    BY <2>1, <2>2
<1>11. f = [n \in 0 .. HighestPower + 1 |-> IF n = 0 THEN begin ELSE next(f, n)]
  <2> HIDE DEF next, begin
  <2> QED
    BY <1>10
<1>12. value = [n \in 0 .. HighestPower + 1 |-> IF n = 0 THEN begin ELSE next(value, n)]
  <2> DEFINE is(g) == g = [n \in 0 .. HighestPower + 1 |-> IF n = 0 THEN begin ELSE next(g, n)]
  <2>1. \E g : is(g)
    <3> HIDE DEF next, begin
    <3> QED
      BY <1>11
  <2>2. value = CHOOSE g : is(g)
    OBVIOUS
  <2> HIDE DEF is
  <2>3. is(value)
    BY <2>1, <2>2
  <2> QED
    BY <2>3 DEF is
<1>13. PICK i : i = value
  OBVIOUS
<1>14. k = [n \in 1 .. N |-> Quotient(i[n - 1], P[N - n])]
  <2>1. k = [n \in 1 .. N |-> Quotient(i[n - 1], j(n))]
    BY <1>13
  <2>2. \A n \in 1 .. N : j(n) = P[N - n]
    BY <1>2, HighestIs
  <2> HIDE DEF k, value, j
  <2> QED
    BY <2>1, <2>2
<1> HIDE DEF value, k
<1>15. \A n \in 0 .. N : i[n] = IF n = 0 THEN begin ELSE next(i, n)
  <2> HIDE DEF next, begin
  <2>1. i = [n \in 0 .. HighestPower + 1 |-> IF n = 0 THEN begin ELSE next(i, n)]
    BY <1>12, <1>13
  <2> QED
    BY <2>1
<1>16. TakenOff(i, u, N)
  <2>1. i[0] = u
    BY <1>15, 0 \in 0 .. N
  <2>2. ASSUME NEW n \in 1 .. N PROVE i[n] = i[n - 1] - P[N - n] * Quotient(i[n - 1], P[N - n])
    <3>1. n \in 0 .. N /\ n # 0
      OBVIOUS
    <3>2. i[n] = next(i, n)
      <4> HIDE DEF next, begin
      <4> QED
        BY <1>15, <3>1
    <3>3. j(n) = P[N - n]
      BY <1>2, HighestIs
    <3> QED
      BY <3>2, <3>3
  <2> QED
    BY <1>2, <2>1, <2>2 DEF TakenOff
<1>17. PrintDec(v) = (IF v < 0 THEN <<Minus>> ELSE <<>>)
         \o Numeral([n \in 1 .. N |-> Quotient(i[n - 1], P[N - n])])
  BY <1>1, <1>14
<1> QED
  BY <1>2, <1>16, <1>17

LEMMA PlacesTaken ==
  ASSUME NEW i, NEW u \in Nat, NEW N \in 1 .. CellBits, u < PlaceValues(10)[N], TakenOff(i, u, N)
  PROVE  \A n \in 1 .. N :
           Quotient(i[n - 1], PlaceValues(10)[N - n]) = (u \div PlaceValues(10)[N - n]) % 10
<1>1. PICK P : P = PlaceValues(10) /\ \A n \in 1 .. CellBits : P[n] = 10 * P[n - 1]
  BY PlaceValuesAre
<1>2. CellBits \in Nat /\ N <= CellBits /\ N \in Nat
  BY WordsAssumption DEF WordsAssumption
<1>3. \A n \in 0 .. CellBits : P[n] \in Nat /\ P[n] > 0
  <2>1. 0 \in Nat /\ 10 \in {10, 16}
    OBVIOUS
  <2>2. PICK Q : Counts(P, Q, 0, 10, CellBits)
    BY <1>1, <2>1, QuotientsAre
  <2> QED
    BY <1>2, <2>1, <2>2, PlacesAre
<1> DEFINE S == {n \in Nat : n <= N => RestIn(i[n], u, u \div P[N - n], P[N - n])}
<1>4. 0 \in S
  <2>1. PICK M \in Nat : M = P[N] /\ M > 0 /\ u < M
    BY <1>1, <1>2, <1>3
  <2>2. u \div M = 0
    BY <2>1, QuotientIs, 0 * M = 0, 0 \in Nat
  <2>3. 0 * M = 0 /\ N - 0 = N /\ u - 0 = u
    BY <1>2, <2>1
  <2>4. i[0] = u
    BY DEF TakenOff
  <2>5. RestIn(u, u, 0, M)
    <3>1. u - 0 * M = u
      BY <2>3
    <3> QED
      BY <2>1, <2>3, <3>1, 0 \in Nat DEF RestIn
  <2>6. RestIn(i[0], u, u \div P[N - 0], P[N - 0])
    BY <2>1, <2>2, <2>3, <2>4, <2>5
  <2> QED
    BY <2>6
<1>5. ASSUME NEW n \in Nat, n < N, RestIn(i[n], u, u \div P[N - n], P[N - n])
      PROVE  /\ Quotient(i[n], P[N - (n + 1)]) = (u \div P[N - (n + 1)]) % 10
             /\ RestIn(i[n + 1], u, u \div P[N - (n + 1)], P[N - (n + 1)])
  <2>1. PICK d \in Nat : d = P[N - (n + 1)] /\ P[N - n] = 10 * d
    <3>1. N - n \in 1 .. CellBits /\ N - (n + 1) = (N - n) - 1 /\ N - (n + 1) \in 0 .. CellBits
      BY <1>2, <1>5
    <3>2. P[N - n] = 10 * P[(N - n) - 1] /\ P[N - (n + 1)] \in Nat
      BY <1>1, <1>3, <3>1
    <3> QED
      BY <3>1, <3>2
  <2>2. PICK w, c, q : w = i[n] /\ c = P[N - n] /\ q = u \div P[N - n]
    OBVIOUS
  <2>3. RestIn(w, u, q, c) /\ c = 10 * d
    BY <1>5, <2>1, <2>2
  <2>4. /\ Quotient(w, d) = (u \div d) % 10
        /\ RestIn(w - d * Quotient(w, d), u, u \div d, d)
    BY <2>3, DecPlace
  <2>5. i[n + 1] = w - d * Quotient(w, d)
    <3>1. n + 1 \in 1 .. N /\ (n + 1) - 1 = n
      BY <1>5
    <3>2. PICK k \in 1 .. N : k = n + 1 /\ k - 1 = n
      BY <3>1
    <3>3. i[k] = i[k - 1] - P[N - k] * Quotient(i[k - 1], P[N - k])
      BY <1>1 DEF TakenOff
    <3> QED
      BY <2>1, <2>2, <3>2, <3>3
  <2> QED
    BY <2>1, <2>2, <2>4, <2>5
<1>6. ASSUME NEW n \in Nat, n \in S PROVE n + 1 \in S
  BY <1>2, <1>5, <1>6
<1> HIDE DEF S
<1>7. \A n \in Nat : n \in S
  BY <1>4, <1>6, Induct
<1>8. ASSUME NEW n \in 1 .. N PROVE Quotient(i[n - 1], P[N - n]) = (u \div P[N - n]) % 10
  <2>1. PICK k \in Nat : k = n - 1 /\ k < N /\ k + 1 = n /\ k <= N
    BY <1>2
  <2>2. k \in S
    BY <1>7
  <2>3. RestIn(i[k], u, u \div P[N - k], P[N - k])
    BY <2>1, <2>2 DEF S
  <2>4. Quotient(i[k], P[N - (k + 1)]) = (u \div P[N - (k + 1)]) % 10
    BY <1>5, <2>1, <2>3
  <2> QED
    BY <2>1, <2>4
<1> QED
  BY <1>1, <1>8

(* print_dec() writes the decimal numeral of every number but the least. *)
LEMMA PrintDecMeant ==
  ASSUME NEW v \in CellRange, v # -(2 ^ (CellBits - 1))
  PROVE  PrintDec(v) = Decimal(v) /\ Decimal(v) \in Seq(Nat)
<1>1. PICK m \in Nat \ {0} : m = 2 ^ (CellBits - 1) /\ 2 ^ CellBits = 2 * m
  BY CellSize
<1>2. v \in -m .. m - 1 /\ v # -m
  BY <1>1 DEF CellRange
<1>3. CASE v = 0
  <2>1. Decimal(v) = <<Zero>>
    BY <1>3, PositionalZero DEF Decimal
  <2> QED
    BY <1>3, <2>1, ZeroIsSeq DEF PrintDec
<1>4. CASE v # 0
  <2>1. PICK u \in Nat : u = (IF v < 0 THEN Signed(-v) ELSE v) /\ u = (IF v < 0 THEN -v ELSE v) /\ u > 0 /\ u < m
    <3>1. PICK u \in Nat : u = (IF v < 0 THEN -v ELSE v) /\ u > 0 /\ u < m
      BY <1>2, <1>4
    <3>2. Signed(u) = u
      <4>1. u % (2 * m) = u
        BY <3>1
      <4> QED
        BY <1>1, <3>1, <4>1 DEF Signed
    <3>3. u = (IF v < 0 THEN Signed(-v) ELSE v)
      BY <3>1, <3>2
    <3> QED
      BY <3>1, <3>3
  <2>2. PICK N \in 1 .. CellBits : N = HighestPower + 1 /\ N \in Nat /\ PlaceValues(10)[N] >= m
    BY <1>1, HighestIs
  <2>3. PICK i : /\ TakenOff(i, u, N)
                 /\ PrintDec(v) = (IF v < 0 THEN <<Minus>> ELSE <<>>)
                      \o Numeral([n \in 1 .. N |-> Quotient(i[n - 1], PlaceValues(10)[N - n])])
    <3>1. v \in Int
      BY <1>2
    <3> QED
      BY <1>4, <2>1, <2>2, <3>1, PrintDecIs
  <2>4. PICK P : P = PlaceValues(10)
    OBVIOUS
  <2>5. PICK b \in {10, 16} : b = 10
    OBVIOUS
  <2>6. PICK q : Counts(P, q, u, b, CellBits)
    BY <2>4, <2>5, QuotientsAre
  <2>7. CellBits \in Nat
    BY WordsAssumption DEF WordsAssumption
  <2>8. \A k \in 0 .. CellBits : P[k] \in Nat /\ u \div P[k] = q[k]
    BY <2>6, <2>7, PlacesAre
  <2>9. u < P[N]
    <3>1. P[N] \in Nat
      BY <2>7, <2>8
    <3> QED
      BY <2>1, <2>2, <2>4, <3>1
  <2>10. \A n \in 1 .. N : Quotient(i[n - 1], P[N - n]) = (u \div P[N - n]) % 10
    BY <2>3, <2>4, <2>9, PlacesTaken
  <2>11. PICK digit : digit = [n \in 1 .. N |-> Quotient(i[n - 1], PlaceValues(10)[N - n])]
    OBVIOUS
  <2>12. HighFirst(digit, q, b, N)
    <3>1. \A n \in 1 .. N : N - n \in 0 .. CellBits
      BY <2>7
    <3>2. \A n \in 1 .. N : Quotient(i[n - 1], P[N - n]) = q[N - n] % 10
      BY <2>8, <2>10, <3>1
    <3> QED
      BY <2>4, <2>5, <2>11, <3>2 DEF HighFirst
  <2>13. u < 2 ^ CellBits
    BY <1>1, <2>1
  <2>14. Numeral(digit) = Positional(u, b) /\ Positional(u, b) \in Seq(Nat)
    BY <2>1, <2>4, <2>5, <2>6, <2>9, <2>12, <2>13, NumeralOf
  <2>15. PICK t \in Seq(Nat) : t = Positional(u, 10) /\ Numeral(digit) = t
    BY <2>5, <2>14
  <2>16. PrintDec(v) = (IF v < 0 THEN <<Minus>> ELSE <<>>) \o t
    BY <2>3, <2>11, <2>15
  <2>17. CASE v < 0
    <3>1. Decimal(v) = <<Minus>> \o t
      BY <2>1, <2>15, <2>17 DEF Decimal
    <3>2. <<Minus>> \o t \in Seq(Nat)
      BY ZeroIsSeq
    <3> QED
      BY <2>16, <2>17, <3>1, <3>2
  <2>18. CASE ~(v < 0)
    <3>1. Decimal(v) = t
      BY <2>1, <2>15, <2>18 DEF Decimal
    <3>2. <<>> \o t = t
      OBVIOUS
    <3> QED
      BY <2>16, <2>18, <3>1, <3>2
  <2> QED
    BY <2>17, <2>18
<1> QED
  BY <1>3, <1>4

-----------------------------------------------------------------------------
(* The numbers of a block, as they are in its cells.                       *)
NumberText(e) == IF e.hex = 1 THEN Hexadecimal(e.param) ELSE Decimal(e.param)

LEMMA ModuloOnce ==
  ASSUME NEW M \in Nat \ {0}, NEW v \in Int, v \in -M .. M - 1
  PROVE  v % M = IF v < 0 THEN v + M ELSE v
<1>1. PICK r : r = v % M
  OBVIOUS
<1>2. PICK q \in Int : v = M * q + r /\ r \in 0 .. M - 1
  BY <1>1, DivMod
<1>3. CASE q = 0
  <2>1. M * q = 0
    BY <1>3
  <2> QED
    BY <1>1, <1>2, <2>1
<1>4. CASE q = -1
  <2>1. M * q = -M
    BY <1>4
  <2> QED
    BY <1>1, <1>2, <2>1
<1>5. CASE q > 0
  <2>1. PICK k \in Nat : q = k + 1
    BY <1>5, q - 1 \in Nat, q = (q - 1) + 1
  <2>2. PICK x \in Nat : x = M * k
    OBVIOUS
  <2>3. M * q = x + M
    BY <2>1, <2>2
  <2> QED
    BY <1>2, <2>2, <2>3
<1>6. CASE q < -1
  <2>1. PICK k \in Nat : q = -(k + 2)
    BY <1>6, -(q + 2) \in Nat, q = -(-(q + 2) + 2)
  <2>2. PICK x \in Nat : x = M * k
    OBVIOUS
  <2>3. M * q = -(x + 2 * M)
    BY <2>1, <2>2
  <2> QED
    BY <1>2, <2>2, <2>3
<1> QED
  BY <1>2, <1>3, <1>4, <1>5, <1>6

LEMMA DataShown ==
  ASSUME NEW e, e.hex \in {0, 1}, e.param \in Int,
         NEW limit, limit = 2 ^ (CellBits - 1),
         e.hex = 1 => e.param \in -limit .. 2 * limit - 1,
         e.hex # 1 => e.param \in CellRange \ {-limit}
  PROVE  /\ PrintNumber(NumberOf(DataCell(e.param)), e.hex) = NumberText(e)
         /\ NumberText(e) \in Seq(Nat)
<1>1. PICK m \in Nat \ {0} : m = limit /\ m = 2 ^ (CellBits - 1) /\ 2 ^ CellBits = 2 * m
  BY CellSize
<1>2. PICK v \in Int : v = e.param
  OBVIOUS
<1>3. NumberOf(DataCell(v)) = Signed(v)
  <2>1. PICK c : c = DataCell(v)
    OBVIOUS
  <2>2. c = [color |-> v % 16, cell |-> Signed(v)]
    BY <2>1 DEF DataCell
  <2>3. "cell" \in DOMAIN c /\ c.cell = Signed(v)
    BY <2>2
  <2> QED
    BY <2>1, <2>3 DEF NumberOf
<1>4. PICK s : s = Signed(v)
  OBVIOUS
<1>5. CASE e.hex = 1
  <2>1. v \in -m .. 2 * m - 1
    BY <1>1, <1>2, <1>5
  <2>2. PICK M \in Nat \ {0} : M = 2 * m
    OBVIOUS
  <2>3. v \in -M .. M - 1
    BY <2>1, <2>2
  <2>4. v % M = IF v < 0 THEN v + M ELSE v
    BY <2>3, ModuloOnce
  <2>5. s = IF v < m THEN v ELSE v - M
    BY <1>1, <1>4, <2>1, <2>4, <2>2 DEF Signed
  <2>6. s \in -m .. m - 1 /\ s \in Int /\ s \in -M .. M - 1
    BY <2>1, <2>5, <2>2
  <2>7. s % M = IF s < 0 THEN s + M ELSE s
    BY <2>6, ModuloOnce
  <2>8. s \in -m .. m - 1 /\ s % (2 * m) = v % (2 * m)
    BY <2>1, <2>4, <2>5, <2>2, <2>6, <2>7
  <2>9. s \in CellRange /\ Unsigned(s) = Unsigned(v)
    BY <1>1, <2>8 DEF CellRange, Unsigned
  <2>10. PrintHex(s) = Hexadecimal(s) /\ Hexadecimal(s) \in Seq(Nat)
    BY <2>9, PrintHexMeant
  <2>11. Hexadecimal(s) = Hexadecimal(v)
    BY <2>9 DEF Hexadecimal
  <2> QED
    BY <1>2, <1>3, <1>4, <1>5, <2>10, <2>11 DEF NumberText, PrintNumber
<1>6. CASE e.hex # 1
  <2>1. v \in CellRange /\ v # -m /\ v \in -m .. m - 1
    BY <1>1, <1>2, <1>6 DEF CellRange
  <2>2. v % (2 * m) = IF v < 0 THEN v + 2 * m ELSE v
    BY <2>1
  <2>3. s = v
    BY <1>1, <1>4, <2>1, <2>2 DEF Signed
  <2>4. PrintDec(v) = Decimal(v) /\ Decimal(v) \in Seq(Nat)
    BY <1>1, <2>1, PrintDecMeant
  <2> QED
    BY <1>2, <1>3, <1>4, <1>6, <2>3, <2>4 DEF NumberText, PrintNumber
<1> QED
  BY <1>5, <1>6

LEMMA TaggedHex ==
  ASSUME NEW tag \in 0 .. 15, NEW hex \in {0, 1}, NEW n \in Int,
         NEW c, c = Tagged(tag, hex, n)
  PROVE  HexBit(c) = hex
<1>1. c = [color |-> tag, cell |-> Signed(32 * n + 16 * hex + tag)]
  BY DEF Tagged
<1>2. "name" \notin DOMAIN c
  BY <1>1
<1>3. PICK x : x = c.cell
  OBVIOUS
<1>4. x \in Int /\ x % 32 = 16 * hex + tag
  <2>1. PICK v \in Int : v = 32 * n + 16 * hex + tag
    OBVIOUS
  <2>2. v % 32 = 16 * hex + tag
    BY <2>1
  <2>3. x = Signed(v)
    BY <1>1, <1>3, <2>1
  <2> QED
    BY <2>2, <2>3, SignedMod
<1>5. PICK q \in Int : x = 32 * q + 16 * hex + tag
  <2>1. PICK q \in Int : x = 32 * q + (x % 32)
    BY <1>4, DivMod, 32 \in Nat \ {0}
  <2> QED
    BY <1>4, <2>1
<1>6. x \div 16 = 2 * q + hex
  BY <1>5
<1>7. (2 * q + hex) % 2 = hex
  OBVIOUS
<1> QED
  BY <1>2, <1>3, <1>6, <1>7 DEF HexBit

(* c is the cell of the short number e. *)
IsShort(tag, e, c) ==
  /\ e.hex \in {0, 1} /\ e.param \in Int /\ 32 * e.param \in CellRange
  /\ c = Tagged(tag, e.hex, e.param)

LEMMA ShortShown ==
  ASSUME NEW tag \in 0 .. 15, NEW e, NEW c, IsShort(tag, e, c)
  PROVE  /\ PrintNumber(c.cell \div 32, HexBit(c)) = NumberText(e)
         /\ NumberText(e) \in Seq(Nat)
<1>0. /\ e.hex \in {0, 1} /\ e.param \in Int /\ 32 * e.param \in CellRange
      /\ c = Tagged(tag, e.hex, e.param)
  BY DEF IsShort
<1>1. PICK L \in Nat \ {0} : 2 ^ (CellBits - 1) = 32 * L /\ 2 ^ CellBits = 64 * L
  BY TagSize
<1>2. PICK v \in Int, hex \in {0, 1} : v = e.param /\ hex = e.hex
  BY <1>0
<1>3. 32 * v \in -(32 * L) .. 32 * L - 1
  BY <1>0, <1>1, <1>2 DEF CellRange
<1>4. v \in -L .. L - 1
  BY <1>3
<1>5. PICK x \in Int : x = 32 * v + 16 * hex + tag /\ x \in -(32 * L) .. 32 * L - 1
  BY <1>4
<1>6. Signed(x) = x
  <2>1. x % (64 * L) = IF x < 0 THEN x + 64 * L ELSE x
    BY <1>5
  <2> QED
    BY <1>1, <1>5, <2>1 DEF Signed
<1>7. c.cell = x
  BY <1>0, <1>2, <1>5, <1>6 DEF Tagged
<1>8. x \div 32 = v
  BY <1>5
<1>9. HexBit(c) = e.hex
  BY <1>0, TaggedHex
<1>10. v \in CellRange /\ v # -(2 ^ (CellBits - 1))
  BY <1>1, <1>4 DEF CellRange
<1>11. PrintHex(v) = Hexadecimal(v) /\ Hexadecimal(v) \in Seq(Nat)
  BY <1>10, PrintHexMeant
<1>12. PrintDec(v) = Decimal(v) /\ Decimal(v) \in Seq(Nat)
  BY <1>10, PrintDecMeant
<1> QED
  BY <1>2, <1>7, <1>8, <1>9, <1>11, <1>12 DEF PrintNumber, NumberText

-----------------------------------------------------------------------------
(* The page as it is read: where each character goes, and what is left.    *)

Behind(place, c) == IF c = Newline THEN (place \div Columns + 1) * Columns ELSE place + 1

PlacesTo(at, chars, L) == at[1] = 0 /\ \A i \in 1 .. L : at[i + 1] = Behind(at[i], chars[i])

LEMMA BehindIs ==
  ASSUME NEW place \in Nat, NEW c
  PROVE  Behind(place, c) \in Nat /\ place + 1 <= Behind(place, c)
<1>1. PICK C \in Nat : C = Columns /\ C >= 2
  BY Layout
<1>2. PICK q \in Nat : q = place \div C /\ place = C * q + (place % C) /\ place % C \in 0 .. C - 1
  BY <1>1, Division
<1>3. PICK p \in Nat : p = q * C /\ place < p + C
  <2>1. q * C \in Nat /\ C * q = q * C
    BY <1>1, <1>2
  <2> QED
    BY <1>1, <1>2, <2>1
<1>4. (q + 1) * C = p + C
  BY <1>1, <1>2, <1>3
<1>5. CASE c = Newline
  <2>1. Behind(place, c) = p + C
    BY <1>1, <1>2, <1>4, <1>5 DEF Behind
  <2> QED
    BY <1>1, <1>3, <2>1
<1>6. CASE c # Newline
  BY <1>6 DEF Behind
<1> QED
  BY <1>5, <1>6

LEMMA PlacesIs ==
  ASSUME NEW chars, NEW N \in Nat, N = Len(chars)
  PROVE  PlacesTo(Places(chars), chars, N)
<1> DEFINE place[i \in 1 .. Len(chars) + 1] ==
             IF i = 1 THEN 0 ELSE Behind(place[i - 1], chars[i - 1])
           next(g, i) == Behind(g[i - 1], chars[i - 1])
           is(g) == g = [i \in 1 .. Len(chars) + 1 |-> IF i = 1 THEN 0 ELSE next(g, i)]
<1>1. Places(chars) = place
  BY DEF Places, Behind
<1> DEFINE G == [n \in 1 .. N |-> [x \in Nat |-> Behind(x, chars[n])]]
<1>2. G \in [1 .. N -> [Nat -> Nat]]
  BY BehindIs
<1>3. PICK H : H = G
  OBVIOUS
<1>4. \A n \in 1 .. N, x \in Nat : H[n][x] = Behind(x, chars[n])
  BY <1>3
<1>5. H \in [1 .. N -> [Nat -> Nat]]
  BY <1>2, <1>3
<1> HIDE DEF G
<1>6. PICK f \in [0 .. N -> Nat] : Follows(f, 0, H, N)
  <2>1. PICK T : T = Nat
    OBVIOUS
  <2>2. 0 \in T /\ H \in [1 .. N -> [T -> T]]
    BY <1>5, <2>1
  <2>3. \E q \in [0 .. N -> T] : Follows(q, 0, H, N)
    BY <2>2, Recursion
  <2> QED
    BY <2>1, <2>3
<1>7. PICK g : g = [i \in 1 .. N + 1 |-> f[i - 1]]
  OBVIOUS
<1>8. ASSUME NEW i \in 1 .. N + 1
      PROVE  g[i] = IF i = 1 THEN 0 ELSE next(g, i)
  <2>1. CASE i # 1
    <3>1. i - 1 \in 1 .. N /\ i - 1 \in 1 .. N + 1 /\ (i - 1) - 1 \in 0 .. N /\ f[(i - 1) - 1] \in Nat
      BY <2>1
    <3>2. g[i] = f[i - 1] /\ g[i - 1] = f[(i - 1) - 1]
      BY <1>7, <3>1
    <3>3. f[i - 1] = Behind(f[(i - 1) - 1], chars[i - 1])
      BY <1>4, <1>6, <3>1 DEF Follows
    <3> QED
      BY <2>1, <3>2, <3>3
  <2>2. CASE i = 1
    <3>1. g[i] = f[0]
      BY <1>7, <2>2
    <3> QED
      BY <1>6, <2>2, <3>1 DEF Follows
  <2> QED
    BY <2>1, <2>2
<1>9. is(g)
  <2>1. g = [i \in 1 .. Len(chars) + 1 |-> g[i]]
    BY <1>7
  <2> HIDE DEF next
  <2> QED
    BY <1>8, <2>1
<1>10. place = [i \in 1 .. Len(chars) + 1 |-> IF i = 1 THEN 0 ELSE next(place, i)]
  <2>1. \E h : is(h)
    <3> HIDE DEF is
    <3> QED
      BY <1>9
  <2>2. place = CHOOSE h : is(h)
    OBVIOUS
  <2> HIDE DEF is
  <2>3. is(place)
    BY <2>1, <2>2
  <2> QED
    BY <2>3 DEF is
<1>11. PICK at : at = place
  OBVIOUS
<1> HIDE DEF place
<1>12. \A i \in 1 .. N + 1 : at[i] = IF i = 1 THEN 0 ELSE next(at, i)
  <2> HIDE DEF next
  <2>1. at = [i \in 1 .. Len(chars) + 1 |-> IF i = 1 THEN 0 ELSE next(at, i)]
    BY <1>10, <1>11
  <2> QED
    BY <2>1
<1>13. PlacesTo(at, chars, N)
  <2>1. at[1] = 0
    BY <1>12, 1 \in 1 .. N + 1
  <2>2. ASSUME NEW i \in 1 .. N PROVE at[i + 1] = Behind(at[i], chars[i])
    <3>1. i + 1 \in 1 .. N + 1 /\ i + 1 # 1 /\ (i + 1) - 1 = i
      OBVIOUS
    <3>2. at[i + 1] = next(at, i + 1)
      <4> HIDE DEF next
      <4> QED
        BY <1>12, <3>1
    <3> QED
      BY <3>1, <3>2
  <2> QED
    BY <2>1, <2>2 DEF PlacesTo
<1> QED
  BY <1>1, <1>11, <1>13

(* Each character has a place of its own, behind the ones before it. *)
Rising(at, L) ==
  /\ \A i \in 1 .. L + 1 : at[i] \in Nat
  /\ \A i \in 1 .. L + 1 : \A j \in 1 .. i : at[j] + (i - j) <= at[i]

LEMMA PlacesRise ==
  ASSUME NEW at, NEW chars, NEW L \in Nat, PlacesTo(at, chars, L)
  PROVE  Rising(at, L)
<1> DEFINE S == {d \in Nat : d <= L =>
                   at[d + 1] \in Nat /\ \A j \in 1 .. d + 1 : at[j] \in Nat /\ at[j] + (d + 1 - j) <= at[d + 1]}
<1>1. 0 \in S
  <2>1. at[0 + 1] = 0
    BY DEF PlacesTo
  <2>2. \A j \in 1 .. 0 + 1 : j = 0 + 1
    OBVIOUS
  <2> QED
    BY <2>1, <2>2
<1>2. ASSUME NEW d \in Nat, d \in S PROVE d + 1 \in S
  <2> SUFFICES ASSUME d + 1 <= L
               PROVE  /\ at[(d + 1) + 1] \in Nat
                      /\ \A j \in 1 .. (d + 1) + 1 :
                           at[j] \in Nat /\ at[j] + ((d + 1) + 1 - j) <= at[(d + 1) + 1]
    OBVIOUS
  <2>1. d <= L /\ d + 1 \in 1 .. L
    OBVIOUS
  <2>2. at[d + 1] \in Nat /\ \A j \in 1 .. d + 1 : at[j] \in Nat /\ at[j] + (d + 1 - j) <= at[d + 1]
    BY <1>2, <2>1
  <2>3. PICK a \in Nat : a = at[d + 1]
    BY <2>2
  <2>4. at[(d + 1) + 1] = Behind(a, chars[d + 1])
    BY <2>1, <2>3 DEF PlacesTo
  <2>5. PICK b \in Nat : b = at[(d + 1) + 1] /\ a + 1 <= b
    BY <2>3, <2>4, BehindIs
  <2>6. ASSUME NEW j \in 1 .. (d + 1) + 1 PROVE at[j] \in Nat /\ at[j] + ((d + 1) + 1 - j) <= b
    <3>1. CASE j = (d + 1) + 1
      BY <2>5, <3>1
    <3>2. CASE j # (d + 1) + 1
      <4>1. j \in 1 .. d + 1
        BY <3>2
      <4>2. PICK c \in Nat : c = at[j] /\ c + (d + 1 - j) <= a
        BY <2>2, <2>3, <4>1
      <4> QED
        BY <2>5, <4>1, <4>2
    <3> QED
      BY <3>1, <3>2
  <2> QED
    BY <2>5, <2>6
<1> HIDE DEF S
<1>3. \A d \in Nat : d \in S
  BY <1>1, <1>2, Induct
<1>4. ASSUME NEW i \in 1 .. L + 1
      PROVE  at[i] \in Nat /\ \A j \in 1 .. i : at[j] + (i - j) <= at[i]
  <2>1. i - 1 \in Nat /\ i - 1 <= L /\ (i - 1) + 1 = i /\ i - 1 \in S
    BY <1>3
  <2>2. /\ at[(i - 1) + 1] \in Nat
        /\ \A j \in 1 .. (i - 1) + 1 : at[j] \in Nat /\ at[j] + ((i - 1) + 1 - j) <= at[(i - 1) + 1]
    BY <2>1 DEF S
  <2> QED
    BY <2>1, <2>2
<1> QED
  BY <1>4 DEF Rising

-----------------------------------------------------------------------------
(* What is on the page when the first n characters are, and where the next *)
(* one goes; behind the last part of a word there is the blank already.    *)

Sheet(at, chars, L) ==
  /\ L \in Nat /\ PlacesTo(at, chars, L) /\ at[L + 1] <= Address(0, PromptLine)
  /\ \A i \in 1 .. L : chars[i] = Newline \/ chars[i] \in Nat

Reads(page, at, chars, n) ==
  /\ \A i \in 1 .. n : chars[i] # Newline => page[at[i]] = chars[i]
  /\ \A c \in Cell : (\A i \in 1 .. n : chars[i] # Newline => c # at[i]) => page[c] = Space

Shows(s, at, chars, n) ==
  OnPage(s) /\ Address(s.x, s.y) = at[n + 1] /\ Reads(s.text, at, chars, n)

Paused(s, at, chars, n) ==
  OnPage(s) /\ Address(s.x, s.y) = at[n + 1] + 1 /\ Reads(s.text, at, chars, n)

LEMMA SheetPlaces ==
  ASSUME NEW at, NEW chars, NEW L, Sheet(at, chars, L)
  PROVE  /\ L \in Nat /\ Rising(at, L)
         /\ \A i \in 1 .. L + 1 : /\ at[i] \in Nat /\ at[i] \in Cell
                                  /\ at[i] + (L + 1 - i) <= Address(0, PromptLine)
<1>1. L \in Nat /\ Rising(at, L) /\ at[L + 1] <= Address(0, PromptLine)
  BY PlacesRise DEF Sheet
<1>2. PICK B \in Nat : /\ B >= 4 * Columns /\ Columns \in Nat /\ Columns >= 2
                       /\ Columns * Lines = B + 4 * Columns
                       /\ \A x \in Int : Address(x, PromptLine) = x + B
  BY LinesBegin
<1>3. Address(0, PromptLine) = B
  BY <1>2
<1>4. PICK e \in Nat : e = at[L + 1] /\ e <= B
  <2>1. L + 1 \in 1 .. L + 1
    BY <1>1
  <2> QED
    BY <1>1, <1>3, <2>1 DEF Rising
<1>5. ASSUME NEW i \in 1 .. L + 1
      PROVE  at[i] \in Nat /\ at[i] \in Cell /\ at[i] + (L + 1 - i) <= B
  <2>1. PICK a \in Nat : a = at[i] /\ a + (L + 1 - i) <= e
    <3>1. L + 1 \in 1 .. L + 1 /\ i \in 1 .. L + 1
      BY <1>1
    <3> QED
      BY <1>1, <1>4, <3>1 DEF Rising
  <2>2. a + (L + 1 - i) <= B
    BY <1>1, <1>4, <2>1
  <2>3. a <= B
    BY <1>1, <2>1, <2>2
  <2>4. a \in 0 .. Columns * Lines
    BY <1>2, <2>3
  <2> QED
    BY <2>1, <2>2, <2>4 DEF Cell
<1> QED
  BY <1>1, <1>3, <1>5

(* Characters that are stored go one behind the other. *)
NoBreak(chars, n, m) == \A k \in 1 .. m : chars[n + k] \in Nat

InARow(at, n, m) == \A k \in 0 .. m : at[n + 1 + k] = at[n + 1] + k

LEMMA PlacesRun ==
  ASSUME NEW at, NEW chars, NEW L, Sheet(at, chars, L), NEW n, NEW m, n \in Nat, m \in Nat, n + m <= L,
         NoBreak(chars, n, m)
  PROVE  InARow(at, n, m)
<1>1. L \in Nat /\ PlacesTo(at, chars, L) /\ n + 1 \in 1 .. L + 1
  BY DEF Sheet
<1>2. PICK a \in Nat : a = at[n + 1]
  BY <1>1, SheetPlaces
<1> DEFINE S == {k \in Nat : k <= m => at[n + 1 + k] = a + k}
<1>3. 0 \in S
  BY <1>2
<1>4. ASSUME NEW k \in Nat, k \in S PROVE k + 1 \in S
  <2> SUFFICES ASSUME k + 1 <= m PROVE at[n + 1 + (k + 1)] = a + (k + 1)
    OBVIOUS
  <2>1. at[n + 1 + k] = a + k /\ n + 1 + k \in 1 .. L /\ (n + 1 + k) + 1 = n + 1 + (k + 1)
    BY <1>1, <1>4
  <2>2. chars[n + 1 + k] # Newline
    <3>1. n + (k + 1) = n + 1 + k /\ k + 1 \in 1 .. m
      OBVIOUS
    <3>2. chars[n + (k + 1)] \in Nat
      BY <3>1 DEF NoBreak
    <3> QED
      BY <3>1, <3>2 DEF Newline
  <2>3. at[(n + 1 + k) + 1] = Behind(at[n + 1 + k], chars[n + 1 + k])
    BY <1>1, <2>1 DEF PlacesTo
  <2>4. Behind(at[n + 1 + k], chars[n + 1 + k]) = at[n + 1 + k] + 1
    BY <2>2 DEF Behind
  <2> QED
    BY <2>1, <2>3, <2>4
<1> HIDE DEF S
<1>5. \A k \in Nat : k \in S
  BY <1>3, <1>4, Induct
<1> QED
  BY <1>2, <1>5 DEF S, InARow

LEMMA CellsRow ==
  ASSUME NEW a \in Nat, NEW m \in Nat, NEW c \in Nat
  PROVE  c = a + m \/ c \in a .. a + m - 1 \/ c \notin a .. a + (m + 1) - 1
OBVIOUS

LEMMA BlankBehind ==
  ASSUME NEW v \in Seq(Nat)
  PROVE  /\ v \o <<Space>> \in Seq(Nat) /\ Len(v \o <<Space>>) = Len(v) + 1 /\ Len(v) \in Nat
         /\ (v \o <<Space>>)[Len(v) + 1] = 0
         /\ \A k \in 1 .. Len(v) : (v \o <<Space>>)[k] = v[k]
<1>1. PICK b \in Seq(Nat) : b = <<Space>> /\ Len(b) = 1 /\ b[1] = 0
  <2>1. <<0>> \in Seq(Nat) /\ Len(<<0>>) = 1 /\ <<0>>[1] = 0
    OBVIOUS
  <2> QED
    BY <2>1 DEF Space
<1>2. PICK w : w = v \o b
  OBVIOUS
<1>3. w \in Seq(Nat) /\ Len(w) = Len(v) + Len(b) /\ Len(v) \in Nat
  BY <1>2, Longer
<1>4. w[Len(v) + 1] = 0
  BY <1>1, <1>2, <1>3
<1>5. \A k \in 1 .. Len(v) : w[k] = v[k]
  BY <1>1, <1>2, <1>3
<1> QED
  BY <1>1, <1>2, <1>3, <1>4, <1>5

(* Letters with a blank behind them are written to the page. *)
LEMMA WordPut ==
  ASSUME NEW at, NEW chars, NEW L, Sheet(at, chars, L), NEW s, NEW n, n \in Nat, Shows(s, at, chars, n),
         NEW v \in Seq(Nat), NEW m, m = Len(v), n + m + 1 <= L,
         \A k \in 1 .. m : chars[n + k] = v[k]
  PROVE  Paused(Write(s, v \o <<Space>>), at, chars, n + m)
<1>1. PICK w \in Seq(Nat) : /\ w = v \o <<Space>> /\ Len(w) = m + 1 /\ m \in Nat /\ w[m + 1] = 0
                            /\ \A k \in 1 .. m : w[k] = v[k]
  BY BlankBehind
<1>2. PICK r : r = Write(s, w)
  OBVIOUS
<1>3. L \in Nat /\ n + 1 \in 1 .. L + 1 /\ n + m <= L
  BY <1>1 DEF Sheet
<1>4. PICK a \in Nat : a = at[n + 1] /\ a \in Cell
  BY <1>3, SheetPlaces
<1>5. ASSUME NEW k \in 1 .. m PROVE chars[n + k] = w[k] /\ w[k] \in Nat /\ chars[n + k] # Newline
  BY <1>1 DEF Newline
<1>6. \A k \in 0 .. m : at[n + 1 + k] = a + k
  <2>1. NoBreak(chars, n, m)
    BY <1>5 DEF NoBreak
  <2>2. InARow(at, n, m)
    BY <1>1, <1>3, <2>1, PlacesRun
  <2> QED
    BY <1>4, <2>2 DEF InARow
<1>7. PICK B \in Nat : /\ B >= 4 * Columns /\ Columns \in Nat /\ Columns >= 2
                       /\ Columns * (Lines - 1) = B + 3 * Columns /\ Columns * Lines = B + 4 * Columns
                       /\ \A x \in Int : Address(x, PromptLine) = x + B
  BY LinesBegin
<1>8. a + m + 1 <= B
  <2>1. n + 1 + m \in 1 .. L + 1 /\ at[n + 1 + m] = a + m /\ (L + 1) - (n + 1 + m) >= 1
    BY <1>1, <1>3, <1>6
  <2>2. at[n + 1 + m] + (L + 1 - (n + 1 + m)) <= Address(0, PromptLine) /\ Address(0, PromptLine) = B
    BY <1>7, <2>1, SheetPlaces
  <2>3. (a + m) + (L + 1 - (n + 1 + m)) <= B
    BY <2>1, <2>2
  <2>4. m \in Nat /\ L \in Nat /\ n \in Nat /\ a \in Nat /\ B \in Nat /\ n + m + 1 <= L
    BY <1>1, <1>3, <1>4, <1>7
  <2> QED
    BY ONLY <2>3, <2>4
<1>9. OnPage(s) /\ Address(s.x, s.y) = a /\ Reads(s.text, at, chars, n)
  BY <1>4 DEF Shows
<1>10. OnPage(r) /\ Ran(s, r, w, 0, m + 1)
  <2>1. ~(a + (m + 1) >= Columns * (Lines - 1))
    <3>1. PICK C \in Nat : C = Columns /\ C >= 2 /\ Columns * (Lines - 1) = B + 3 * C
      BY <1>7
    <3>2. ~(a + (m + 1) >= B + 3 * C)
      <4>1. a \in Nat /\ m \in Nat /\ B \in Nat /\ a + m + 1 <= B /\ C \in Nat /\ C >= 2
        BY <1>1, <1>4, <1>7, <1>8, <3>1
      <4> QED
        BY ONLY <4>1
    <3> QED
      BY <3>1, <3>2
  <2> QED
    BY <1>1, <1>2, <1>9, <2>1, LettersWritten
<1>11. /\ Address(r.x, r.y) = a + (m + 1)
       /\ \A i \in 1 .. m + 1 : r.text[a + i - 1] = w[0 + i]
       /\ \A c \in Cell : c \notin a .. a + (m + 1) - 1 => r.text[c] = s.text[c]
  BY <1>9, <1>10 DEF Ran
<1>12. at[n + m + 1] = a + m
  <2>1. n + 1 + m = n + m + 1 /\ m \in 0 .. m
    BY <1>1
  <2> QED
    BY <1>6, <2>1
<1>13. ASSUME NEW i \in 1 .. n PROVE at[i] \in Nat /\ at[i] \in Cell /\ at[i] < a
  <2>1. i \in 1 .. L + 1 /\ i \in 1 .. n + 1
    BY <1>3
  <2>2. at[i] \in Nat /\ at[i] \in Cell /\ Rising(at, L)
    BY <2>1, SheetPlaces
  <2>3. at[i] + (n + 1 - i) <= a
    BY <1>3, <1>4, <2>1, <2>2 DEF Rising
  <2> QED
    BY <1>4, <2>2, <2>3
<1>14. ASSUME NEW i \in 1 .. n + m, chars[i] # Newline PROVE r.text[at[i]] = chars[i]
  <2>1. CASE i <= n
    <3>1. i \in 1 .. n
      BY <2>1
    <3>2. s.text[at[i]] = chars[i]
      BY <1>9, <1>14, <3>1 DEF Reads
    <3>3. at[i] \in Cell /\ at[i] \notin a .. a + (m + 1) - 1
      BY <1>4, <1>13, <3>1
    <3> QED
      BY <1>11, <3>2, <3>3
  <2>2. CASE ~(i <= n)
    <3>1. PICK k \in 1 .. m : i = n + k
      <4>1. i - n \in 1 .. m /\ i = n + (i - n)
        BY <1>1, <2>2
      <4> QED
        BY <4>1
    <3>2. at[i] = a + k - 1
      <4>1. k - 1 \in 0 .. m /\ n + 1 + (k - 1) = i
        BY <1>1, <3>1
      <4>2. at[n + 1 + (k - 1)] = a + (k - 1)
        BY <1>6, <4>1
      <4> QED
        BY <4>1, <4>2
    <3>3. k \in 1 .. m + 1 /\ 0 + k = k
      BY <1>1
    <3>4. r.text[a + k - 1] = w[k]
      BY <1>11, <3>3
    <3> QED
      BY <1>5, <3>1, <3>2, <3>4
  <2> QED
    BY <2>1, <2>2
<1>15. ASSUME NEW c \in Cell, \A i \in 1 .. n + m : chars[i] # Newline => c # at[i]
       PROVE  r.text[c] = Space
  <2>1. CASE c = a + m
    <3>1. m + 1 \in 1 .. m + 1 /\ 0 + (m + 1) = m + 1 /\ a + (m + 1) - 1 = a + m
      BY <1>1
    <3>2. r.text[a + m] = w[m + 1]
      BY <1>11, <3>1
    <3> QED
      BY <1>1, <2>1, <3>2 DEF Space
  <2>2. CASE c \in a .. a + m - 1
    <3>1. PICK k \in 1 .. m : c = a + k - 1
      <4>1. c - a + 1 \in 1 .. m /\ c = a + (c - a + 1) - 1
        BY <1>1, <2>2
      <4> QED
        BY <4>1
    <3>2. n + k \in 1 .. n + m /\ k - 1 \in 0 .. m /\ n + 1 + (k - 1) = n + k
      BY <1>1
    <3>3. at[n + k] = a + (k - 1)
      BY <1>6, <3>2
    <3>4. c = at[n + k]
      BY <3>1, <3>3
    <3> QED
      BY <1>5, <1>15, <3>2, <3>4
  <2>3. CASE c \notin a .. a + (m + 1) - 1
    <3>1. \A i \in 1 .. n : i \in 1 .. n + m
      BY <1>1
    <3>2. s.text[c] = Space
      BY <1>9, <1>15, <3>1 DEF Reads
    <3> QED
      BY <1>11, <2>3, <3>2
  <2>4. c \in Nat
    BY <1>7 DEF Cell
  <2>5. c = a + m \/ c \in a .. a + m - 1 \/ c \notin a .. a + (m + 1) - 1
    <3>1. PICK d \in Nat : d = m
      BY <1>1
    <3>2. c = a + d \/ c \in a .. a + d - 1 \/ c \notin a .. a + (d + 1) - 1
      BY <2>4, CellsRow
    <3> QED
      BY <3>1, <3>2
  <2> QED
    BY <2>1, <2>2, <2>3, <2>5
<1>16. Reads(r.text, at, chars, n + m)
  BY <1>14, <1>15 DEF Reads
<1>17. Address(r.x, r.y) = at[n + m + 1] + 1
  BY <1>1, <1>11, <1>12
<1> QED
  BY <1>1, <1>2, <1>10, <1>16, <1>17 DEF Paused

(* The blank behind a word is there, whether it counts or not. *)
LEMMA BlankCounts ==
  ASSUME NEW at, NEW chars, NEW L, Sheet(at, chars, L), NEW s, NEW n, n \in Nat, n + 1 <= L,
         chars[n + 1] = Space
  PROVE  Paused(s, at, chars, n) <=> Shows(s, at, chars, n + 1)
<1>1. L \in Nat /\ n + 1 \in 1 .. L /\ n + 1 \in 1 .. L + 1 /\ Space # Newline
  BY DEF Sheet, Space, Newline
<1>2. PICK a \in Nat : a = at[n + 1] /\ a \in Cell
  BY <1>1, SheetPlaces
<1>3. at[(n + 1) + 1] = a + 1
  BY <1>1, <1>2 DEF Sheet, PlacesTo, Behind
<1>4. ASSUME NEW i \in 1 .. n PROVE at[i] # a
  <2>1. i \in 1 .. L + 1 /\ i \in 1 .. n + 1
    BY <1>1
  <2>2. at[i] \in Nat /\ Rising(at, L)
    BY <2>1, SheetPlaces
  <2>3. at[i] + (n + 1 - i) <= a
    BY <1>1, <1>2, <2>1, <2>2 DEF Rising
  <2> QED
    BY <2>2, <2>3
<1>5. \A i \in 1 .. n : i \in 1 .. n + 1
  OBVIOUS
<1>6. ASSUME Reads(s.text, at, chars, n) PROVE Reads(s.text, at, chars, n + 1)
  <2>1. ASSUME NEW i \in 1 .. n + 1, chars[i] # Newline PROVE s.text[at[i]] = chars[i]
    <3>1. CASE i = n + 1
      <4>1. s.text[a] = Space
        BY <1>2, <1>4, <1>6 DEF Reads
      <4> QED
        BY <1>2, <3>1, <4>1
    <3>2. CASE i # n + 1
      <4>1. i \in 1 .. n
        BY <3>2
      <4> QED
        BY <1>6, <2>1, <4>1 DEF Reads
    <3> QED
      BY <3>1, <3>2
  <2>2. ASSUME NEW c \in Cell, \A i \in 1 .. n + 1 : chars[i] # Newline => c # at[i]
        PROVE  s.text[c] = Space
    BY <1>5, <1>6, <2>2 DEF Reads
  <2> QED
    BY <2>1, <2>2 DEF Reads
<1>7. ASSUME Reads(s.text, at, chars, n + 1) PROVE Reads(s.text, at, chars, n)
  <2>1. ASSUME NEW i \in 1 .. n, chars[i] # Newline PROVE s.text[at[i]] = chars[i]
    BY <1>5, <1>7, <2>1 DEF Reads
  <2>2. ASSUME NEW c \in Cell, \A i \in 1 .. n : chars[i] # Newline => c # at[i]
        PROVE  s.text[c] = Space
    <3>1. CASE c = a
      BY <1>1, <1>2, <1>7, <3>1 DEF Reads
    <3>2. CASE c # a
      <4>1. ASSUME NEW i \in 1 .. n + 1, chars[i] # Newline PROVE c # at[i]
        <5>1. i = n + 1 \/ i \in 1 .. n
          OBVIOUS
        <5> QED
          BY <1>2, <2>2, <3>2, <4>1, <5>1
      <4> QED
        BY <1>7, <4>1 DEF Reads
    <3> QED
      BY <3>1, <3>2
  <2> QED
    BY <2>1, <2>2 DEF Reads
<1> QED
  BY <1>2, <1>3, <1>6, <1>7 DEF Paused, Shows

(* display_word() of an extension goes one to the left, where the line     *)
(* does not begin.                                                         *)
OneLeft(s) == UpdateCursor(UpdatePosition(s, -1, 0))

LEMMA GoesLeft ==
  ASSUME NEW s, OnPage(s), s.x > 0
  PROVE  /\ OnPage(OneLeft(s)) /\ OneLeft(s).text = s.text
         /\ Address(OneLeft(s).x, OneLeft(s).y) + 1 = Address(s.x, s.y)
<1>1. PICK x \in Nat, y \in Nat, C \in Nat, L \in Nat, B \in Nat :
        /\ x = s.x /\ y = s.y /\ C = Columns /\ L = Lines /\ B = Byte
        /\ 0 < x /\ x < C /\ y < L /\ B > C + 4 /\ B > L
  BY OnPageFacts, Sizes, Layout
<1>2. (x + -1) % B = x - 1
  <2>1. B \in Nat \ {0} /\ x - 1 \in Int /\ x - 1 \in -B .. B - 1 /\ ~(x - 1 < 0) /\ x + -1 = x - 1
    BY <1>1
  <2>2. PICK w \in Int : w = x - 1 /\ w \in -B .. B - 1 /\ ~(w < 0)
    BY <2>1
  <2>3. w % B = w
    BY <2>1, <2>2, ModuloOnce
  <2> QED
    BY <2>1, <2>2, <2>3
<1>3. (y + 0) % B = y
  <2>1. B \in Nat \ {0} /\ y \in Int /\ y \in -B .. B - 1 /\ ~(y < 0) /\ y + 0 = y
    BY <1>1
  <2>2. y % B = y
    BY <2>1, ModuloOnce
  <2> QED
    BY <2>1, <2>2
<1>4. PICK m : m = [s EXCEPT !.x = (@ + -1) % Byte, !.y = (@ + 0) % Byte]
  OBVIOUS
<1>5. m = [s EXCEPT !.x = x - 1, !.y = y]
  BY <1>1, <1>2, <1>3, <1>4
<1>6. Sound(s) /\ s.led = 0 /\ x - 1 \in Nat
  BY <1>1 DEF OnPage
<1>7. /\ Shaped(m) /\ m.x = x - 1 /\ m.y = y /\ m.led = 0
      /\ (s.led = 0 => x - 1 <= Columns /\ y < Lines) => Sound(m)
  <2>1. PICK w \in Nat : w = x - 1
    BY <1>6
  <2>2. m = [s EXCEPT !.x = w, !.y = y] /\ Sound(s) /\ s.led = 0
    BY <1>5, <1>6, <2>1
  <2>3. /\ Shaped(m) /\ m.x = w /\ m.y = y /\ m.led = s.led /\ m.off = s.off
        /\ (s.led = 0 => w <= Columns /\ y < Lines) => Sound(m)
    <3>1. Sound(s)
      BY <1>6
    <3>2. m = [s EXCEPT !.x = w, !.y = y]
      BY <2>2
    <3> DEFINE g == [s EXCEPT !.x = w, !.y = y]
    <3>3. /\ Shaped(g) /\ g.x = w /\ g.y = y /\ g.led = s.led /\ g.off = s.off
          /\ (s.led = 0 => w <= Columns /\ y < Lines) => Sound(g)
      BY <3>1, Moved
    <3> QED
      BY <3>2, <3>3
  <2> QED
    BY <2>1, <2>2, <2>3
<1>8. Sound(m) /\ OnScreen(m)
  BY <1>1, <1>7 DEF OnScreen
<1>9. m.text = s.text
  BY <1>5, <1>6 DEF Sound, Shaped
<1>10. UpdatePosition(s, -1, 0) = m
  BY <1>4, <1>8 DEF UpdatePosition
<1>11. /\ Sound(OneLeft(s)) /\ OneLeft(s).text = s.text
       /\ OneLeft(s).x = x - 1 /\ OneLeft(s).y = y /\ OneLeft(s).led = 0
  BY <1>7, <1>8, <1>9, <1>10, SoundCursor, UpdatedFields DEF OneLeft
<1>12. OnPage(OneLeft(s))
  BY <1>1, <1>11 DEF OnPage
<1>13. Address(x - 1, y) + 1 = Address(x, y)
  <2>1. PICK p \in Nat : p = C * y
    BY <1>1
  <2> QED
    BY <1>1, <2>1 DEF Address
<1> QED
  BY <1>1, <1>11, <1>12, <1>13

LEMMA BackOver ==
  ASSUME NEW at, NEW chars, NEW L, Sheet(at, chars, L), NEW s, NEW n, n \in Nat, n <= L,
         Paused(s, at, chars, n), s.x > 0
  PROVE  Shows(OneLeft(s), at, chars, n)
<1>1. OnPage(s) /\ Address(s.x, s.y) = at[n + 1] + 1 /\ Reads(s.text, at, chars, n)
  BY DEF Paused
<1>2. PICK a \in Nat : a = at[n + 1]
  <2>1. n + 1 \in 1 .. L + 1
    BY DEF Sheet
  <2> QED
    BY <2>1, SheetPlaces
<1>3. /\ OnPage(OneLeft(s)) /\ OneLeft(s).text = s.text
      /\ Address(OneLeft(s).x, OneLeft(s).y) + 1 = a + 1
  BY <1>1, <1>2, GoesLeft
<1>4. Address(OneLeft(s).x, OneLeft(s).y) \in Nat
  BY <1>3, OnPageFacts
<1> QED
  BY <1>1, <1>2, <1>3, <1>4 DEF Shows

(* A place that is behind another one of its line does not begin the line. *)
SameRow(a, c, e) == a \in Nat /\ e \in Nat /\ a < c /\ c <= e /\ a \div Columns = e \div Columns

LEMMA NotAtBegin ==
  ASSUME NEW s, OnPage(s), NEW a, NEW e, SameRow(a, Address(s.x, s.y), e)
  PROVE  s.x > 0
<1>1. PICK x \in Nat, y \in Nat, C \in Nat : x = s.x /\ y = s.y /\ C = Columns /\ C >= 2
  BY OnPageFacts, Layout
<1> SUFFICES ASSUME x = 0 PROVE FALSE
  BY <1>1
<1>2. PICK q \in Nat : /\ q = a \div C /\ a = C * q + (a % C) /\ a % C \in 0 .. C - 1
  <2>1. a \in Nat /\ C \in Nat \ {0}
    BY <1>1 DEF SameRow
  <2> QED
    BY <2>1, Division
<1>3. e = C * q + (e % C) /\ e % C \in 0 .. C - 1
  <2>1. e \div C = q /\ e \in Nat /\ C \in Nat \ {0}
    BY <1>1, <1>2 DEF SameRow
  <2>2. e = C * (e \div C) + (e % C) /\ e % C \in 0 .. C - 1
    BY <2>1, Division
  <2> QED
    BY <2>1, <2>2
<1>4. a < C * y /\ C * y <= e
  BY <1>1 DEF SameRow, Address
<1>5. PICK p \in Nat, z \in Nat : p = C * q /\ z = C * y
  <2>1. \A u \in Nat, v \in Nat : u * v \in Nat
    OBVIOUS
  <2>2. C * q \in Nat /\ C * y \in Nat
    BY <2>1
  <2> QED
    BY <2>2
<1>6. p < z /\ z < p + C
  <2>1. PICK u \in Nat, v \in Nat : u = a % C /\ v = e % C /\ u < C /\ v < C
    BY <1>1, <1>2, <1>3
  <2>2. a = p + u /\ e = p + v
    BY <1>2, <1>3, <1>5, <2>1
  <2> QED
    BY <1>1, <1>4, <1>5, <2>1, <2>2
<1>7. q * C = p /\ y * C = z
  BY <1>1, <1>5
<1>8. CASE q < y
  <2>1. q * C + C <= y * C
    BY <1>1, <1>8, TimesLess
  <2> QED
    BY <1>1, <1>6, <1>7, <2>1
<1>9. CASE y < q
  <2>1. y * C + C <= q * C
    BY <1>1, <1>9, TimesLess
  <2> QED
    BY <1>1, <1>6, <1>7, <2>1
<1>10. CASE y = q
  BY <1>5, <1>6, <1>10
<1> QED
  BY <1>1, <1>8, <1>9, <1>10

LEMMA WriteOne ==
  ASSUME NEW s, NEW c
  PROVE  Write(s, <<c>>) = DisplayCharacter(s, c)
<1>1. PICK w : w = <<c>> /\ Len(w) = 1 /\ w[1] = c
  <2>1. <<c>>[1] = c
    OBVIOUS
  <2> QED
    BY <2>1, OneCharacter
<1>2. PICK f : Write(s, w) = f[1] /\ Written(f, s, w, 1)
  BY <1>1, WriteIs
<1>3. f[0] = s /\ f[1] = DisplayCharacter(f[1 - 1], w[1])
  BY <1>2 DEF Written
<1> QED
  BY <1>1, <1>2, <1>3

(* display_macro goes to the next line. *)
LEMMA LineEnds ==
  ASSUME NEW at, NEW chars, NEW L, Sheet(at, chars, L), NEW s, NEW n, n \in Nat, n + 1 <= L,
         Shows(s, at, chars, n), chars[n + 1] = Newline
  PROVE  Shows(Write(s, <<Newline>>), at, chars, n + 1)
<1>1. L \in Nat /\ n + 1 \in 1 .. L /\ n + 1 \in 1 .. L + 1 /\ (n + 1) + 1 \in 1 .. L + 1
  BY DEF Sheet
<1>2. PICK a \in Nat : a = at[n + 1]
  BY <1>1, SheetPlaces
<1>3. PICK x \in Nat, y \in Nat, C \in Nat, M \in Nat :
        /\ x = s.x /\ y = s.y /\ C = Columns /\ M = Lines /\ C >= 2 /\ x < C /\ y < M /\ OnPage(s)
        /\ M >= 8
  BY OnPageFacts, Layout DEF Shows
<1>4. a = x + C * y /\ Reads(s.text, at, chars, n)
  BY <1>2, <1>3 DEF Shows, Address
<1>5. PICK z \in Nat : z = y * C /\ C * y = z
  BY <1>3
<1>6. a \div C = y
  <2>1. z <= a /\ a < z + C
    BY <1>3, <1>4, <1>5
  <2>2. y * C <= a /\ a < y * C + C /\ C > 0
    BY <1>3, <1>5, <2>1
  <2> QED
    BY <1>3, <2>2, QuotientIs
<1>7. at[(n + 1) + 1] = (y + 1) * C
  BY <1>1, <1>2, <1>3, <1>6 DEF Sheet, PlacesTo, Behind
<1>8. (y + 1) * C = C * (y + 1)
  BY <1>3
<1>9. y + 1 < Lines
  <2> SUFFICES ASSUME ~(y + 1 < M) PROVE FALSE
    BY <1>3
  <2>1. (y + 1) * C + (L + 1 - ((n + 1) + 1)) <= Address(0, PromptLine)
    BY <1>1, <1>7, SheetPlaces
  <2>2. PICK B \in Nat : /\ Columns * (Lines - 1) = B + 3 * Columns
                         /\ \A u \in Int : Address(u, PromptLine) = u + B
    BY LinesBegin
  <2>3. (y + 1) * C <= B
    <3>1. PICK u \in Nat : u = (y + 1) * C
      BY <1>3
    <3>2. u + (L + 1 - ((n + 1) + 1)) <= B
      BY <2>1, <2>2, <3>1
    <3> QED
      BY <1>1, <3>1, <3>2
  <2>4. PICK m \in Nat : m = M - 1 /\ m < y + 1 /\ y + 1 \in Nat
    BY <1>3
  <2>5. m * C + C <= (y + 1) * C
    BY <1>3, <2>4, TimesLess
  <2>6. C * m = B + 3 * C /\ m * C = C * m
    BY <1>3, <2>2, <2>4
  <2>7. PICK u \in Nat : u = (y + 1) * C
    BY <1>3
  <2> QED
    BY <1>3, <2>2, <2>3, <2>5, <2>6, <2>7
<1>10. PICK r : r = DisplayCharacter(s, Newline)
  OBVIOUS
<1>11. OnPage(r) /\ r.x = 0 /\ r.y = y + 1 /\ r.text = s.text
  BY <1>3, <1>9, <1>10, NewlineMoves
<1>12. Address(r.x, r.y) = at[(n + 1) + 1]
  <2>1. PICK u \in Nat : u = C * (y + 1)
    BY <1>3
  <2> QED
    BY <1>3, <1>7, <1>8, <1>11, <2>1 DEF Address
<1>13. Reads(s.text, at, chars, n + 1)
  <2>1. ASSUME NEW i \in 1 .. n + 1, chars[i] # Newline PROVE s.text[at[i]] = chars[i]
    <3>1. i \in 1 .. n
      <4>1. i # n + 1
        BY <2>1
      <4> QED
        BY <4>1
    <3> QED
      BY <1>4, <2>1, <3>1 DEF Reads
  <2>2. ASSUME NEW c \in Cell, \A i \in 1 .. n + 1 : chars[i] # Newline => c # at[i]
        PROVE  s.text[c] = Space
    <3>1. \A i \in 1 .. n : i \in 1 .. n + 1
      OBVIOUS
    <3> QED
      BY <1>4, <2>2, <3>1 DEF Reads
  <2> QED
    BY <2>1, <2>2 DEF Reads
<1> QED
  BY <1>10, <1>11, <1>12, <1>13, WriteOne DEF Shows

(* A line begins where a line has ended. *)
LEMMA LineBegins ==
  ASSUME NEW x \in Nat, NEW y \in Nat, x < Columns, NEW p \in Nat,
         Address(x, y) = Behind(p, Newline)
  PROVE  x = 0
<1>1. PICK C \in Nat : C = Columns /\ C >= 2
  BY Layout
<1>2. PICK q \in Nat : q = p \div C
  <2>1. C \in Nat \ {0}
    BY <1>1
  <2> QED
    BY <2>1, Division
<1>3. PICK a : a = Address(x, y) /\ a = x + C * y /\ a = (q + 1) * C
  BY <1>1, <1>2 DEF Address, Behind
<1>4. PICK z \in Nat, w \in Nat : z = y * C /\ C * y = z /\ w = (q + 1) * C
  <2>1. y * C \in Nat /\ C * y = y * C /\ (q + 1) * C \in Nat
    BY <1>1
  <2> QED
    BY <2>1
<1>5. a \div C = y
  <2>1. a \in Nat /\ C > 0 /\ y * C <= a /\ a < y * C + C
    BY <1>1, <1>3, <1>4
  <2> QED
    BY <1>1, <2>1, QuotientIs
<1>6. a \div C = q + 1
  <2>1. a \in Nat /\ C > 0 /\ q + 1 \in Nat /\ (q + 1) * C <= a /\ a < (q + 1) * C + C
    BY <1>1, <1>3, <1>4
  <2>2. PICK k \in Nat : k = q + 1
    BY <2>1
  <2>3. k * C <= a /\ a < k * C + C
    BY <2>1, <2>2
  <2> QED
    BY <1>1, <2>1, <2>2, <2>3, QuotientIs
<1>7. x + w = w
  BY <1>3, <1>4, <1>5, <1>6
<1> QED
  BY <1>4, <1>7

LEMMA ByteOver == (Byte - 1 + 1) % Byte = 0 /\ (0 + -1) % Byte = Byte - 1
<1>1. PICK B \in Nat : B = Byte /\ B > 4
  BY Sizes
<1>2. B \div B = 1
  <2>1. 1 * B <= B /\ B < 1 * B + B /\ B > 0
    BY <1>1
  <2> QED
    BY <2>1, QuotientIs
<1>3. B % B = 0
  <2>1. B \in Nat \ {0}
    BY <1>1
  <2>2. B = B * (B \div B) + (B % B) /\ B % B \in 0 .. B - 1
    BY <2>1, Division
  <2>3. B * (B \div B) = B
    BY <1>2
  <2> QED
    BY <2>2, <2>3
<1>4. -1 % B = B - 1
  <2>1. PICK w \in Int : w = -1
    OBVIOUS
  <2>2. B \in Nat \ {0} /\ w \in -B .. B - 1 /\ w < 0
    BY <1>1, <2>1
  <2>3. w % B = w + B
    BY <2>2, ModuloOnce
  <2> QED
    BY <2>1, <2>3
<1>5. B - 1 + 1 = B /\ 0 + -1 = -1
  BY <1>1
<1> QED
  BY <1>1, <1>3, <1>4, <1>5

-----------------------------------------------------------------------------
(* The cells behind the text: each puts a blank on the one that is there;  *)
(* where a line begins, the position is led off to the left, and a store   *)
(* from there finds a blank as well.                                       *)

OffLeft(s, r) ==
  /\ Sound(r) /\ r.x = 0 /\ r.y = s.y
  /\ \E a \in Nat : /\ a > Address(s.x, s.y)
                    /\ \A k \in Cell : r.text[k] = s.text[k] \/ (k = a /\ r.text[k] = Space)

LEMMA BlankFromLeft ==
  ASSUME NEW s, Sound(s), s.x = 0, s.y < Lines
  PROVE  OffLeft(s, DisplayCharacter(OneLeft(s), Space))
<1>1. PICK y \in Nat, C \in Nat, L \in Nat, B \in Nat :
        /\ y = s.y /\ C = Columns /\ L = Lines /\ B = Byte
        /\ C >= 2 /\ y < L /\ B > C + 4 /\ B > L /\ Shaped(s)
  BY Sizes, Layout DEF Sound, Shaped
<1>2. (y + 0) % B = y
  <2>1. B \in Nat \ {0} /\ y \in Int /\ y \in -B .. B - 1 /\ ~(y < 0) /\ y + 0 = y
    BY <1>1
  <2>2. y % B = y
    BY <2>1, ModuloOnce
  <2> QED
    BY <2>1, <2>2
<1>3. PICK v \in Nat : v = B - 1
  BY <1>1
<1> DEFINE m == [s EXCEPT !.x = v, !.y = y]
<1>4. [s EXCEPT !.x = (@ + -1) % Byte, !.y = (@ + 0) % Byte] = m
  BY <1>1, <1>2, <1>3, ByteOver
<1>5. Shaped(m) /\ m.x = v /\ m.y = y
  <2>1. /\ Shaped(m) /\ m.x = v /\ m.y = y /\ m.led = s.led /\ m.off = s.off
        /\ (s.led = 0 => v <= Columns /\ y < Lines) => Sound(m)
    BY Moved
  <2> QED
    BY <2>1
<1>6. m.text = s.text
  BY <1>1 DEF Shaped
<1> HIDE DEF m
<1>7. ~OnScreen(m)
  BY <1>1, <1>3, <1>5 DEF OnScreen
<1>8. UpdatePosition(s, -1, 0) = [m EXCEPT !.led = 1]
  BY <1>4, <1>7 DEF UpdatePosition
<1>9. PICK u : u = UpdatePosition(s, -1, 0)
  OBVIOUS
<1>10. /\ Sound(u) /\ u.text = s.text /\ u.x = v /\ u.y = y /\ u.led = 1
  <2>1. u = [text |-> m.text, x |-> m.x, y |-> m.y, hw |-> m.hw, led |-> 1, off |-> m.off]
    BY <1>5, <1>8, <1>9, Fields
  <2>2. Sound(u)
    BY <1>9, SoundUpdatePosition
  <2> QED
    BY <1>5, <1>6, <2>1, <2>2
<1>11. PICK t : t = OneLeft(s)
  OBVIOUS
<1>12. Sound(t) /\ t.text = s.text /\ t.x = v /\ t.y = y /\ t.led = 1
  <2>1. t = UpdateCursor(u) /\ Shaped(u)
    BY <1>9, <1>10, <1>11 DEF OneLeft, Sound
  <2> QED
    BY <1>10, <2>1, UpdatedFields, SoundCursor
<1>13. PICK a \in Nat : a = Address(v, y) /\ a = v + C * y
  <2>1. C * y \in Nat
    BY <1>1
  <2> QED
    BY <1>1, <2>1 DEF Address
<1>14. PICK w : w = Store(t, Space)
  OBVIOUS
<1>15. Sound(w) /\ w.x = v /\ w.y = y /\ w.led = 1
  BY <1>12, <1>14, SoundStore
<1>16. \A k \in Cell : w.text[k] = s.text[k] \/ (k = a /\ w.text[k] = Space)
  <2>1. w = Stored(t, a, [t.text EXCEPT ![a] = Space])
    BY <1>12, <1>13, <1>14 DEF Store
  <2>2. t.text = [i \in Cell |-> t.text[i]] /\ Shaped(t)
    BY <1>12 DEF Sound, Shaped
  <2>3. CASE a \in Cell
    <3>1. w = [t EXCEPT !.text = [t.text EXCEPT ![a] = Space]]
      BY <2>1, <2>3 DEF Stored
    <3>2. PICK z : z = [t.text EXCEPT ![a] = Space]
      OBVIOUS
    <3>3. w.text = z
      BY <2>2, <3>1, <3>2, Fields
    <3>4. \A k \in Cell : z[k] = IF k = a THEN Space ELSE t.text[k]
      BY <2>2, <2>3, <3>2
    <3> QED
      BY <1>12, <3>3, <3>4
  <2>4. CASE a \notin Cell
    <3>1. w = t
      BY <1>12, <2>1, <2>4 DEF Stored
    <3> QED
      BY <1>12, <3>1
  <2> QED
    BY <2>3, <2>4
<1>17. PICK r : r = ToRight(w)
  OBVIOUS
<1>18. Shaped(r) /\ r.led = 1 /\ r.text = w.text /\ r.x = 0 /\ r.y = y
  <2>1. Shaped(r) /\ r.led = w.led /\ r.text = w.text
    BY <1>15, <1>17, ToRightIs
  <2>2. PICK right : right = [w EXCEPT !.x = (@ + 1) % Byte]
    OBVIOUS
  <2>3. (w.x + 1) % Byte = 0
    <3>1. w.x + 1 = B - 1 + 1
      BY <1>3, <1>15
    <3> QED
      BY <1>1, <3>1, ByteOver
  <2>4. right = [w EXCEPT !.x = 0]
    BY <2>2, <2>3
  <2>5. right = [text |-> w.text, x |-> 0, y |-> w.y, hw |-> w.hw, led |-> w.led, off |-> w.off]
    BY <1>15, <2>4, Fields DEF Sound
  <2>6. ~(right.x > Columns - 1)
    BY <1>1, <2>5
  <2>7. r = right
    BY <1>17, <2>2, <2>6 DEF ToRight
  <2> QED
    BY <1>15, <2>1, <2>5, <2>7
<1>19. PICK d : d = DisplayCharacter(t, Space)
  OBVIOUS
<1>20. d = UpdateCursor(InPage(r)) /\ Sound(d)
  <2>1. Space \in Nat
    BY DEF Space
  <2> QED
    BY <1>12, <1>14, <1>17, <1>19, <2>1, LetterShown, SoundDisplayCharacter
<1>21. InPage(r) = r
  BY <1>1, <1>18 DEF InPage
<1>22. d.text = w.text /\ d.x = 0 /\ d.y = s.y
  BY <1>1, <1>18, <1>20, <1>21, UpdatedFields
<1>23. a > Address(s.x, s.y)
  <2>1. PICK p \in Nat : p = C * y
    BY <1>1
  <2>2. Address(s.x, s.y) = 0 + p
    BY <1>1, <2>1 DEF Address
  <2> QED
    BY <1>1, <1>3, <1>13, <2>1, <2>2
<1>24. OffLeft(s, d)
  BY <1>16, <1>20, <1>22, <1>23 DEF OffLeft
<1> QED
  BY <1>11, <1>19, <1>24

Idle(s, at, chars, L) ==
  /\ Sound(s) /\ s.x < Columns /\ s.y < Lines /\ (s.x > 0 => s.led = 0)
  /\ Address(s.x, s.y) = at[L + 1] /\ Reads(s.text, at, chars, L)

LEMMA IdleStays ==
  ASSUME NEW at, NEW chars, NEW L, Sheet(at, chars, L), NEW s, Idle(s, at, chars, L),
         L > 0 => chars[L] \in {Space, Newline}
  PROVE  Idle(Write(OneLeft(s), <<Space>>), at, chars, L)
<1>1. L \in Nat /\ L + 1 \in 1 .. L + 1
  BY DEF Sheet
<1>2. PICK x \in Nat, y \in Nat, C \in Nat : x = s.x /\ y = s.y /\ C = Columns /\ C >= 2 /\ x < C
  BY Layout DEF Idle, Sound, Shaped
<1>3. Reads(s.text, at, chars, L) /\ Address(x, y) = at[L + 1] /\ Sound(s) /\ s.y < Lines
  BY <1>2 DEF Idle
<1>4. CASE x > 0
  <2>1. OnPage(s)
    BY <1>2, <1>4 DEF OnPage, Idle
  <2>2. L > 0
    <3> SUFFICES ASSUME L = 0 PROVE FALSE
      BY <1>1
    <3>1. at[L + 1] = 0
      BY DEF Sheet, PlacesTo
    <3>2. PICK p \in Nat : p = C * y
      BY <1>2
    <3> QED
      BY <1>2, <1>3, <1>4, <3>1, <3>2 DEF Address
  <2>3. PICK n \in Nat : n + 1 = L
    <3>1. L - 1 \in Nat /\ (L - 1) + 1 = L
      BY <1>1, <2>2
    <3> QED
      BY <3>1
  <2>4. chars[n + 1] = Space
    <3> SUFFICES ASSUME chars[L] = Newline PROVE FALSE
      BY <2>2, <2>3
    <3>1. PICK p \in Nat : p = at[L]
      <4>1. L \in 1 .. L + 1
        BY <1>1, <2>2
      <4> QED
        BY <4>1, SheetPlaces
    <3>2. at[L + 1] = Behind(p, Newline)
      BY <1>1, <2>2, <3>1 DEF Sheet, PlacesTo
    <3>3. x = 0
      BY <1>2, <1>3, <3>1, <3>2, LineBegins
    <3> QED
      BY <1>4, <3>3
  <2>5. Shows(s, at, chars, n + 1)
    BY <1>2, <1>3, <2>1, <2>3 DEF Shows
  <2>6. Paused(s, at, chars, n)
    BY <2>3, <2>4, <2>5, <1>1, BlankCounts
  <2>7. PICK t : t = OneLeft(s) /\ Shows(t, at, chars, n)
    BY <1>1, <1>2, <1>4, <2>3, <2>6, BackOver
  <2>8. PICK v \in Seq(Nat) : v = <<>> /\ Len(v) = 0
    BY ZeroIsSeq
  <2>9. Paused(Write(t, v \o <<Space>>), at, chars, n + 0)
    <3>1. n + 0 + 1 <= L /\ \A k \in 1 .. 0 : chars[n + k] = v[k]
      BY <2>3
    <3>2. 0 = Len(v)
      BY <2>8
    <3> QED
      BY <2>7, <3>1, <3>2, WordPut
  <2>10. v \o <<Space>> = <<Space>> /\ n + 0 = n
    BY <2>8
  <2>11. PICK r : r = Write(t, <<Space>>) /\ Paused(r, at, chars, n)
    BY <2>9, <2>10
  <2>12. Shows(r, at, chars, L)
    BY <1>1, <2>3, <2>4, <2>11, BlankCounts
  <2>13. Idle(r, at, chars, L)
    BY <2>12, OnPageFacts DEF Shows, Idle, OnPage
  <2> QED
    BY <2>7, <2>11, <2>13
<1>5. CASE x = 0
  <2>1. PICK r : r = DisplayCharacter(OneLeft(s), Space) /\ OffLeft(s, r)
    BY <1>2, <1>3, <1>5, BlankFromLeft
  <2>2. PICK a \in Nat : /\ a > Address(x, y)
                         /\ \A k \in Cell : r.text[k] = s.text[k] \/ (k = a /\ r.text[k] = Space)
    BY <1>2, <2>1 DEF OffLeft
  <2>3. ASSUME NEW i \in 1 .. L PROVE at[i] \in Cell /\ at[i] # a
    <3>1. i \in 1 .. L + 1
      BY <1>1
    <3>2. at[i] \in Nat /\ at[i] \in Cell /\ Rising(at, L) /\ at[L + 1] \in Nat
      BY <1>1, <3>1, SheetPlaces
    <3>3. at[i] + (L + 1 - i) <= at[L + 1]
      BY <1>1, <3>1, <3>2 DEF Rising
    <3> QED
      BY <1>1, <1>3, <2>2, <3>2, <3>3
  <2>4. Reads(r.text, at, chars, L)
    <3>1. ASSUME NEW i \in 1 .. L, chars[i] # Newline PROVE r.text[at[i]] = chars[i]
      <4>1. s.text[at[i]] = chars[i]
        BY <1>3, <3>1 DEF Reads
      <4> QED
        BY <2>2, <2>3, <4>1
    <3>2. ASSUME NEW c \in Cell, \A i \in 1 .. L : chars[i] # Newline => c # at[i]
          PROVE  r.text[c] = Space
      <4>1. s.text[c] = Space
        BY <1>3, <3>2 DEF Reads
      <4> QED
        BY <2>2, <4>1
    <3> QED
      BY <3>1, <3>2 DEF Reads
  <2>5. Idle(r, at, chars, L)
    <3>1. Sound(r) /\ r.x = 0 /\ r.y = y /\ ~(r.x > 0)
      BY <1>2, <2>1 DEF OffLeft
    <3> QED
      BY <1>2, <1>3, <1>5, <2>4, <3>1 DEF Idle
  <2> QED
    BY <2>1, <2>5, WriteOne
<1> QED
  BY <1>2, <1>4, <1>5

-----------------------------------------------------------------------------
(* The rounds of display_block(): what each cell puts on the page.         *)

LEMMA CellIs ==
  ASSUME NEW disk, NEW n \in Nat, NEW b \in Nat, b = BlockCells, NEW k \in Nat, k < b,
         NEW first, first = n * b
  PROVE  CellAt(disk, first + k) = disk[n][k + 1] /\ first \in Nat
<1>1. PICK z \in Nat : z = n * b /\ z = first /\ b * n = z
  <2>1. n * b \in Nat /\ n * b = b * n
    OBVIOUS
  <2> QED
    BY <2>1
<1>2. (z + k) \div b = n
  <2>1. z + k \in Nat /\ b > 0 /\ n * b <= z + k /\ z + k < n * b + b
    BY <1>1
  <2>2. PICK w \in Nat : w = z + k
    BY <2>1
  <2>3. n * b <= w /\ w < n * b + b
    BY <2>1, <2>2
  <2>4. w \div b = n
    BY <2>1, <2>3, QuotientIs
  <2> QED
    BY <2>2, <2>4
<1>3. (z + k) % b = k
  <2>1. PICK w \in Nat : w = z + k
    BY <1>1
  <2>2. b \in Nat \ {0}
    OBVIOUS
  <2>3. w = b * (w \div b) + (w % b) /\ w % b \in 0 .. b - 1
    BY <2>2, Division
  <2>4. w \div b = n
    BY <1>2, <2>1
  <2>5. w = z + (w % b)
    BY <1>1, <2>3, <2>4
  <2>6. PICK u \in Nat : u = w % b
    BY <2>3
  <2>7. z + k = z + u
    BY <2>1, <2>5, <2>6
  <2> QED
    BY <2>1, <2>6, <2>7
<1> QED
  BY <1>1, <1>2, <1>3 DEF CellAt

StateIs(s, first, k, page) == s.index = first + k /\ s.page = page

(* display_word() by the color of the cell. *)
Displays(s, disk, i, c, d) ==
  LET name == Unpack(NameOf(c)) \o <<Space>>
      data == PrintNumber(NumberOf(d), HexBit(c)) \o <<Space>>
  IN  /\ c.color = 0 => DisplayWord(s, disk, i) = Write(OneLeft(s), name)
      /\ c.color \in {2, 5} => DisplayWord(s, disk, i) = Write(s, data)
      /\ c.color \in {6, 8, 15} =>
           DisplayWord(s, disk, i) = Write(s, PrintNumber(c.cell \div 32, HexBit(c)) \o <<Space>>)
      /\ c.color = 12 => DisplayWord(s, disk, i) = Write(s, name \o data)
      /\ c.color = 13 => DisplayWord(s, disk, i) = s
      /\ c.color = 14 => DisplayWord(s, disk, i) = Write(s, <<Newline>>)
      /\ c.color \in {1, 3, 4, 7, 9, 10, 11} => DisplayWord(s, disk, i) = Write(s, name)

LEMMA DisplayWordIs ==
  ASSUME NEW s, NEW disk, NEW i, NEW c, NEW d, c = CellAt(disk, i), d = CellAt(disk, i + 1)
  PROVE  Displays(s, disk, i, c, d)
<1> DEFINE name   == Unpack(NameOf(c)) \o <<Space>>
           data   == PrintNumber(NumberOf(d), HexBit(c)) \o <<Space>>
           number == PrintNumber(c.cell \div 32, HexBit(c)) \o <<Space>>
<1>1. DisplayWord(s, disk, i) =
        CASE c.color = 0            -> Write(OneLeft(s), name)
          [] c.color \in {2, 5}     -> Write(s, data)
          [] c.color \in {6, 8, 15} -> Write(s, number)
          [] c.color = 12           -> Write(s, name \o data)
          [] c.color = 13           -> s
          [] c.color = 14           -> Write(s, <<Newline>>)
          [] OTHER                  -> Write(s, name)
  BY DEF DisplayWord, OneLeft
<1> HIDE DEF name, data, number
<1>2. c.color = 0 => DisplayWord(s, disk, i) = Write(OneLeft(s), name)
  BY <1>1
<1>3. c.color \in {2, 5} => DisplayWord(s, disk, i) = Write(s, data)
  BY <1>1
<1>4. c.color \in {6, 8, 15} => DisplayWord(s, disk, i) = Write(s, number)
  BY <1>1
<1>5. c.color = 12 => DisplayWord(s, disk, i) = Write(s, name \o data)
  BY <1>1
<1>6. c.color = 13 => DisplayWord(s, disk, i) = s
  BY <1>1
<1>7. c.color = 14 => DisplayWord(s, disk, i) = Write(s, <<Newline>>)
  BY <1>1
<1>8. c.color \in {1, 3, 4, 7, 9, 10, 11} => DisplayWord(s, disk, i) = Write(s, name)
  BY <1>1
<1> QED
  BY <1>2, <1>3, <1>4, <1>5, <1>6, <1>7, <1>8 DEF Displays, name, data, number

(* A round at the cell k of the block. *)
Rounding(disk, n, b, f, first) ==
  n \in Nat /\ b \in Nat /\ b = BlockCells /\ first = n * b /\ first \in Nat /\ Rounds(f, disk, n, b)

RoundDraws(f, disk, first, r, k, c, d, page, i) ==
  /\ Displays(page, disk, i, c, d)
  /\ StateIs(f[r + 1], first, k + (IF c.color \in {2, 5, 12} THEN 2 ELSE 1), DisplayWord(page, disk, i))

LEMMA RoundAt ==
  ASSUME NEW disk, NEW n, NEW b, NEW f, NEW first, Rounding(disk, n, b, f, first),
         NEW r, r \in Nat, r + 1 <= b, NEW k, k \in Nat, k < b, NEW page, StateIs(f[r], first, k, page),
         NEW c, c = disk[n][k + 1], NEW h, h = k + 1, NEW d, d = CellAt(disk, first + h)
  PROVE  \E i : RoundDraws(f, disk, first, r, k, c, d, page, i)
<1>1. n \in Nat /\ b \in Nat /\ b = BlockCells /\ first = n * b /\ first \in Nat
  BY DEF Rounding
<1>2. PICK i : i = first + k
  OBVIOUS
<1>3. CellAt(disk, i) = c
  BY <1>1, <1>2, CellIs
<1>4. CellAt(disk, i + 1) = d
  <2>1. i + 1 = first + h
    BY <1>1, <1>2
  <2> QED
    BY <2>1
<1>5. Displays(page, disk, i, c, d)
  BY <1>3, <1>4, DisplayWordIs
<1>6. f[r + 1] = Round(f[r], disk, n)
  <2>1. r + 1 \in 1 .. b /\ (r + 1) - 1 = r
    BY <1>1
  <2> QED
    BY <2>1 DEF Rounding, Rounds
<1>7. f[r].index = i /\ f[r].page = page
  BY <1>2 DEF StateIs
<1>8. ~(i >= (n + 1) * b)
  <2>1. PICK z \in Nat : z = n * b /\ (n + 1) * b = z + b
    BY <1>1
  <2> QED
    BY <1>1, <1>2, <2>1
<1>9. PICK m \in Nat : m = IF c.color \in {2, 5, 12} THEN 2 ELSE 1
  OBVIOUS
<1>10. f[r + 1] = [index |-> i + m, page |-> DisplayWord(page, disk, i)]
  BY <1>1, <1>3, <1>6, <1>7, <1>8, <1>9 DEF Round
<1>11. StateIs(f[r + 1], first, k + m, DisplayWord(page, disk, i))
  BY <1>1, <1>2, <1>9, <1>10 DEF StateIs
<1>12. RoundDraws(f, disk, first, r, k, c, d, page, i)
  BY <1>5, <1>9, <1>11 DEF RoundDraws
<1> QED
  BY <1>12

-----------------------------------------------------------------------------
(* Entry by entry, the cells of the block become the characters of its     *)
(* text: those of the first i entries are e[i].                            *)

Stands(chars, n, w) == \A j \in 1 .. Len(w) : chars[n + j] = w[j]

SpeltBy(chars, block, e, L, N) ==
  /\ e[0] = 0 /\ e[0] \in Nat
  /\ \A i \in 1 .. N :
       /\ Len(Shown(block, i)) \in Nat /\ e[i] \in Nat /\ e[i] = e[i - 1] + Len(Shown(block, i))
       /\ e[i] <= L /\ Stands(chars, e[i - 1], Shown(block, i))

Setting(disk, n, b, f, first, block, es, p, N, at, chars, e, L) ==
  /\ Rounding(disk, n, b, f, first) /\ N \in Nat /\ Laid(disk[n], block, es, p, N)
  /\ Sheet(at, chars, L) /\ SpeltBy(chars, block, e, L, N)

(* The first i entries are on the page, and the next round is at the cells *)
(* of the one behind them.                                                 *)
Printed(f, first, p, at, chars, e, i) ==
  \E r \in 0 .. p[i] : \E page : StateIs(f[r], first, p[i], page) /\ Shows(page, at, chars, e[i])

EntryNext(cells, f, first, block, p, at, chars, e, L, b, i, r, k, q, m, cs, w, page) ==
  /\ r \in Nat /\ k \in Nat /\ q \in Nat /\ m \in Nat
  /\ StateIs(f[r], first, k, page) /\ Shows(page, at, chars, m)
  /\ r <= k /\ k = p[i] /\ p[i + 1] = k + q /\ k + q <= b /\ q = Len(cs)
  /\ \A j \in 1 .. q : cells[k + j] = cs[j]
  /\ CellsAre(block, i + 1, cs)
  /\ w = Shown(block, i + 1) /\ Len(w) \in Nat
  /\ m = e[i] /\ e[i + 1] = m + Len(w) /\ m + Len(w) <= L /\ Stands(chars, m, w)

LEMMA NextEntry ==
  ASSUME NEW disk, NEW n, NEW b, NEW f, NEW first, NEW block, NEW es, NEW p, NEW N, NEW at,
         NEW chars, NEW e, NEW L, Setting(disk, n, b, f, first, block, es, p, N, at, chars, e, L),
         NEW i \in Nat, i + 1 <= N, Printed(f, first, p, at, chars, e, i)
  PROVE  \E r, k, q, m, cs, w, page :
           EntryNext(disk[n], f, first, block, p, at, chars, e, L, b, i, r, k, q, m, cs, w, page)
<1>1. /\ b \in Nat /\ b = BlockCells /\ N \in Nat /\ Laid(disk[n], block, es, p, N)
      /\ SpeltBy(chars, block, e, L, N)
  BY DEF Setting, Rounding
<1>2. PICK cells : cells = disk[n]
  OBVIOUS
<1>3. PICK cs : cs = es[i + 1]
  OBVIOUS
<1>4. PICK k, q : NextLaid(cells, block, p, i, b, cs, k, q)
  BY <1>1, <1>2, <1>3, LaidNext
<1>5. /\ k \in Nat /\ q \in Nat
      /\ k = p[i] /\ q = Len(cs) /\ p[i + 1] = k + q /\ k + q <= b
      /\ \A j \in 1 .. q : cells[k + j] = cs[j]
      /\ CellsAre(block, i + 1, cs)
  BY <1>4 DEF NextLaid
<1>6. PICK r \in 0 .. k : \E page : StateIs(f[r], first, k, page) /\ Shows(page, at, chars, e[i])
  BY <1>5 DEF Printed
<1>7. PICK page : StateIs(f[r], first, k, page) /\ Shows(page, at, chars, e[i])
  BY <1>6
<1>8. PICK w : w = Shown(block, i + 1)
  OBVIOUS
<1>9. PICK h \in 1 .. N : h = i + 1 /\ h - 1 = i
  BY <1>1
<1>10. PICK m \in Nat : m = e[i]
  <2>1. CASE i = 0
    BY <1>1, <2>1 DEF SpeltBy
  <2>2. CASE i # 0
    <3>1. i \in 1 .. N
      BY <1>1, <2>2
    <3> QED
      BY <1>1, <3>1 DEF SpeltBy
  <2> QED
    BY <2>1, <2>2
<1>11. /\ Len(Shown(block, h)) \in Nat /\ e[h] = e[h - 1] + Len(Shown(block, h))
       /\ e[h] <= L /\ Stands(chars, e[h - 1], Shown(block, h))
  BY <1>1 DEF SpeltBy
<1>12. Len(w) \in Nat /\ e[i + 1] = m + Len(w) /\ m + Len(w) <= L /\ Stands(chars, m, w)
  BY <1>8, <1>9, <1>10, <1>11
<1>13. r \in Nat /\ r <= k
  BY <1>5
<1>14. EntryNext(cells, f, first, block, p, at, chars, e, L, b, i, r, k, q, m, cs, w, page)
  BY <1>5, <1>7, <1>8, <1>10, <1>12, <1>13 DEF EntryNext
<1> QED
  BY <1>2, <1>14

WithBlank(w, v) == v \in Seq(Nat) /\ w = v \o <<Space>>

LEMMA WordReads ==
  ASSUME NEW at, NEW chars, NEW L, Sheet(at, chars, L), NEW s, NEW n, n \in Nat, Shows(s, at, chars, n),
         NEW v, NEW w, WithBlank(w, v), NEW o, o = n + Len(w), o <= L, Stands(chars, n, w)
  PROVE  Shows(Write(s, w), at, chars, o)
<1>1. /\ Len(w) = Len(v) + 1 /\ Len(v) \in Nat /\ w[Len(v) + 1] = Space
      /\ \A k \in 1 .. Len(v) : w[k] = v[k]
  BY BlankBehind DEF Space, WithBlank
<1>2. PICK m \in Nat : m = Len(v) /\ Len(w) = m + 1
  BY <1>1
<1>3. \A k \in 1 .. m : chars[n + k] = v[k]
  <2>1. \A k \in 1 .. m : k \in 1 .. Len(w)
    BY <1>2
  <2> QED
    BY <1>1, <1>2, <2>1 DEF Stands
<1>4. chars[n + m + 1] = Space
  <2>1. m + 1 \in 1 .. Len(w) /\ n + (m + 1) = n + m + 1
    BY <1>2
  <2>2. chars[n + (m + 1)] = w[m + 1]
    BY <2>1 DEF Stands
  <2> QED
    BY <1>1, <1>2, <2>1, <2>2
<1>5. PICK h \in Nat : h = n + m /\ h + 1 = n + m + 1 /\ n + Len(w) = h + 1 /\ h + 1 <= L /\ n + m + 1 <= L
  <2>1. L \in Nat
    BY DEF Sheet
  <2> QED
    BY <1>2, <2>1
<1>6. Paused(Write(s, v \o <<Space>>), at, chars, n + m)
  BY <1>2, <1>3, <1>5, WordPut DEF WithBlank
<1>7. PICK r : r = Write(s, w) /\ Paused(r, at, chars, h)
  BY <1>5, <1>6 DEF WithBlank
<1>8. chars[h + 1] = Space
  BY <1>4, <1>5
<1>9. Shows(r, at, chars, h + 1)
  BY <1>5, <1>7, <1>8, BlankCounts
<1> QED
  BY <1>2, <1>5, <1>7, <1>9

LEMMA NumberPrinted ==
  ASSUME NEW disk, NEW n, NEW b, NEW f, NEW first, NEW block, NEW es, NEW p, NEW N, NEW at,
         NEW chars, NEW e, NEW L, Setting(disk, n, b, f, first, block, es, p, N, at, chars, e, L),
         NEW i \in Nat, i + 1 <= N, Printed(f, first, p, at, chars, e, i),
         NEW x, x = block[i + 1], x.f \in LongNumber \cup ShortNumber, x.hex \in {0, 1}, x.param \in Int,
         NumberFits(x)
  PROVE  Printed(f, first, p, at, chars, e, i + 1)
<1>1. PICK r, k, q, m, cs, w, page :
        EntryNext(disk[n], f, first, block, p, at, chars, e, L, b, i, r, k, q, m, cs, w, page)
  BY NextEntry
<1>2. /\ r \in Nat /\ k \in Nat /\ q \in Nat /\ m \in Nat
      /\ StateIs(f[r], first, k, page) /\ Shows(page, at, chars, m)
      /\ r <= k /\ p[i + 1] = k + q /\ k + q <= b /\ q = Len(cs)
      /\ \A j \in 1 .. q : disk[n][k + j] = cs[j]
      /\ CellsAre(block, i + 1, cs)
      /\ w = Shown(block, i + 1) /\ Len(w) \in Nat
      /\ e[i + 1] = m + Len(w) /\ m + Len(w) <= L /\ Stands(chars, m, w)
  BY <1>1 DEF EntryNext
<1>3. b \in Nat /\ Rounding(disk, n, b, f, first) /\ Sheet(at, chars, L)
  BY DEF Setting, Rounding
<1>4. PICK v : v = NumberText(x)
  OBVIOUS
<1>5. w = v \o <<Space>>
  <2>1. IsNumberEntry(block, i + 1)
    BY DEF IsNumberEntry
  <2>2. x.f # "display_macro" /\ x.f # "compiler_feedback"
    BY DEF LongNumber, ShortNumber
  <2> QED
    BY <1>2, <1>4, <2>1, <2>2 DEF Shown, NumberText
<1>6. PICK tag \in 0 .. 15 : tag = Tags[x.f]
  BY DEF Tags, LongNumber, ShortNumber
<1>7. PICK limit : limit = 2 ^ (CellBits - 1)
  OBVIOUS
<1>8. x.f \in LongNumber => x.f \notin ShortNumber
  BY DEF LongNumber, ShortNumber
<1>9. CASE x.f \in LongNumber
  <2>1. PICK c : c = Tagged(tag, x.hex, 0)
    OBVIOUS
  <2>2. PICK d : d = DataCell(x.param)
    OBVIOUS
  <2>3. cs = <<c, d>>
    BY <1>2, <1>6, <1>9, <2>1, <2>2 DEF CellsAre
  <2>4. q = 2 /\ cs[1] = c /\ cs[2] = d
    BY <1>2, <2>3
  <2>5. disk[n][k + 1] = c /\ disk[n][k + 2] = d
    <3>1. 1 \in 1 .. q /\ 2 \in 1 .. q
      BY <2>4
    <3> QED
      BY <1>2, <2>4, <3>1
  <2>6. c.color \in {2, 5}
    <3>1. PICK o \in Int : o = 0
      OBVIOUS
    <3>2. c = Tagged(Tags[x.f], x.hex, o)
      BY <1>6, <2>1, <3>1
    <3> QED
      BY <1>9, <3>2, NumberListed
  <2>7. HexBit(c) = x.hex
    <3>1. PICK o \in Int : o = 0
      OBVIOUS
    <3>2. c = Tagged(tag, x.hex, o)
      BY <2>1, <3>1
    <3> QED
      BY <3>2, TaggedHex
  <2>8. PrintNumber(NumberOf(d), x.hex) = v /\ v \in Seq(Nat)
    <3>1. /\ x.hex = 1 => x.param \in -limit .. 2 * limit - 1
          /\ x.hex # 1 => x.param \in CellRange \ {-limit}
      BY <1>7, <1>8, <1>9 DEF NumberFits
    <3> QED
      BY <1>4, <1>7, <2>2, <3>1, DataShown
  <2>9. k < b /\ k + 1 < b /\ r + 1 <= b
    BY <1>2, <1>3, <2>4
  <2>10. PICK z : RoundDraws(f, disk, first, r, k, c, d, page, z)
    <3>1. PICK h \in Nat : h = k + 1 /\ h < b /\ h + 1 = k + 2
      BY <1>2, <2>9
    <3>2. d = CellAt(disk, first + h)
      BY <1>3, <2>5, <3>1, CellIs DEF Rounding
    <3> QED
      BY <1>2, <1>3, <2>5, <2>9, <3>1, <3>2, RoundAt
  <2>11. DisplayWord(page, disk, z) = Write(page, w)
    BY <1>5, <2>6, <2>7, <2>8, <2>10 DEF Displays, RoundDraws
  <2>12. StateIs(f[r + 1], first, p[i + 1], Write(page, w))
    BY <1>2, <2>4, <2>6, <2>10, <2>11 DEF RoundDraws
  <2>13. Shows(Write(page, w), at, chars, e[i + 1])
    BY <1>2, <1>3, <1>5, <2>8, WordReads DEF WithBlank
  <2>14. r + 1 \in 0 .. p[i + 1]
    BY <1>2, <2>4
  <2> QED
    BY <2>12, <2>13, <2>14 DEF Printed
<1>10. CASE x.f \in ShortNumber
  <2>1. PICK c : c = Tagged(tag, x.hex, x.param)
    OBVIOUS
  <2>2. cs = <<c>>
    BY <1>2, <1>6, <1>10, <2>1 DEF CellsAre
  <2>3. q = 1 /\ cs[1] = c
    BY <1>2, <2>2
  <2>4. disk[n][k + 1] = c
    <3>1. 1 \in 1 .. q
      BY <2>3
    <3> QED
      BY <1>2, <2>3, <3>1
  <2>5. c.color \in {6, 8, 15}
    <3>1. c = Tagged(Tags[x.f], x.hex, x.param)
      BY <1>6, <2>1
    <3> QED
      BY <1>10, <3>1, NumberListed
  <2>6. PrintNumber(c.cell \div 32, HexBit(c)) = v /\ v \in Seq(Nat)
    <3>1. 32 * x.param \in CellRange
      BY <1>10 DEF NumberFits
    <3>2. PICK u \in 0 .. 15 : u = tag
      BY <1>6
    <3>3. c = Tagged(u, x.hex, x.param)
      BY <2>1, <3>2
    <3>4. IsShort(u, x, c)
      BY <3>1, <3>3 DEF IsShort
    <3>5. PrintNumber(c.cell \div 32, HexBit(c)) = NumberText(x) /\ NumberText(x) \in Seq(Nat)
      BY ONLY <3>4, ShortShown, Zenon
    <3> QED
      BY <1>4, <3>5
  <2>7. k < b /\ r + 1 <= b
    BY <1>2, <1>3, <2>3
  <2>8. PICK h \in Nat : h = k + 1
    BY <1>2
  <2>9. PICK d : d = CellAt(disk, first + h)
    OBVIOUS
  <2>10. PICK z : RoundDraws(f, disk, first, r, k, c, d, page, z)
    BY <1>2, <1>3, <2>4, <2>7, <2>8, <2>9, RoundAt
  <2>11. DisplayWord(page, disk, z) = Write(page, w)
    BY <1>5, <2>5, <2>6, <2>10 DEF Displays, RoundDraws
  <2>12. c.color \notin {2, 5, 12} /\ k + 1 = p[i + 1]
    <3>1. p[i + 1] = k + q
      BY <1>2
    <3> QED
      BY ONLY <2>3, <2>5, <3>1
  <2>13. StateIs(f[r + 1], first, k + 1, DisplayWord(page, disk, z))
    BY <2>10, <2>12 DEF RoundDraws
  <2>14. StateIs(f[r + 1], first, p[i + 1], Write(page, w))
    BY <2>11, <2>12, <2>13
  <2>15. Shows(Write(page, w), at, chars, e[i + 1])
    BY <1>2, <1>3, <1>5, <2>6, WordReads DEF WithBlank
  <2>16. r + 1 \in 0 .. p[i + 1]
    BY <1>2, <2>3
  <2> QED
    BY <2>14, <2>15, <2>16 DEF Printed
<1> QED
  BY <1>9, <1>10

-----------------------------------------------------------------------------
(* A word is put part by part: a part stays in front of the blank that the *)
(* next one takes away.                                                    *)
Pauses(f, first, r, k, at, chars, o) ==
  \E page : StateIs(f[r], first, k, page) /\ Paused(page, at, chars, o)

PartOf(c, tag, v) == c = NameCell(tag, Pack(v)) /\ v \in Seq(Letter) /\ InName(v)

LEMMA PartIs ==
  ASSUME NEW c, NEW tag, NEW v, PartOf(c, tag, v)
  PROVE  c.color = tag /\ Unpack(NameOf(c)) = v /\ v \in Seq(Nat)
<1>1. c.color = tag /\ NameOf(c) = Pack(v)
  BY DEF PartOf, NameCell, NameOf
<1>2. Unpack(Pack(v)) = v
  BY UnpackInName DEF PartOf
<1>3. v \in Seq(Nat)
  <2>1. Letter \subseteq Nat
    BY DEF Letter
  <2> QED
    BY <2>1, LargerSeq DEF PartOf
<1> QED
  BY <1>1, <1>2, <1>3

LEMMA PartPut ==
  ASSUME NEW at, NEW chars, NEW L, Sheet(at, chars, L), NEW s, NEW m, m \in Nat, Shows(s, at, chars, m),
         NEW v, v \in Seq(Nat), NEW o, o = m + Len(v), o + 1 <= L, Stands(chars, m, v)
  PROVE  Paused(Write(s, v \o <<Space>>), at, chars, o)
<1>1. PICK h \in Nat : h = Len(v) /\ o = m + h /\ m + h + 1 <= L
  OBVIOUS
<1>2. \A k \in 1 .. h : chars[m + k] = v[k]
  BY <1>1 DEF Stands
<1>3. Paused(Write(s, v \o <<Space>>), at, chars, m + h)
  BY <1>1, <1>2, WordPut
<1> QED
  BY <1>1, <1>3

LEMMA FirstPart ==
  ASSUME NEW disk, NEW n, NEW b, NEW f, NEW first, Rounding(disk, n, b, f, first),
         NEW at, NEW chars, NEW L, Sheet(at, chars, L),
         NEW r, r \in Nat, r + 1 <= b, NEW k, k \in Nat, k < b, NEW page, StateIs(f[r], first, k, page),
         NEW m, m \in Nat, Shows(page, at, chars, m),
         NEW tag, tag \in {1, 3, 4, 7, 9, 10, 11}, NEW v, PartOf(disk[n][k + 1], tag, v),
         NEW o, o = m + Len(v), o + 1 <= L, Stands(chars, m, v)
  PROVE  Pauses(f, first, r + 1, k + 1, at, chars, o)
<1>1. PICK c : c = disk[n][k + 1]
  OBVIOUS
<1>2. c.color = tag /\ Unpack(NameOf(c)) = v /\ v \in Seq(Nat)
  BY <1>1, PartIs
<1>3. PICK h \in Nat : h = k + 1
  OBVIOUS
<1>4. PICK d : d = CellAt(disk, first + h)
  OBVIOUS
<1>5. PICK z : RoundDraws(f, disk, first, r, k, c, d, page, z)
  BY <1>1, <1>3, <1>4, RoundAt
<1>6. DisplayWord(page, disk, z) = Write(page, v \o <<Space>>)
  BY <1>2, <1>5 DEF RoundDraws, Displays
<1>7. c.color \notin {2, 5, 12}
  BY <1>2
<1>8. StateIs(f[r + 1], first, k + 1, DisplayWord(page, disk, z))
  BY <1>5, <1>7 DEF RoundDraws
<1>9. Paused(Write(page, v \o <<Space>>), at, chars, o)
  BY <1>2, PartPut
<1> QED
  BY <1>6, <1>8, <1>9 DEF Pauses

LEMMA NextPart ==
  ASSUME NEW disk, NEW n, NEW b, NEW f, NEW first, Rounding(disk, n, b, f, first),
         NEW at, NEW chars, NEW L, Sheet(at, chars, L),
         NEW r, r \in Nat, r + 1 <= b, NEW k, k \in Nat, k < b,
         NEW m, m \in Nat, Pauses(f, first, r, k, at, chars, m),
         NEW a, NEW e, NEW p, p = at[m + 1] + 1, SameRow(a, p, e),
         NEW v, PartOf(disk[n][k + 1], 0, v),
         NEW o, o = m + Len(v), o + 1 <= L, Stands(chars, m, v)
  PROVE  Pauses(f, first, r + 1, k + 1, at, chars, o)
<1>1. PICK c : c = disk[n][k + 1]
  OBVIOUS
<1>2. c.color = 0 /\ Unpack(NameOf(c)) = v /\ v \in Seq(Nat)
  BY <1>1, PartIs
<1>3. PICK h \in Nat : h = k + 1
  OBVIOUS
<1>4. PICK d : d = CellAt(disk, first + h)
  OBVIOUS
<1>5. PICK page : StateIs(f[r], first, k, page) /\ Paused(page, at, chars, m)
  BY DEF Pauses
<1>6. PICK z : RoundDraws(f, disk, first, r, k, c, d, page, z)
  BY <1>1, <1>3, <1>4, <1>5, RoundAt
<1>7. PICK s : s = OneLeft(page)
  OBVIOUS
<1>8. DisplayWord(page, disk, z) = Write(s, v \o <<Space>>)
  BY <1>2, <1>6, <1>7 DEF RoundDraws, Displays
<1>9. StateIs(f[r + 1], first, k + 1, DisplayWord(page, disk, z))
  <2>1. c.color \notin {2, 5, 12}
    BY <1>2
  <2> QED
    BY <1>6, <2>1 DEF RoundDraws
<1>10. Shows(s, at, chars, m)
  <2>1. page.x > 0
    <3>1. OnPage(page) /\ SameRow(a, Address(page.x, page.y), e)
      BY <1>5 DEF Paused
    <3> QED
      BY <3>1, NotAtBegin
  <2>2. m <= L
    <3>1. L \in Nat /\ Len(v) \in Nat
      BY <1>2 DEF Sheet
    <3> QED
      BY <3>1
  <2> QED
    BY <1>5, <1>7, <2>1, <2>2, BackOver
<1>11. Paused(Write(s, v \o <<Space>>), at, chars, o)
  BY <1>2, <1>10, PartPut
<1> QED
  BY <1>8, <1>9, <1>11 DEF Pauses

(* Where the part j of the word w, put behind the first m characters, is. *)
PartStands(chars, m, w, u, v, g, h) ==
  g \in Nat /\ h = g + Len(v) /\ h <= m + Len(w) /\ Stands(chars, g, v) /\ g = m + Len(u)

LEMMA PartStandsIn ==
  ASSUME NEW chars, NEW m, m \in Nat, NEW w, Stands(chars, m, w), NEW u, NEW v, NEW x, StandsIn(w, u, v, x)
  PROVE  PartStands(chars, m, w, u, v, m + Len(u), m + Len(x)) /\ Len(v) \in Nat
<1>1. PICK a \in Nat, c \in Nat, d \in Nat :
        /\ a = Len(u) /\ c = Len(v) /\ d = Len(w) /\ Len(x) = a + c /\ a + c <= d
        /\ \A j \in 1 .. c : w[a + j] = v[j]
  BY DEF StandsIn
<1>2. ASSUME NEW j \in 1 .. c PROVE chars[(m + a) + j] = v[j]
  <2>1. PICK i \in 1 .. d : i = a + j
    BY <1>1
  <2>2. chars[m + i] = w[i]
    BY <1>1, <2>1 DEF Stands
  <2>3. m + i = (m + a) + j
    BY <2>1
  <2> QED
    BY <1>1, <2>1, <2>2, <2>3
<1>3. Stands(chars, m + a, v)
  BY <1>1, <1>2 DEF Stands
<1>4. m + a \in Nat /\ m + Len(x) = (m + a) + c /\ (m + a) + c <= m + d
  BY <1>1
<1> QED
  BY <1>1, <1>3, <1>4 DEF PartStands

LEMMA RowOfPart ==
  ASSUME NEW at, NEW chars, NEW L, Sheet(at, chars, L), NEW m, m \in Nat, NEW h, h \in Nat, m <= h,
         NEW o, o \in Nat, h <= o, o + 1 <= L, at[m + 1] \div Columns = at[o + 2] \div Columns
  PROVE  SameRow(at[m + 1], at[h + 1] + 1, at[o + 2])
<1>1. L \in Nat /\ Rising(at, L)
  BY SheetPlaces
<1>2. PICK i \in 1 .. L + 1, j \in 1 .. L + 1, l \in 1 .. L + 1 :
        i = m + 1 /\ j = h + 1 /\ l = o + 2
  BY <1>1
<1>3. PICK a \in Nat, c \in Nat, e \in Nat : a = at[i] /\ c = at[j] /\ e = at[l]
  BY <1>1 DEF Rising
<1>4. a + (j - i) <= c /\ c + (l - j) <= e
  <2>1. i \in 1 .. j /\ j \in 1 .. l
    BY <1>2
  <2> QED
    BY <1>1, <1>3, <2>1 DEF Rising
<1>5. a < c + 1 /\ c + 1 <= e
  BY <1>2, <1>4
<1> QED
  BY <1>2, <1>3, <1>5 DEF SameRow

PartsAt(cells, k, tag, parts, q) == \A j \in 1 .. q : cells[k + j] = WordCells(tag, parts)[j]

OnOneLine(q, at, m, o) == q > 1 => at[m + 1] \div Columns = at[o + 2] \div Columns

LEMMA PartsPut ==
  ASSUME NEW disk, NEW n, NEW b, NEW f, NEW first, Rounding(disk, n, b, f, first),
         NEW at, NEW chars, NEW L, Sheet(at, chars, L),
         NEW r, r \in Nat, NEW k, k \in Nat, NEW page, StateIs(f[r], first, k, page),
         NEW m, m \in Nat, Shows(page, at, chars, m),
         NEW tag, tag \in {1, 3, 4, 7, 9, 10, 11}, NEW parts, IsParts(parts), AllInName(parts),
         NEW q, q \in Nat, q = Len(parts), k + q <= b, r + q <= b,
         PartsAt(disk[n], k, tag, parts, q),
         NEW w, w = FlattenSeq(parts), NEW o, o = m + Len(w), o + 1 <= L, Stands(chars, m, w),
         OnOneLine(q, at, m, o)
  PROVE  Pauses(f, first, r + q, k + q, at, chars, o)
<1>1. parts \in Seq(Seq(Letter)) /\ q >= 1 /\ b \in Nat
  BY LastAndFront DEF IsParts, Rounding
<1>2. PICK t \in [0 .. q -> Seq(Letter)] : FlattensTo(t, parts) /\ w = t[q]
  BY <1>1, FlattenIs
<1>3. \A j \in 1 .. q : StandsIn(w, t[j - 1], parts[j], t[j])
  BY <1>1, <1>2, FlattenPlace
<1>4. PICK at0 : at0 = [j \in 0 .. q |-> m + Len(t[j])]
  OBVIOUS
<1>5. at0[0] = m /\ at0[q] = o /\ o \in Nat /\ \A j \in 0 .. q : at0[j] \in Nat /\ m <= at0[j]
  <2>1. \A j \in 0 .. q : Len(t[j]) \in Nat
    BY <1>2
  <2>2. 0 \in 0 .. q /\ q \in 0 .. q
    OBVIOUS
  <2>3. Len(t[0]) = 0
    <3>1. t[0] = <<>>
      BY <1>2 DEF FlattensTo
    <3> QED
      BY <3>1
  <2>4. at0[0] = m /\ at0[q] = o
    <3>1. at0[0] = m + Len(t[0]) /\ at0[q] = m + Len(t[q])
      BY <1>4, <2>2
    <3>2. at0[q] = o
      BY <1>2, <3>1
    <3> QED
      BY <2>3, <3>1, <3>2
  <2>5. ASSUME NEW j \in 0 .. q PROVE at0[j] \in Nat /\ m <= at0[j]
    <3>1. Len(t[j]) \in Nat /\ at0[j] = m + Len(t[j])
      BY <1>4, <2>1
    <3> QED
      BY <3>1
  <2> QED
    BY <2>2, <2>4, <2>5
<1>6. ASSUME NEW j \in 1 .. q
      PROVE  /\ PartStands(chars, m, w, t[j - 1], parts[j], at0[j - 1], at0[j])
             /\ PartOf(disk[n][k + j], IF j = 1 THEN tag ELSE 0, parts[j])
  <2>1. j - 1 \in 0 .. q /\ j \in 0 .. q /\ j \in 1 .. Len(parts)
    OBVIOUS
  <2>2. PICK u, v, x : u = t[j - 1] /\ v = parts[j] /\ x = t[j]
    OBVIOUS
  <2>3. StandsIn(w, u, v, x)
    BY <1>3, <2>2
  <2>4. PartStands(chars, m, w, u, v, m + Len(u), m + Len(x))
    BY <2>3, PartStandsIn
  <2>5. at0[j - 1] = m + Len(u) /\ at0[j] = m + Len(x)
    BY <1>4, <2>1, <2>2
  <2>6. v \in Seq(Letter) /\ InName(v)
    BY <1>1, <2>1, <2>2 DEF AllInName
  <2>7. disk[n][k + j] = NameCell(IF j = 1 THEN tag ELSE 0, Pack(v))
    BY <2>2 DEF WordCells, PartsAt
  <2> QED
    BY <2>2, <2>4, <2>5, <2>6, <2>7 DEF PartOf
<1> DEFINE comes(j) == Pauses(f, first, r + j, k + j, at, chars, at0[j])
           S == {d \in Nat : d + 1 <= q => comes(d + 1)}
<1>7. comes(1)
  <2>1. 1 \in 1 .. q /\ 1 - 1 = 0 /\ k < b /\ r + 1 <= b
    BY <1>1
  <2>2. PICK v : v = parts[1]
    OBVIOUS
  <2>3. PICK h : h = at0[1]
    OBVIOUS
  <2>4. PartStands(chars, m, w, t[0], v, m, h) /\ PartOf(disk[n][k + 1], tag, v)
    BY <1>5, <1>6, <2>1, <2>2, <2>3
  <2>5. h = m + Len(v) /\ h + 1 <= L /\ Stands(chars, m, v)
    <3>1. h <= o /\ h \in Nat /\ L \in Nat
      <4>1. h \in Nat
        BY <1>5, <2>1, <2>3
      <4>2. h <= o
        BY <1>5, <2>4 DEF PartStands
      <4> QED
        BY <4>1, <4>2 DEF Sheet
    <3> QED
      BY <1>5, <2>4, <3>1 DEF PartStands
  <2>6. Pauses(f, first, r + 1, k + 1, at, chars, h)
    <3>1. Rounding(disk, n, b, f, first) /\ Sheet(at, chars, L) /\ StateIs(f[r], first, k, page)
      OBVIOUS
    <3>2. Shows(page, at, chars, m) /\ tag \in {1, 3, 4, 7, 9, 10, 11} /\ r \in Nat /\ k \in Nat /\ m \in Nat
      OBVIOUS
    <3>3. r + 1 <= b /\ k < b /\ PartOf(disk[n][k + 1], tag, v)
      BY <2>1, <2>4
    <3> QED
      BY ONLY <2>5, <3>1, <3>2, <3>3, FirstPart, Zenon
  <2> QED
    BY <2>3, <2>6
<1>8. ASSUME NEW e \in Nat \ {0}, e + 1 <= q, comes(e) PROVE comes(e + 1)
  <2>1. PICK r1 \in Nat, k1 \in Nat, i \in 1 .. q :
          /\ r1 = r + e /\ k1 = k + e /\ i = e + 1 /\ i - 1 = e /\ i # 1
          /\ r1 + 1 <= b /\ k1 < b /\ r1 + 1 = r + i /\ k1 + 1 = k + i
    <3> HIDE DEF comes
    <3>1. e \in Nat /\ e # 0 /\ e + 1 <= q
      BY <1>8
    <3> QED
      BY <1>1, <3>1
  <2>2. PICK v, g, h : v = parts[i] /\ g = at0[e] /\ h = at0[i]
    OBVIOUS
  <2>3. PartStands(chars, m, w, t[e], v, g, h) /\ PartOf(disk[n][k1 + 1], 0, v)
    BY <1>6, <2>1, <2>2
  <2>4. g \in Nat /\ m <= g /\ h = g + Len(v) /\ h <= o /\ h \in Nat /\ Stands(chars, g, v)
    <3>1. g \in Nat /\ m <= g /\ h \in Nat
      <4>1. e \in 0 .. q /\ i \in 0 .. q
        <5>1. e \in Nat /\ i \in 1 .. q /\ i - 1 = e /\ q \in Nat
          BY <2>1
        <5> QED
          BY ONLY <5>1
      <4> QED
        BY <1>5, <2>2, <4>1
    <3> QED
      BY <2>3, <3>1 DEF PartStands
  <2>5. h + 1 <= L /\ g <= o
    <3>1. Len(v) \in Nat /\ L \in Nat
      BY <2>3 DEF PartOf, Sheet
    <3>2. g \in Nat /\ h = g + Len(v) /\ h <= o /\ h \in Nat /\ o \in Nat
      BY <1>5, <2>4
    <3>3. o + 1 <= L
      OBVIOUS
    <3> QED
      BY ONLY <3>1, <3>2, <3>3
  <2>6. SameRow(at[m + 1], at[g + 1] + 1, at[o + 2])
    <3>1. q > 1
      <4>1. i \in 1 .. q /\ i # 1 /\ q \in Nat
        BY <2>1
      <4> QED
        BY ONLY <4>1
    <3>2. at[m + 1] \div Columns = at[o + 2] \div Columns
      BY <3>1 DEF OnOneLine
    <3> QED
      BY <1>5, <2>4, <2>5, <3>2, RowOfPart
  <2>7. PICK p, a, z : p = at[g + 1] + 1 /\ a = at[m + 1] /\ z = at[o + 2] /\ SameRow(a, p, z)
    BY <2>6
  <2>8. Pauses(f, first, r1, k1, at, chars, g)
    BY <1>8, <2>1, <2>2
  <2>9. Pauses(f, first, r1 + 1, k1 + 1, at, chars, h)
    BY <2>1, <2>3, <2>4, <2>5, <2>7, <2>8, NextPart
  <2> QED
    BY <2>1, <2>2, <2>9
<1> HIDE DEF comes
<1>9. 0 \in S
  BY <1>7
<1>10. ASSUME NEW d \in Nat, d \in S PROVE d + 1 \in S
  <2> SUFFICES ASSUME (d + 1) + 1 <= q PROVE comes((d + 1) + 1)
    OBVIOUS
  <2>1. d + 1 \in Nat \ {0} /\ comes(d + 1)
    BY <1>10
  <2> QED
    BY <1>8, <2>1
<1> HIDE DEF S
<1>11. q - 1 \in S
  <2>1. q - 1 \in Nat
    BY <1>1
  <2> QED
    BY <1>9, <1>10, <2>1, Induct
<1>12. comes(q)
  <2>1. (q - 1) + 1 = q
    OBVIOUS
  <2> QED
    BY <1>11, <2>1 DEF S
<1> QED
  BY <1>5, <1>12 DEF comes

(* A word of several parts stands on one line, the characters after a up   *)
(* to c.                                                                   *)
OneRow(x, at, a, c) ==
  Len(Parts(x.param)) > 1 =>
    x.f # "compiler_feedback" /\ at[a + 1] \div Columns = at[c + 1] \div Columns

LEMMA OtherLine ==
  ASSUME NEW a \in Nat
  PROVE  a \div Columns # Behind(a, Newline) \div Columns
<1>1. PICK C \in Nat : C = Columns /\ C >= 2
  BY Layout
<1>2. PICK q \in Nat : q = a \div C
  <2>1. C \in Nat \ {0}
    BY <1>1
  <2> QED
    BY <2>1, Division
<1>3. PICK k \in Nat : k = q + 1
  OBVIOUS
<1>4. PICK w \in Nat : w = k * C
  BY <1>1
<1>5. Behind(a, Newline) = w
  BY <1>1, <1>2, <1>3, <1>4 DEF Behind
<1>6. w \div C = k
  <2>1. C > 0 /\ k * C <= w /\ w < k * C + C
    BY <1>1, <1>4
  <2> QED
    BY <1>1, <2>1, QuotientIs
<1> QED
  BY <1>1, <1>2, <1>3, <1>5, <1>6

LEMMA PlainTags ==
  ASSUME NEW x, x.f \in DOMAIN Tags \ (LongNumber \cup ShortNumber), x.f # "variable"
  PROVE  /\ x.f = "compiler_feedback" => Tags[x.f] = 13
         /\ x.f = "display_macro" => Tags[x.f] = 14
         /\ x.f \notin {"compiler_feedback", "display_macro"} => Tags[x.f] \in {1, 3, 4, 7, 9, 10, 11}
<1>1. x.f \in {"execute", "define", "compileword", "compilemacro", "text", "textcapitalized",
               "textallcaps", "compiler_feedback", "display_macro"}
  BY TagsAre DEF LongNumber, ShortNumber
<1>2. PICK tag : tag = Tags[x.f]
  OBVIOUS
<1>3. /\ x.f = "execute" => tag = 1
      /\ x.f = "define" => tag = 3
      /\ x.f = "compileword" => tag = 4
      /\ x.f = "compilemacro" => tag = 7
      /\ x.f = "text" => tag = 9
      /\ x.f = "textcapitalized" => tag = 10
      /\ x.f = "textallcaps" => tag = 11
      /\ x.f = "compiler_feedback" => tag = 13
      /\ x.f = "display_macro" => tag = 14
  BY <1>2 DEF Tags
<1> QED
  BY <1>1, <1>2, <1>3

(* The cells of a word of the text. *)
WordNext(cells, parts, tag, q, k) ==
  /\ IsParts(parts) /\ AllInName(parts) /\ q = Len(parts) /\ q >= 1
  /\ \A j \in 1 .. q : cells[k + j] = WordCells(tag, parts)[j]
  /\ PartOf(cells[k + 1], tag, parts[1])

LEMMA NextWord ==
  ASSUME NEW cells, NEW f, NEW first, NEW block, NEW p, NEW at, NEW chars, NEW e, NEW L, NEW b,
         NEW i, NEW r, NEW k, NEW q, NEW m, NEW cs, NEW w, NEW page,
         EntryNext(cells, f, first, block, p, at, chars, e, L, b, i, r, k, q, m, cs, w, page),
         NEW x, x = block[i + 1], ~IsNumberEntry(block, i + 1), x.param \in Seq(Letter),
         NEW parts, parts = Parts(x.param)
  PROVE  WordNext(cells, parts, Tags[x.f], q, k) /\ FlattenSeq(parts) = x.param
<1>1. q \in Nat /\ q = Len(cs) /\ (\A j \in 1 .. q : cells[k + j] = cs[j]) /\ CellsAre(block, i + 1, cs)
  BY DEF EntryNext
<1>2. IsParts(parts) /\ AllInName(parts) /\ FlattenSeq(parts) = x.param
  BY PartsOfWord
<1>3. PICK tag : tag = Tags[x.f]
  OBVIOUS
<1>4. cs = WordCells(tag, parts)
  BY <1>1, <1>3 DEF CellsAre
<1>5. q = Len(parts) /\ q >= 1
  <2>1. Len(WordCells(tag, parts)) = Len(parts)
    BY <1>2, WordCellsTuple
  <2>2. parts # <<>> /\ parts \in Seq(Seq(Letter))
    BY <1>2 DEF IsParts
  <2>3. Len(parts) # 0
    BY <2>2
  <2> QED
    BY <1>1, <1>4, <2>1, <2>3
<1>6. PICK v : v = parts[1]
  OBVIOUS
<1>7. v \in Seq(Letter) /\ InName(v)
  <2>1. 1 \in 1 .. Len(parts) /\ parts \in Seq(Seq(Letter))
    BY <1>1, <1>2, <1>5 DEF IsParts
  <2> QED
    BY <1>2, <1>6, <2>1 DEF AllInName
<1>8. cells[k + 1] = NameCell(tag, Pack(v))
  <2>1. 1 \in 1 .. q
    BY <1>1, <1>5
  <2>2. WordCells(tag, parts)[1] = NameCell(tag, Pack(v))
    BY <1>5, <1>6, <2>1 DEF WordCells
  <2> QED
    BY <1>1, <1>4, <2>1, <2>2
<1> QED
  BY <1>1, <1>2, <1>3, <1>4, <1>5, <1>6, <1>7, <1>8 DEF WordNext, PartOf

LEMMA WordPrinted ==
  ASSUME NEW disk, NEW n, NEW b, NEW f, NEW first, NEW block, NEW es, NEW p, NEW N, NEW at,
         NEW chars, NEW e, NEW L, Setting(disk, n, b, f, first, block, es, p, N, at, chars, e, L),
         NEW i \in Nat, i + 1 <= N, Printed(f, first, p, at, chars, e, i),
         NEW x, x = block[i + 1], x.f \in DOMAIN Tags, x.f # "variable", ~IsNumberEntry(block, i + 1),
         x.param \in Seq(Letter), OneRow(x, at, e[i], e[i + 1])
  PROVE  Printed(f, first, p, at, chars, e, i + 1)
<1>1. PICK r, k, q, m, cs, w, page :
        EntryNext(disk[n], f, first, block, p, at, chars, e, L, b, i, r, k, q, m, cs, w, page)
  BY NextEntry
<1>2. /\ r \in Nat /\ k \in Nat /\ q \in Nat /\ m \in Nat
      /\ StateIs(f[r], first, k, page) /\ Shows(page, at, chars, m)
      /\ r <= k /\ p[i + 1] = k + q /\ k + q <= b /\ w = Shown(block, i + 1) /\ Len(w) \in Nat
      /\ m = e[i] /\ e[i + 1] = m + Len(w) /\ m + Len(w) <= L /\ Stands(chars, m, w)
  BY <1>1 DEF EntryNext
<1>3. b \in Nat /\ Rounding(disk, n, b, f, first) /\ Sheet(at, chars, L) /\ L \in Nat
  BY DEF Setting, Rounding, Sheet
<1>4. PICK parts : parts = Parts(x.param)
  OBVIOUS
<1>5. PICK tag : tag = Tags[x.f]
  OBVIOUS
<1>6. WordNext(disk[n], parts, tag, q, k) /\ FlattenSeq(parts) = x.param
  BY <1>1, <1>4, <1>5, NextWord
<1>7. /\ IsParts(parts) /\ AllInName(parts) /\ q = Len(parts) /\ q >= 1
      /\ \A j \in 1 .. q : disk[n][k + j] = WordCells(tag, parts)[j]
      /\ PartOf(disk[n][k + 1], tag, parts[1])
  BY <1>6 DEF WordNext
<1>8. /\ x.f = "compiler_feedback" => tag = 13
      /\ x.f = "display_macro" => tag = 14
      /\ x.f \notin {"compiler_feedback", "display_macro"} => tag \in {1, 3, 4, 7, 9, 10, 11}
  <2>1. x.f \in DOMAIN Tags \ (LongNumber \cup ShortNumber)
    BY DEF IsNumberEntry
  <2> QED
    BY <1>5, <2>1, PlainTags
<1>9. q > 1 => x.f # "compiler_feedback" /\ at[m + 1] \div Columns = at[m + Len(w) + 1] \div Columns
  BY <1>2, <1>4, <1>7 DEF OneRow
<1>10. PICK c : c = disk[n][k + 1] /\ c.color = tag
  BY <1>7, PartIs
<1>11. k < b /\ r + 1 <= b /\ r + q <= b /\ r + q \in 0 .. p[i + 1] /\ r + 1 \in 0 .. p[i + 1]
  <2>1. /\ r \in Nat /\ k \in Nat /\ q \in Nat /\ q >= 1 /\ b \in Nat
        /\ r <= k /\ k + q <= b /\ p[i + 1] = k + q
    BY <1>2, <1>3, <1>7
  <2> QED
    BY ONLY <2>1
<1>12. PICK h \in Nat : h = k + 1
  BY <1>2
<1>13. PICK d : d = CellAt(disk, first + h)
  OBVIOUS
<1>14. PICK z : RoundDraws(f, disk, first, r, k, c, d, page, z)
  BY <1>2, <1>3, <1>10, <1>11, <1>12, <1>13, RoundAt
<1>15. q = 1 /\ tag \in {13, 14} => StateIs(f[r + 1], first, p[i + 1], DisplayWord(page, disk, z))
  <2>1. tag \in {13, 14} => c.color \notin {2, 5, 12}
    BY <1>10
  <2>2. tag \in {13, 14} => StateIs(f[r + 1], first, k + 1, DisplayWord(page, disk, z))
    BY <1>14, <2>1 DEF RoundDraws
  <2> QED
    BY <1>2, <2>2
<1>16. CASE x.f = "compiler_feedback"
  <2>1. q = 1 /\ tag = 13
    BY <1>7, <1>8, <1>9, <1>16
  <2>2. w = <<>>
    BY <1>2, <1>16 DEF Shown
  <2>3. e[i + 1] = m
    BY <1>2, <2>2
  <2>4. DisplayWord(page, disk, z) = page
    BY <1>10, <1>14, <2>1 DEF RoundDraws, Displays
  <2>5. StateIs(f[r + 1], first, p[i + 1], page)
    BY <1>15, <2>1, <2>4
  <2> QED
    BY <1>2, <1>11, <2>3, <2>5 DEF Printed
<1>17. CASE x.f = "display_macro"
  <2>1. w = <<Newline>>
    BY <1>2, <1>17 DEF Shown
  <2>2. Len(w) = 1 /\ chars[m + 1] = Newline /\ m + 1 <= L
    <3>1. Len(w) = 1 /\ w[1] = Newline
      BY <2>1, OneCharacter
    <3>2. 1 \in 1 .. Len(w)
      BY <3>1
    <3> QED
      BY <1>2, <3>1, <3>2 DEF Stands
  <2>3. q = 1
    <3>1. m + 1 \in 1 .. L + 1 /\ m + 1 \in 1 .. L
      <4>1. m \in Nat /\ L \in Nat /\ m + 1 <= L
        BY <1>2, <1>3, <2>2
      <4> QED
        BY ONLY <4>1
    <3>2. PICK a \in Nat : a = at[m + 1]
      BY <1>3, <3>1, SheetPlaces
    <3>3. at[m + 1 + 1] = Behind(a, Newline)
      BY <1>3, <2>2, <3>1, <3>2 DEF Sheet, PlacesTo
    <3>4. at[m + 1 + 1] \div Columns # at[m + 1] \div Columns
      BY <3>2, <3>3, OtherLine
    <3>5. m + Len(w) + 1 = m + 1 + 1
      BY <2>2
    <3>6. ~(q > 1)
      BY <1>9, <3>4, <3>5
    <3>7. q \in Nat /\ q >= 1
      BY <1>2, <1>7
    <3> QED
      BY ONLY <3>6, <3>7
  <2>4. DisplayWord(page, disk, z) = Write(page, <<Newline>>)
    BY <1>8, <1>10, <1>14, <1>17 DEF RoundDraws, Displays
  <2>5. StateIs(f[r + 1], first, p[i + 1], Write(page, <<Newline>>))
    BY <1>8, <1>15, <1>17, <2>3, <2>4
  <2>6. Shows(Write(page, <<Newline>>), at, chars, e[i + 1])
    <3>1. Shows(Write(page, <<Newline>>), at, chars, m + 1)
      BY <1>2, <1>3, <2>2, LineEnds
    <3> QED
      BY <1>2, <2>2, <3>1
  <2> QED
    BY <1>11, <2>5, <2>6 DEF Printed
<1>18. CASE x.f \notin {"compiler_feedback", "display_macro"}
  <2>1. PICK v : v = x.param
    OBVIOUS
  <2>2. w = v \o <<Space>>
    BY <1>2, <1>18, <2>1 DEF Shown
  <2>3. v \in Seq(Nat)
    <3>1. Letter \subseteq Nat
      BY DEF Letter
    <3> QED
      BY <2>1, <3>1, LargerSeq
  <2>4. PICK l \in Nat : /\ l = Len(v) /\ Len(w) = l + 1 /\ w[l + 1] = Space
                         /\ \A j \in 1 .. l : w[j] = v[j]
    BY <2>2, <2>3, BlankBehind DEF Space
  <2>5. PICK o \in Nat : o = m + l /\ o + 1 <= L /\ e[i + 1] = o + 1 /\ m + Len(w) + 1 = o + 2
    <3>1. m \in Nat /\ l \in Nat /\ L \in Nat /\ Len(w) = l + 1 /\ e[i + 1] = m + Len(w) /\ m + Len(w) <= L
      BY <1>2, <1>3, <2>4
    <3>2. m + l \in Nat /\ m + l + 1 <= L /\ e[i + 1] = m + l + 1 /\ m + Len(w) + 1 = m + l + 2
      BY ONLY <3>1
    <3> QED
      BY <3>2
  <2>6. Stands(chars, m, v)
    <3>1. \A j \in 1 .. l : j \in 1 .. Len(w)
      BY <2>4
    <3> QED
      BY <1>2, <2>4, <3>1 DEF Stands
  <2>7. chars[o + 1] = Space
    <3>1. l + 1 \in 1 .. Len(w)
      BY <2>4
    <3>2. chars[m + (l + 1)] = Space
      BY <1>2, <2>4, <3>1 DEF Stands
    <3>3. m \in Nat /\ l \in Nat /\ o = m + l
      BY <1>2, <2>4, <2>5
    <3>4. m + (l + 1) = o + 1
      BY ONLY <3>3
    <3> QED
      BY <3>2, <3>4
  <2>8. tag \in {1, 3, 4, 7, 9, 10, 11}
    BY <1>8, <1>18
  <2>9. Pauses(f, first, r + q, k + q, at, chars, o)
    <3>1. OnOneLine(q, at, m, o)
      BY <1>9, <2>5 DEF OnOneLine
    <3>2. v = FlattenSeq(parts) /\ o = m + Len(v) /\ o + 1 <= L
      BY <1>6, <2>1, <2>4, <2>5
    <3>3. r \in Nat /\ k \in Nat /\ q \in Nat /\ m \in Nat /\ k + q <= b /\ r + q <= b
      BY <1>2, <1>11
    <3>4. StateIs(f[r], first, k, page) /\ Shows(page, at, chars, m)
      BY <1>2
    <3>5. /\ IsParts(parts) /\ AllInName(parts) /\ q = Len(parts)
          /\ PartsAt(disk[n], k, tag, parts, q)
      BY <1>7 DEF PartsAt
    <3>6. Rounding(disk, n, b, f, first) /\ Sheet(at, chars, L)
      BY <1>3
    <3> QED
      BY ONLY <2>6, <2>8, <3>1, <3>2, <3>3, <3>4, <3>5, <3>6, PartsPut, ZenonT(60)
  <2>10. PICK page1 : StateIs(f[r + q], first, k + q, page1) /\ Paused(page1, at, chars, o)
    BY <2>9 DEF Pauses
  <2>11. Shows(page1, at, chars, o + 1)
    BY <1>3, <2>5, <2>7, <2>10, BlankCounts
  <2> QED
    BY <1>2, <1>11, <2>5, <2>10, <2>11 DEF Printed
<1> QED
  BY <1>16, <1>17, <1>18

(* The name of a variable is short enough to leave the hexadecimal bit of  *)
(* its value alone.                                                        *)
LEMMA NameHex ==
  ASSUME NEW w \in Seq(Letter), Len(Coded(w)) < NameBits, NEW tag, NEW c, c = NameCell(tag, Pack(w))
  PROVE  HexBit(c) = 0 /\ InName(w) /\ PartOf(c, tag, w) /\ Parts(w) = <<w>> /\ IsParts(Parts(w))
<1>1. PICK b : b = Coded(w) /\ b \in Seq(Bit)
  BY CodedBits
<1>2. PICK l \in Nat : l = Len(b) /\ l < NameBits
  BY <1>1
<1>3. Pad(b)[NameBits] = 0
  <2>1. NameBits \in 1 .. NameBits /\ ~(NameBits <= Len(b))
    BY <1>2 DEF NameBits
  <2> QED
    BY <1>1, <2>1, PadIs
<1>4. HexBit(c) = Pack(w)[NameBits]
  BY DEF HexBit, NameCell
<1>5. InName(w)
  <2>1. NameBits + 1 .. Len(Coded(w)) = {}
    BY <1>1, <1>2 DEF NameBits
  <2> QED
    BY <2>1 DEF InName
<1>6. Parts(w) = <<w>> /\ IsParts(Parts(w))
  <2>1. Len(Coded(w)) <= NameBits
    BY <1>1, <1>2 DEF NameBits
  <2> QED
    BY <2>1, PartsOfWord
<1> QED
  BY <1>1, <1>3, <1>4, <1>5, <1>6 DEF Pack, PartOf

(* Two texts one behind the other are one text. *)
OneText(chars, m, w, v, c, g) ==
  /\ WithBlank(w \o v, w \o c) /\ Stands(chars, m, w \o v)
  /\ Len(w \o v) \in Nat /\ m + Len(w \o v) = g + Len(v)

LEMMA TwoTexts ==
  ASSUME NEW chars, NEW m, m \in Nat, NEW a, a \in Seq(Nat), NEW c, c \in Seq(Nat),
         NEW w, WithBlank(w, a), NEW v, WithBlank(v, c),
         Stands(chars, m, w), NEW g, g = m + Len(w), Stands(chars, g, v)
  PROVE  OneText(chars, m, w, v, c, g)
<1>1. w \in Seq(Nat) /\ v \in Seq(Nat) /\ v = c \o <<Space>>
  BY BlankBehind DEF WithBlank
<1>2. PICK z \in Seq(Nat) : z = <<Space>>
  <2>1. <<0>> \in Seq(Nat)
    OBVIOUS
  <2> QED
    BY <2>1 DEF Space
<1>3. w \o (c \o z) = (w \o c) \o z /\ w \o c \in Seq(Nat)
  <2>1. w \in Seq(Nat) /\ c \in Seq(Nat) /\ z \in Seq(Nat)
    BY <1>1, <1>2
  <2> QED
    BY ONLY <2>1
<1>4. PICK x : x = w \o v
  OBVIOUS
<1>5. PICK l \in Nat, q \in Nat : /\ l = Len(w) /\ q = Len(v) /\ Len(x) = l + q
                                  /\ \A j \in 1 .. l : x[j] = w[j]
                                  /\ \A j \in 1 .. q : x[l + j] = v[j]
  <2>1. Len(w) \in Nat /\ Len(v) \in Nat /\ Len(x) = Len(w) + Len(v)
    BY <1>1, <1>4
  <2>2. \A j \in 1 .. Len(w) : x[j] = w[j]
    BY <1>1, <1>4
  <2>3. \A j \in 1 .. Len(v) : x[Len(w) + j] = v[j]
    BY <1>1, <1>4
  <2>4. PICK l \in Nat, q \in Nat : l = Len(w) /\ q = Len(v)
    BY ONLY <2>1
  <2> QED
    BY ONLY <2>1, <2>2, <2>3, <2>4, Zenon
<1>6. ASSUME NEW j \in 1 .. l + q PROVE chars[m + j] = x[j]
  <2>1. CASE j <= l
    <3>1. j \in 1 .. l
      BY <2>1
    <3> QED
      BY <1>5, <3>1 DEF Stands
  <2>2. CASE ~(j <= l)
    <3>1. PICK i \in 1 .. q : j = l + i
      <4>1. j - l \in 1 .. q /\ j = l + (j - l)
        BY <2>2
      <4> QED
        BY <4>1
    <3>2. chars[g + i] = v[i]
      BY <1>5, <3>1 DEF Stands
    <3>3. g + i = m + j
      <4>1. g = m + l /\ m \in Nat /\ l \in Nat /\ i \in Nat /\ j = l + i
        BY <1>5, <3>1
      <4> QED
        BY ONLY <4>1
    <3> QED
      BY <1>5, <3>1, <3>2, <3>3
  <2> QED
    BY <2>1, <2>2
<1>7. m + Len(x) = g + Len(v)
  BY <1>5
<1>8. Stands(chars, m, x)
  BY <1>5, <1>6 DEF Stands
<1>9. WithBlank(w \o v, w \o c)
  BY <1>1, <1>2, <1>3 DEF WithBlank
<1>10. Len(x) \in Nat
  BY <1>5
<1> QED
  BY ONLY <1>4, <1>7, <1>8, <1>9, <1>10 DEF OneText

LEMMA VariablePrinted ==
  ASSUME NEW disk, NEW n, NEW b, NEW f, NEW first, NEW block, NEW es, NEW p, NEW N, NEW at,
         NEW chars, NEW e, NEW L, Setting(disk, n, b, f, first, block, es, p, N, at, chars, e, L),
         NEW i \in Nat, i + 2 <= N, Printed(f, first, p, at, chars, e, i),
         NEW x, x = block[i + 1], x.f = "variable", ~IsNumberEntry(block, i + 1),
         x.param \in Seq(Letter), Len(Coded(x.param)) < NameBits,
         NEW v, v = block[i + 2], v.f = "compileword", v.hex = 0, v.param \in Int, NumberFits(v)
  PROVE  Printed(f, first, p, at, chars, e, i + 2)
<1>1. PICK h \in Nat : h = i + 1 /\ h + 1 = i + 2 /\ i + 1 <= N /\ h <= N /\ h + 1 <= N /\ h > 0
  <2>1. N \in Nat
    BY DEF Setting
  <2> QED
    BY <2>1
<1>2. PICK r, k, q, m, cs, w, page :
        EntryNext(disk[n], f, first, block, p, at, chars, e, L, b, i, r, k, q, m, cs, w, page)
  BY <1>1, NextEntry
<1>3. /\ r \in Nat /\ k \in Nat /\ q \in Nat /\ m \in Nat
      /\ StateIs(f[r], first, k, page) /\ Shows(page, at, chars, m)
      /\ r <= k /\ p[h] = k + q /\ w = Shown(block, h) /\ Len(w) \in Nat
      /\ e[h] = m + Len(w) /\ Stands(chars, m, w)
  BY <1>1, <1>2 DEF EntryNext
<1>4. b \in Nat /\ b = BlockCells /\ Rounding(disk, n, b, f, first) /\ Sheet(at, chars, L) /\ L \in Nat
  BY DEF Setting, Rounding, Sheet
<1>5. PICK name : name = x.param
  OBVIOUS
<1>6. PICK parts : parts = Parts(name)
  OBVIOUS
<1>7. Tags["variable"] = 12
  BY DEF Tags
<1>8. WordNext(disk[n], parts, 12, q, k)
  <2>1. WordNext(disk[n], parts, Tags[x.f], q, k)
    BY <1>2, <1>5, <1>6, NextWord
  <2> QED
    BY <1>7, <2>1
<1>9. PICK c : c = disk[n][k + 1]
  OBVIOUS
<1>10. q = 1 /\ c = NameCell(12, Pack(name))
  <2>1. parts = <<name>>
    BY <1>5, <1>6, NameHex
  <2>2. q = Len(parts) /\ PartOf(c, 12, parts[1])
    BY <1>8, <1>9 DEF WordNext
  <2>3. Len(parts) = 1 /\ parts[1] = name
    BY <2>1
  <2> QED
    BY <2>2, <2>3 DEF PartOf
<1>11. HexBit(c) = 0 /\ c.color = 12 /\ Unpack(NameOf(c)) = name /\ name \in Seq(Nat)
  <2>1. HexBit(c) = 0 /\ PartOf(c, 12, name)
    BY <1>5, <1>10, NameHex
  <2> QED
    BY <2>1, PartIs
<1>12. PICK ds : ds = es[h + 1]
  OBVIOUS
<1>13. PICK l, u : NextLaid(disk[n], block, p, h, b, ds, l, u)
  <2>1. N \in Nat /\ Laid(disk[n], block, es, p, N)
    BY DEF Setting
  <2> QED
    BY <1>1, <1>4, <1>12, <2>1, LaidNext
<1>14. PICK d : d = DataCell(v.param)
  OBVIOUS
<1>15. l = k + 1 /\ u = 1 /\ p[h + 1] = k + 2 /\ k + 2 <= b /\ disk[n][l + 1] = d
  <2>1. /\ l \in Nat /\ l = p[h] /\ u = Len(ds) /\ p[h + 1] = l + u /\ l + u <= b
        /\ \A j \in 1 .. u : disk[n][l + j] = ds[j]
        /\ CellsAre(block, h + 1, ds)
    BY <1>13 DEF NextLaid
  <2>2. ds = <<d>>
    <3>1. (h + 1) - 1 = h /\ h + 1 > 1 /\ block[h].f = "variable" /\ v = block[h + 1]
      BY <1>1
    <3> QED
      BY <1>14, <2>1, <3>1 DEF CellsAre
  <2>3. Len(ds) = 1 /\ ds[1] = d
    BY <2>2
  <2>4. 1 \in 1 .. u
    BY <2>1, <2>3
  <2>5. l = k + 1
    BY <1>3, <1>10, <2>1
  <2>6. k \in Nat /\ u = 1 /\ p[h + 1] = l + u /\ l + u <= b
    BY <1>3, <2>1, <2>3
  <2>7. disk[n][l + 1] = d
    BY <2>1, <2>3, <2>4
  <2>8. l + u = k + 2
    BY ONLY <2>5, <2>6
  <2> QED
    BY <2>5, <2>6, <2>7, <2>8
<1>16. PICK text : text = NumberText(v)
  OBVIOUS
<1>17. PrintNumber(NumberOf(d), 0) = text /\ text \in Seq(Nat)
  <2>1. PICK limit : limit = 2 ^ (CellBits - 1)
    OBVIOUS
  <2>2. v.param \in CellRange \ {-limit}
    BY <2>1 DEF NumberFits, ShortNumber
  <2>3. /\ v.hex \in {0, 1} /\ (v.hex = 1 => v.param \in -limit .. 2 * limit - 1)
        /\ (v.hex # 1 => v.param \in CellRange \ {-limit})
    BY <2>2
  <2>4. PrintNumber(NumberOf(DataCell(v.param)), v.hex) = NumberText(v) /\ NumberText(v) \in Seq(Nat)
    BY <2>1, <2>3, DataShown
  <2> QED
    BY <1>14, <1>16, <2>4
<1>18. k < b /\ r + 1 <= b
  BY <1>3, <1>4, <1>15
<1>19. PICK z : RoundDraws(f, disk, first, r, k, c, d, page, z)
  <2>1. PICK g \in Nat : g = k + 1 /\ g < b /\ g = l
    BY <1>3, <1>4, <1>15
  <2>2. d = CellAt(disk, first + g)
    <3>1. disk[n][g + 1] = d
      BY <1>15, <2>1
    <3>2. n \in Nat /\ b \in Nat /\ b = BlockCells /\ g \in Nat /\ g < b /\ first = n * b
      BY <1>4, <2>1 DEF Rounding
    <3>3. CellAt(disk, first + g) = disk[n][g + 1]
      BY ONLY <3>2, CellIs
    <3> QED
      BY <3>1, <3>3
  <2> QED
    BY <1>3, <1>4, <1>9, <1>18, <2>1, <2>2, RoundAt
<1>20. PICK w2 : w2 = Shown(block, h + 1)
  OBVIOUS
<1>21. w = name \o <<Space>> /\ w2 = text \o <<Space>>
  <2>1. x = block[h] /\ ~IsNumberEntry(block, h) /\ v = block[h + 1]
    BY <1>1
  <2>2. IsNumberEntry(block, h + 1)
    <3>1. (h + 1) - 1 = h /\ h + 1 > 1 /\ block[h].f = "variable"
      BY <1>1
    <3> QED
      BY <3>1 DEF IsNumberEntry
  <2>3. w = name \o <<Space>>
    BY <1>3, <1>5, <2>1 DEF Shown
  <2>4. w2 = text \o <<Space>>
    BY <1>16, <1>20, <2>1, <2>2 DEF Shown, NumberText
  <2> QED
    BY <2>3, <2>4
<1>22. PICK g \in Nat : g = e[h] /\ g = m + Len(w)
  BY <1>3
<1>23. e[h + 1] = g + Len(w2) /\ g + Len(w2) <= L /\ Stands(chars, g, w2)
  <2>1. PICK j \in 1 .. N : j = h + 1 /\ j - 1 = h
    <3>1. N \in Nat
      BY DEF Setting
    <3> QED
      BY <1>1, <3>1
  <2>2. SpeltBy(chars, block, e, L, N)
    BY DEF Setting
  <2>3. /\ e[j] = e[j - 1] + Len(Shown(block, j)) /\ e[j] <= L
        /\ Stands(chars, e[j - 1], Shown(block, j))
    BY <2>2 DEF SpeltBy
  <2> QED
    BY <1>20, <1>22, <2>1, <2>3
<1>24. /\ WithBlank(w \o w2, w \o text) /\ Stands(chars, m, w \o w2)
       /\ Len(w \o w2) \in Nat /\ m + Len(w \o w2) = g + Len(w2)
  <2>1. m \in Nat /\ name \in Seq(Nat) /\ text \in Seq(Nat) /\ WithBlank(w, name) /\ WithBlank(w2, text)
    BY <1>3, <1>11, <1>17, <1>21 DEF WithBlank
  <2>2. Stands(chars, m, w) /\ g = m + Len(w) /\ Stands(chars, g, w2)
    BY <1>3, <1>22, <1>23
  <2>3. OneText(chars, m, w, w2, text, g)
    BY ONLY <2>1, <2>2, TwoTexts
  <2> QED
    BY <2>3 DEF OneText
<1>25. PICK y : y = w \o w2
  OBVIOUS
<1>26. DisplayWord(page, disk, z) = Write(page, y)
  BY <1>11, <1>17, <1>19, <1>21, <1>25 DEF RoundDraws, Displays
<1>27. StateIs(f[r + 1], first, p[h + 1], Write(page, y))
  <2>1. StateIs(f[r + 1], first, k + 2, DisplayWord(page, disk, z))
    BY <1>11, <1>19 DEF RoundDraws
  <2> QED
    BY <1>15, <1>26, <2>1
<1>28. Shows(Write(page, y), at, chars, e[h + 1])
  <2>1. PICK o : o = m + Len(y) /\ o <= L /\ o = e[h + 1]
    BY <1>23, <1>24, <1>25
  <2> QED
    BY <1>3, <1>4, <1>24, <1>25, <2>1, WordReads
<1>29. r + 1 \in 0 .. p[h + 1]
  BY <1>3, <1>15
<1> QED
  BY <1>1, <1>27, <1>28, <1>29 DEF Printed

LEMMA NothingShown ==
  ASSUME NEW at, NEW chars, NEW L, Sheet(at, chars, L)
  PROVE  Shows(Clear, at, chars, 0)
<1>1. OnPage(Clear) /\ Clear.x = 0 /\ Clear.y = 0
  <2>1. Clear.x = 0 /\ Clear.y = 0 /\ Clear.led = 0
    BY DEF Clear
  <2> QED
    BY <2>1, SoundClear, Layout DEF OnPage
<1>2. Address(0, 0) = 0
  <2>1. PICK C \in Nat : C = Columns
    BY Layout
  <2> QED
    BY <2>1 DEF Address
<1>3. at[0 + 1] = 0
  BY DEF Sheet, PlacesTo
<1>4. Reads(Clear.text, at, chars, 0)
  BY DEF Reads, Clear
<1> QED
  BY <1>1, <1>2, <1>3, <1>4 DEF Shows

(* What the page asks of the entries. *)
Legible(block, at, e, N) ==
  \A i \in 1 .. N :
    IF IsNumberEntry(block, i) THEN NumberFits(block[i]) ELSE OneRow(block[i], at, e[i - 1], e[i])

LEMMA EntriesPrinted ==
  ASSUME NEW disk, NEW n, NEW b, NEW f, NEW first, NEW block, NEW es, NEW p, NEW N, NEW at,
         NEW chars, NEW e, NEW L, Setting(disk, n, b, f, first, block, es, p, N, at, chars, e, L),
         DOMAIN block = 1 .. N, WellFormed(block), Legible(block, at, e, N),
         \A i \in 1 .. N : block[i].f = "variable" => Len(Coded(block[i].param)) < NameBits
  PROVE  Printed(f, first, p, at, chars, e, N)
<1> DEFINE var(i) == i > 0 /\ block[i].f = "variable"
           fine(i) == Printed(f, first, p, at, chars, e, IF var(i) THEN i - 1 ELSE i)
<1>0. /\ N \in Nat /\ Rounding(disk, n, b, f, first) /\ Sheet(at, chars, L)
      /\ SpeltBy(chars, block, e, L, N) /\ Laid(disk[n], block, es, p, N)
  BY DEF Setting
<1>1. ASSUME NEW i \in 1 .. N
      PROVE  /\ block[i].f \in DOMAIN Tags /\ block[i].hex \in {0, 1}
             /\ block[i].hex = 1 => block[i].f \in LongNumber \cup ShortNumber
             /\ IsNumberEntry(block, i) => block[i].param \in Int /\ NumberFits(block[i])
             /\ ~IsNumberEntry(block, i) =>
                  block[i].param \in Seq(Letter) /\ OneRow(block[i], at, e[i - 1], e[i])
             /\ block[i].f = "variable" => i + 1 \in 1 .. N /\ block[i + 1].f = "compileword"
  BY DEF WellFormed, Legible
<1>2. fine(0)
  <2>1. p[0] = 0 /\ e[0] = 0
    BY <1>0 DEF Laid, SpeltBy
  <2>2. StateIs(f[0], first, p[0], Clear)
    <3>1. f[0] = First(n) /\ first = n * BlockCells /\ first \in Nat
      BY <1>0 DEF Rounding, Rounds
    <3> QED
      BY <2>1, <3>1 DEF StateIs, First
  <2>3. Shows(Clear, at, chars, e[0])
    BY <1>0, <2>1, NothingShown
  <2>4. 0 \in 0 .. p[0]
    BY <2>1
  <2>5. Printed(f, first, p, at, chars, e, 0)
    BY <2>2, <2>3, <2>4 DEF Printed
  <2> QED
    BY <2>5
<1>3. ASSUME NEW i \in Nat, i + 1 <= N, fine(i) PROVE fine(i + 1)
  <2>1. PICK h \in 1 .. N : h = i + 1 /\ h - 1 = i /\ h > 0
    BY <1>0, <1>3
  <2>2. CASE var(i)
    <3>1. PICK g \in Nat : g + 1 = i /\ i - 1 = g /\ g + 2 = h /\ g + 2 <= N /\ i \in 1 .. N
      BY <1>0, <1>3, <2>1, <2>2
    <3>2. Printed(f, first, p, at, chars, e, g)
      BY <1>3, <2>2, <3>1
    <3>3. block[i].f = "variable" /\ block[h].f = "compileword"
      BY <1>1, <2>1, <2>2, <3>1
    <3>4. ~IsNumberEntry(block, i) /\ IsNumberEntry(block, h)
      <4>1. ~(i > 1 /\ block[i - 1].f = "variable")
        <5>1. SUFFICES ASSUME i > 1, block[g].f = "variable" PROVE FALSE
          BY <3>1
        <5>2. g \in 1 .. N
          <6>1. N \in Nat /\ g \in Nat /\ g + 1 = i /\ i \in 1 .. N /\ i > 1
            BY <1>0, <3>1, <5>1
          <6> QED
            BY ONLY <6>1
        <5>3. block[g + 1].f = "compileword"
          BY <1>1, <5>1, <5>2
        <5> QED
          BY <3>1, <3>3, <5>3
      <4>2. block[i].f \notin LongNumber \cup ShortNumber
        BY <3>3 DEF LongNumber, ShortNumber
      <4>3. h > 1 /\ h - 1 = i
        BY <2>1, <3>1
      <4> QED
        BY <3>3, <4>1, <4>2, <4>3 DEF IsNumberEntry
    <3>5. block[i].param \in Seq(Letter) /\ Len(Coded(block[i].param)) < NameBits
      BY <1>1, <3>1, <3>3, <3>4
    <3>6. block[h].hex = 0 /\ block[h].param \in Int /\ NumberFits(block[h])
      <4>1. block[h].f \notin LongNumber \cup ShortNumber
        BY <3>3 DEF LongNumber, ShortNumber
      <4> QED
        BY <1>1, <3>4, <4>1
    <3>7. PICK x, v : x = block[i] /\ v = block[h]
      OBVIOUS
    <3>8. /\ x = block[g + 1] /\ v = block[g + 2] /\ x.f = "variable"
          /\ ~IsNumberEntry(block, g + 1) /\ x.param \in Seq(Letter)
          /\ Len(Coded(x.param)) < NameBits
          /\ v.f = "compileword" /\ v.hex = 0 /\ v.param \in Int /\ NumberFits(v)
      BY <3>1, <3>3, <3>4, <3>5, <3>6, <3>7
    <3>9. Printed(f, first, p, at, chars, e, g + 2)
      BY <3>1, <3>2, <3>8, VariablePrinted
    <3>10. Printed(f, first, p, at, chars, e, h) /\ ~var(h)
      BY <3>1, <3>3, <3>9
    <3> QED
      BY <2>1, <3>10
  <2>3. CASE ~var(i)
    <3>1. Printed(f, first, p, at, chars, e, i)
      BY <1>3, <2>3
    <3>2. CASE var(h)
      BY <2>1, <3>1, <3>2
    <3>3. CASE ~var(h)
      <4>1. PICK x : x = block[i + 1]
        OBVIOUS
      <4>2. x = block[h] /\ x.f # "variable" /\ x.f \in DOMAIN Tags /\ x.hex \in {0, 1}
        BY <1>1, <2>1, <3>3, <4>1
      <4>3. ~(h > 1 /\ block[h - 1].f = "variable")
        BY <2>1, <2>3
      <4>4. IsNumberEntry(block, h) <=> x.f \in LongNumber \cup ShortNumber
        BY <4>2, <4>3 DEF IsNumberEntry
      <4>5. CASE x.f \in LongNumber \cup ShortNumber
        <5>1. x.param \in Int /\ NumberFits(x)
          BY <1>1, <4>2, <4>4, <4>5
        <5>2. Printed(f, first, p, at, chars, e, i + 1)
          BY <1>3, <3>1, <4>1, <4>2, <4>5, <5>1, NumberPrinted
        <5> QED
          BY <2>1, <3>3, <5>2
      <4>6. CASE x.f \notin LongNumber \cup ShortNumber
        <5>1. x.param \in Seq(Letter) /\ OneRow(x, at, e[i], e[i + 1])
          BY <1>1, <2>1, <4>2, <4>4, <4>6
        <5>2. ~IsNumberEntry(block, i + 1)
          BY <2>1, <4>4, <4>6
        <5>3. Printed(f, first, p, at, chars, e, i + 1)
          BY <1>3, <3>1, <4>1, <4>2, <5>1, <5>2, WordPrinted
        <5> QED
          BY <2>1, <3>3, <5>3
      <4> QED
        BY <4>5, <4>6
    <3> QED
      BY <3>2, <3>3
  <2> QED
    BY <2>2, <2>3
<1> HIDE DEF fine
<1> DEFINE S == {i \in Nat : i <= N => fine(i)}
<1>4. 0 \in S
  BY <1>2
<1>5. ASSUME NEW i \in Nat, i \in S PROVE i + 1 \in S
  <2> SUFFICES ASSUME i + 1 <= N PROVE fine(i + 1)
    OBVIOUS
  <2>1. fine(i)
    BY <1>0, <1>5
  <2> QED
    BY <1>3, <2>1
<1> HIDE DEF S
<1>6. N \in S
  BY <1>0, <1>4, <1>5, Induct
<1>7. fine(N)
  BY <1>0, <1>6 DEF S
<1>8. ~var(N)
  <2>1. SUFFICES ASSUME N > 0, block[N].f = "variable" PROVE FALSE
    OBVIOUS
  <2>2. N \in 1 .. N /\ N + 1 \notin 1 .. N
    BY <1>0, <2>1
  <2> QED
    BY <1>1, <2>1, <2>2
<1> QED
  BY <1>7, <1>8 DEF fine

LEMMA RoundOver ==
  ASSUME NEW disk, NEW n, NEW b, NEW f, NEW first, Rounding(disk, n, b, f, first),
         NEW r, r \in Nat, r + 1 <= b, NEW k, k \in Nat, b <= k, NEW page, StateIs(f[r], first, k, page)
  PROVE  f[r + 1] = f[r]
<1>1. n \in Nat /\ b \in Nat /\ b = BlockCells /\ first = n * b /\ first \in Nat
  BY DEF Rounding
<1>2. f[r + 1] = Round(f[r], disk, n)
  <2>1. r + 1 \in 1 .. b /\ (r + 1) - 1 = r
    BY <1>1
  <2> QED
    BY <2>1 DEF Rounding, Rounds
<1>3. f[r].index >= (n + 1) * b
  <2>1. PICK z \in Nat : z = n * b /\ (n + 1) * b = z + b
    BY <1>1
  <2> QED
    BY <1>1, <2>1 DEF StateIs
<1> QED
  BY <1>1, <1>2, <1>3 DEF Round

(* The cells that are not used put a blank in the place of a blank.        *)
LEMMA RestPrinted ==
  ASSUME NEW disk, NEW n, NEW b, NEW f, NEW first, NEW block, NEW es, NEW p, NEW N, NEW at,
         NEW chars, NEW e, NEW L, Setting(disk, n, b, f, first, block, es, p, N, at, chars, e, L),
         Printed(f, first, p, at, chars, e, N), e[N] = L,
         L > 0 => chars[L] \in {Space, Newline}
  PROVE  Idle(f[b].page, at, chars, L)
<1>1. /\ N \in Nat /\ Rounding(disk, n, b, f, first) /\ Sheet(at, chars, L)
      /\ Laid(disk[n], block, es, p, N) /\ b \in Nat /\ b = BlockCells
  BY DEF Setting, Rounding
<1>2. PICK k0 \in Nat : k0 = p[N] /\ k0 <= b
  <2>1. N \in 0 .. N
    BY <1>1
  <2> QED
    BY <1>1, <2>1 DEF Laid
<1> DEFINE stays(s) == \E k \in Nat \ 0 .. k0 - 1 : \E page : StateIs(s, first, k, page) /\ Idle(page, at, chars, L)
<1>3. PICK r \in 0 .. k0 : \E page : StateIs(f[r], first, k0, page) /\ Shows(page, at, chars, L)
  BY <1>2 DEF Printed
<1>4. stays(f[r])
  <2>1. PICK page : StateIs(f[r], first, k0, page) /\ Shows(page, at, chars, L)
    BY <1>3
  <2>2. Idle(page, at, chars, L)
    BY <2>1, OnPageFacts DEF Shows, Idle, OnPage
  <2>3. k0 \in Nat \ 0 .. k0 - 1
    OBVIOUS
  <2> QED
    BY <2>1, <2>2, <2>3
<1>5. ASSUME NEW i \in Nat, i + 1 <= b, stays(f[i]) PROVE stays(f[i + 1])
  <2>1. PICK k \in Nat \ 0 .. k0 - 1 : \E page : StateIs(f[i], first, k, page) /\ Idle(page, at, chars, L)
    BY <1>5
  <2>2. PICK page : StateIs(f[i], first, k, page) /\ Idle(page, at, chars, L)
    BY <2>1
  <2>3. CASE b <= k
    <3>1. f[i + 1] = f[i]
      <4>1. Rounding(disk, n, b, f, first) /\ i \in Nat /\ i + 1 <= b /\ k \in Nat /\ b <= k
        BY <1>1, <1>5, <2>1, <2>3
      <4> QED
        BY ONLY <2>2, <4>1, RoundOver
    <3> HIDE DEF stays
    <3> QED
      BY <1>5, <3>1
  <2>4. CASE k < b
    <3>1. PICK h \in Nat : h = k + 1 /\ h \in k0 + 1 .. b /\ h \in Nat \ 0 .. k0 - 1
      BY <1>1, <2>1, <2>4
    <3>2. PICK c : c = disk[n][k + 1]
      OBVIOUS
    <3>3. c = NameCell(0, Zeroes(NameBits))
      BY <1>1, <1>2, <3>1, <3>2 DEF Laid, NoCell
    <3>4. c.color = 0 /\ NameOf(c) = Zeroes(NameBits)
      BY <3>3 DEF NameCell, NameOf
    <3>5. PICK d : d = CellAt(disk, first + h)
      OBVIOUS
    <3>6. PICK z : RoundDraws(f, disk, first, i, k, c, d, page, z)
      BY <1>1, <1>5, <2>2, <2>4, <3>1, <3>2, <3>5, RoundAt
    <3>7. Unpack(NameOf(c)) \o <<Space>> = <<Space>>
      <4>1. PICK blank \in Seq(Nat) : blank = <<Space>>
        <5>1. <<0>> \in Seq(Nat)
          OBVIOUS
        <5> QED
          BY <5>1 DEF Space
      <4>2. <<>> \o blank = blank
        OBVIOUS
      <4> QED
        BY <3>4, <4>1, <4>2, NothingInNoCell
    <3>8. DisplayWord(page, disk, z) = Write(OneLeft(page), <<Space>>)
      BY <3>4, <3>6, <3>7 DEF RoundDraws, Displays
    <3>9. PICK page1 : page1 = Write(OneLeft(page), <<Space>>)
      OBVIOUS
    <3>10. Idle(page1, at, chars, L)
      BY <1>1, <2>2, <3>9, IdleStays
    <3>11. StateIs(f[i + 1], first, h, page1)
      <4>1. c.color \notin {2, 5, 12}
        BY <3>4
      <4>2. StateIs(f[i + 1], first, k + 1, DisplayWord(page, disk, z))
        BY <3>6, <4>1 DEF RoundDraws
      <4> QED
        BY <3>1, <3>8, <3>9, <4>2
    <3> QED
      BY <3>1, <3>10, <3>11
  <2>5. b <= k \/ k < b
    BY <1>1, <2>1
  <2> QED
    BY <2>3, <2>4, <2>5
<1> HIDE DEF stays
<1> DEFINE S == {d \in Nat : r + d <= b => stays(f[r + d])}
<1>6. 0 \in S
  <2>1. r + 0 = r
    OBVIOUS
  <2> QED
    BY <1>4, <2>1
<1>7. ASSUME NEW d \in Nat, d \in S PROVE d + 1 \in S
  <2> SUFFICES ASSUME r + (d + 1) <= b PROVE stays(f[r + (d + 1)])
    OBVIOUS
  <2>1. PICK i \in Nat : i = r + d /\ i + 1 = r + (d + 1) /\ i + 1 <= b /\ i <= b
    BY <1>1
  <2>2. stays(f[i])
    BY <1>7, <2>1
  <2>3. stays(f[i + 1])
    BY <1>5, <2>1, <2>2
  <2> QED
    BY <2>1, <2>3
<1> HIDE DEF S
<1>8. stays(f[b])
  <2>1. PICK d \in Nat : d = b - r
    BY <1>1, <1>2
  <2>2. r + d = b
    BY <1>1, <2>1
  <2>3. d \in S
    BY <1>6, <1>7, Induct
  <2>4. b <= b
    BY <1>1
  <2> QED
    BY <2>2, <2>3, <2>4 DEF S
<1> QED
  BY <1>8 DEF stays, StateIs

-----------------------------------------------------------------------------
(* The characters of a block are those of its entries, and the last one is *)
(* a blank or begins a line.                                               *)

Chars == Nat \cup {Newline}

Ends(w) == w = <<>> \/ (w # <<>> /\ w[Len(w)] \in {Space, Newline})

LEMMA WordEnds ==
  ASSUME NEW v \in Seq(Nat), NEW w, w = v \o <<Space>>
  PROVE  w \in Seq(Chars) /\ Ends(w)
<1>1. PICK m \in Nat : m = Len(v)
  OBVIOUS
<1>2. Len(w) = m + 1 /\ w[m + 1] = Space /\ w \in Seq(Nat)
  <2>1. PICK blank \in Seq(Nat) : blank = <<Space>> /\ Len(blank) = 1 /\ blank[1] = Space
    <3>1. <<0>> \in Seq(Nat)
      OBVIOUS
    <3> QED
      BY <3>1 DEF Space
  <2>2. w = v \o blank
    BY <2>1
  <2> QED
    BY <1>1, <2>1, <2>2
<1>3. w \in Seq(Chars)
  <2>1. Nat \subseteq Chars
    BY DEF Chars
  <2> QED
    BY <1>2, <2>1, LargerSeq
<1>4. w # <<>>
  BY <1>2
<1> QED
  BY <1>1, <1>2, <1>3, <1>4 DEF Ends

LEMMA NumberIsText ==
  ASSUME NEW x, x.hex \in {0, 1}, x.param \in Int, NumberFits(x)
  PROVE  NumberText(x) \in Seq(Nat)
<1>1. PICK limit : limit = 2 ^ (CellBits - 1)
  OBVIOUS
<1>2. CASE x.f \in ShortNumber
  <2>1. 32 * x.param \in CellRange
    BY <1>2 DEF NumberFits
  <2>2. PICK tag \in 0 .. 15 : tag = 0
    OBVIOUS
  <2>3. PICK c : c = Tagged(tag, x.hex, x.param)
    OBVIOUS
  <2>4. IsShort(tag, x, c)
    BY <2>1, <2>3 DEF IsShort
  <2> QED
    BY ONLY <2>4, ShortShown, Zenon
<1>3. CASE x.f \notin ShortNumber
  <2>1. /\ x.hex = 1 => x.param \in -limit .. 2 * limit - 1
        /\ x.hex # 1 => x.param \in CellRange \ {-limit}
    BY <1>1, <1>3 DEF NumberFits
  <2>2. x.hex \in {0, 1} /\ x.param \in Int
    OBVIOUS
  <2> QED
    BY ONLY <1>1, <2>1, <2>2, DataShown
<1> QED
  BY <1>2, <1>3

LEMMA ShownIs ==
  ASSUME NEW E, NEW block \in Seq(E), WellFormed(block), NEW i \in 1 .. Len(block),
         IsNumberEntry(block, i) => NumberFits(block[i])
  PROVE  Shown(block, i) \in Seq(Chars) /\ Ends(Shown(block, i))
<1>1. PICK x : x = block[i]
  OBVIOUS
<1>2. /\ x.hex \in {0, 1}
      /\ IsNumberEntry(block, i) => x.param \in Int /\ NumberFits(x)
      /\ ~IsNumberEntry(block, i) => x.param \in Seq(Letter)
  <2>1. i \in DOMAIN block
    OBVIOUS
  <2> QED
    BY <1>1, <2>1 DEF WellFormed
<1>0. x.f \in {"display_macro", "compiler_feedback"} => ~IsNumberEntry(block, i)
  <2> SUFFICES ASSUME x.f \in {"display_macro", "compiler_feedback"}, i > 1, block[i - 1].f = "variable"
               PROVE  FALSE
    BY <1>1 DEF IsNumberEntry, LongNumber, ShortNumber
  <2>1. PICK h \in DOMAIN block : h = i - 1 /\ h + 1 = i
    OBVIOUS
  <2>2. block[h + 1].f = "compileword"
    BY <2>1 DEF WellFormed
  <2> QED
    BY <1>1, <2>1, <2>2
<1>3. CASE x.f = "display_macro"
  <2>1. Shown(block, i) = <<Newline>>
    BY <1>0, <1>1, <1>3 DEF Shown
  <2>2. PICK c \in Chars : c = Newline
    BY DEF Chars
  <2>3. PICK w : w = <<c>>
    OBVIOUS
  <2>4. w \in Seq(Chars) /\ Len(w) = 1 /\ w[1] = c /\ w # <<>>
    BY <2>3
  <2>5. Shown(block, i) = w
    BY <2>1, <2>2, <2>3
  <2> QED
    BY <2>2, <2>4, <2>5 DEF Ends
<1>4. CASE x.f = "compiler_feedback"
  <2>1. Shown(block, i) = <<>>
    BY <1>0, <1>1, <1>4 DEF Shown
  <2>2. <<>> \in Seq(Chars)
    BY EmptySeq
  <2> QED
    BY <2>1, <2>2 DEF Ends
<1>5. CASE x.f \notin {"display_macro", "compiler_feedback"} /\ IsNumberEntry(block, i)
  <2>1. Shown(block, i) = NumberText(x) \o <<Space>>
    BY <1>1, <1>5 DEF Shown, NumberText
  <2>2. NumberText(x) \in Seq(Nat)
    BY <1>2, <1>5, NumberIsText
  <2> QED
    BY <2>1, <2>2, WordEnds
<1>6. CASE x.f \notin {"display_macro", "compiler_feedback"} /\ ~IsNumberEntry(block, i)
  <2>1. Shown(block, i) = x.param \o <<Space>>
    BY <1>1, <1>6 DEF Shown
  <2>2. x.param \in Seq(Nat)
    <3>1. Letter \subseteq Nat
      BY DEF Letter
    <3> QED
      BY <1>2, <1>6, <3>1, LargerSeq
  <2> QED
    BY <2>1, <2>2, WordEnds
<1> QED
  BY <1>3, <1>4, <1>5, <1>6

ShownTo(block, i) == [k \in 1 .. i |-> Shown(block, k)]

Composed(chars, block, e, L, N) ==
  /\ L \in Nat /\ L = Len(chars) /\ DOMAIN chars = 1 .. L
  /\ \A i \in 1 .. L : chars[i] = Newline \/ chars[i] \in Nat
  /\ L > 0 => chars[L] \in {Space, Newline}
  /\ SpeltBy(chars, block, e, L, N) /\ e[N] = L
  /\ \A i \in 0 .. N : e[i] = Len(FlattenSeq(ShownTo(block, i)))

LEMMA TextComposed ==
  ASSUME NEW block, NEW N \in Nat, \A i \in 1 .. N : Shown(block, i) \in Seq(Chars) /\ Ends(Shown(block, i)),
         NEW chars, chars = FlattenSeq(ShownTo(block, N))
  PROVE  \E e, L : Composed(chars, block, e, L, N)
<1>1. PICK T : T = Seq(Chars)
  OBVIOUS
<1>2. ASSUME NEW M \in 0 .. N
      PROVE  ShownTo(block, M) \in Seq(T) /\ Len(ShownTo(block, M)) = M
  <2>1. \A k \in 1 .. M : Shown(block, k) \in T
    BY <1>1
  <2>2. M \in Nat
    OBVIOUS
  <2> QED
    BY <2>1, <2>2 DEF ShownTo
<1>3. PICK ss : ss = ShownTo(block, N)
  OBVIOUS
<1>4. ss \in Seq(T) /\ Len(ss) = N /\ \A i \in 1 .. N : ss[i] = Shown(block, i)
  <2>1. N \in 0 .. N
    OBVIOUS
  <2> QED
    BY <1>2, <1>3, <2>1 DEF ShownTo
<1>5. PICK t \in [0 .. N -> T] : FlattensTo(t, ss) /\ chars = t[N]
  BY <1>1, <1>3, <1>4, FlattenIs
<1>6. ASSUME NEW i \in 1 .. N PROVE StandsIn(t[N], t[i - 1], ss[i], t[i])
  BY <1>1, <1>4, <1>5, FlattenPlace
<1>7. PICK e : e = [i \in 0 .. N |-> Len(t[i])]
  OBVIOUS
<1>8. ASSUME NEW i \in 0 .. N PROVE e[i] = Len(t[i]) /\ e[i] \in Nat
  <2>1. t[i] \in Seq(Chars)
    BY <1>1, <1>5
  <2> QED
    BY <1>7, <2>1
<1>9. PICK L \in Nat : L = Len(chars) /\ e[N] = L
  <2>1. N \in 0 .. N
    OBVIOUS
  <2> QED
    BY <1>5, <1>8, <2>1
<1>10. chars \in Seq(Chars)
  <2>1. N \in 0 .. N
    OBVIOUS
  <2> QED
    BY <1>1, <1>5, <2>1
<1>11. DOMAIN chars = 1 .. L /\ \A i \in 1 .. L : chars[i] = Newline \/ chars[i] \in Nat
  <2>1. \A i \in 1 .. L : chars[i] \in Chars
    BY <1>9, <1>10
  <2> QED
    BY <1>9, <1>10, <2>1 DEF Chars
<1>12. SpeltBy(chars, block, e, L, N)
  <2>1. e[0] = 0 /\ e[0] \in Nat
    <3>1. 0 \in 0 .. N /\ t[0] = <<>>
      BY <1>5 DEF FlattensTo
    <3> QED
      BY <1>8, <3>1
  <2>2. ASSUME NEW i \in 1 .. N
        PROVE  /\ Len(Shown(block, i)) \in Nat /\ e[i] \in Nat /\ e[i] = e[i - 1] + Len(Shown(block, i))
               /\ e[i] <= L /\ Stands(chars, e[i - 1], Shown(block, i))
    <3>1. PICK w : w = Shown(block, i) /\ w = ss[i]
      BY <1>4
    <3>2. StandsIn(chars, t[i - 1], w, t[i])
      BY <1>5, <1>6, <3>1
    <3>3. e[i] = Len(t[i]) /\ e[i] \in Nat /\ e[i - 1] = Len(t[i - 1]) /\ e[i - 1] \in Nat
      <4>1. i \in 0 .. N /\ i - 1 \in 0 .. N
        OBVIOUS
      <4> QED
        BY <1>8, <4>1
    <3> QED
      BY <1>9, <3>1, <3>2, <3>3 DEF StandsIn, Stands
  <2> QED
    BY <2>1, <2>2 DEF SpeltBy
<1>13. L > 0 => chars[L] \in {Space, Newline}
  <2> DEFINE S == {d \in Nat : d <= N => Ends(t[d])}
  <2>1. 0 \in S
    BY <1>5 DEF FlattensTo, Ends
  <2>2. ASSUME NEW d \in Nat, d \in S PROVE d + 1 \in S
    <3> SUFFICES ASSUME d + 1 <= N PROVE Ends(t[d + 1])
      OBVIOUS
    <3>1. PICK i \in 1 .. N : i = d + 1 /\ i - 1 = d /\ d \in 0 .. N /\ d <= N
      OBVIOUS
    <3>2. PICK a \in Seq(Chars), w \in Seq(Chars) : a = t[d] /\ w = ss[i] /\ Ends(a) /\ Ends(w)
      <4>1. t[d] \in Seq(Chars) /\ ss[i] \in Seq(Chars) /\ Ends(ss[i])
        BY <1>1, <1>4, <1>5, <3>1
      <4>2. Ends(t[d])
        BY <2>2, <3>1
      <4> QED
        BY <4>1, <4>2
    <3>3. t[i] = a \o w
      BY <1>4, <1>5, <3>1, <3>2 DEF FlattensTo
    <3>4. Ends(a \o w)
      <4>1. CASE w = <<>>
        <5>1. a \o w = a
          BY <4>1
        <5> QED
          BY <3>2, <5>1
      <4>2. CASE w # <<>>
        <5>1. PICK p \in Nat, q \in Nat : p = Len(a) /\ q = Len(w) /\ q > 0
          BY <4>2
        <5>2. w[q] \in {Space, Newline}
          BY <3>2, <4>2, <5>1 DEF Ends
        <5>3. PICK c : c = a \o w
          OBVIOUS
        <5>4. Len(c) = p + q /\ c[p + q] = w[q] /\ c # <<>>
          BY <5>1, <5>3
        <5> QED
          BY <5>2, <5>3, <5>4 DEF Ends
      <4> QED
        BY <4>1, <4>2
    <3> QED
      BY <3>1, <3>3, <3>4
  <2> HIDE DEF S
  <2>3. N \in S
    BY <2>1, <2>2, Induct
  <2>4. Ends(chars)
    BY <1>5, <2>3 DEF S
  <2> QED
    BY <1>9, <1>10, <2>4 DEF Ends
<1>14. ASSUME NEW i \in 0 .. N PROVE e[i] = Len(FlattenSeq(ShownTo(block, i)))
  <2>1. PICK rr : rr = ShownTo(block, i)
    OBVIOUS
  <2>2. rr \in Seq(T) /\ Len(rr) = i /\ \A k \in 1 .. i : rr[k] = Shown(block, k)
    BY <1>2, <2>1 DEF ShownTo
  <2>3. PICK u \in [0 .. i -> T] : FlattensTo(u, rr) /\ FlattenSeq(rr) = u[i]
    BY <1>1, <2>2, FlattenIs
  <2>4. SameBegin(ss, rr, i)
    BY <1>4, <2>2 DEF SameBegin
  <2>5. \A k \in 0 .. i : t[k] = u[k]
    BY <1>5, <2>3, <2>4, OneFlatten
  <2>6. i \in 0 .. i
    OBVIOUS
  <2> QED
    BY <1>8, <2>1, <2>3, <2>5, <2>6
<1>15. Composed(chars, block, e, L, N)
  BY <1>9, <1>11, <1>12, <1>13, <1>14 DEF Composed
<1> QED
  BY <1>15

LEMMA LegibleIs ==
  ASSUME NEW block, NEW N \in Nat, DOMAIN block = 1 .. N, NEW chars, NEW e, NEW L,
         Composed(chars, block, e, L, N), NEW at, Readable(block, at), N = Len(block)
  PROVE  Legible(block, at, e, N) /\ at[L + 1] <= PromptLine * Columns
<1> DEFINE end(i) == at[Len(FlattenSeq(ShownTo(block, i))) + 1]
<1>1. ASSUME NEW i \in 0 .. N PROVE end(i) = at[e[i] + 1]
  BY DEF Composed
<1>2. /\ end(N) <= PromptLine * Columns
      /\ \A i \in 1 .. N :
           IF IsNumberEntry(block, i) THEN NumberFits(block[i])
           ELSE Len(Parts(block[i].param)) > 1 =>
                  /\ block[i].f # "compiler_feedback"
                  /\ end(i - 1) \div Columns = end(i) \div Columns
  BY DEF Readable, ShownTo
<1> HIDE DEF end
<1>3. at[L + 1] <= PromptLine * Columns
  <2>1. N \in 0 .. N /\ e[N] = L
    BY DEF Composed
  <2> QED
    BY <1>1, <1>2, <2>1
<1>4. ASSUME NEW i \in 1 .. N
      PROVE  IF IsNumberEntry(block, i) THEN NumberFits(block[i]) ELSE OneRow(block[i], at, e[i - 1], e[i])
  <2>1. i \in 0 .. N /\ i - 1 \in 0 .. N
    OBVIOUS
  <2>2. end(i) = at[e[i] + 1] /\ end(i - 1) = at[e[i - 1] + 1]
    BY <1>1, <2>1
  <2> QED
    BY <1>2, <2>2 DEF OneRow
<1> QED
  BY <1>3, <1>4 DEF Legible

(* The block with the page of its text: what is drawn. *)
Drawn(page, at, chars) ==
  \E L : /\ L \in Nat /\ DOMAIN chars = 1 .. L /\ Sheet(at, chars, L)
         /\ Idle(page, at, chars, L)

LEMMA BlockPage ==
  ASSUME NEW E, NEW text, Meant(text, E), NEW n \in Nat, NEW M \in 1 .. Len(text), n = M - 1,
         Fitting(text, M), NEW disk, disk[n] = DiskBlock(text, n), NEW block, block = text[M],
         NEW chars, chars = FlattenSeq([i \in DOMAIN block |-> Shown(block, i)]),
         NEW at, at = Places(chars), Readable(block, at)
  PROVE  Drawn(BlockWords(disk, n), at, chars)
<1>1. block \in Seq(E) /\ WellFormed(block)
  BY BlockOf
<1>2. PICK N \in Nat : N = Len(block) /\ DOMAIN block = 1 .. N
  BY <1>1
<1>3. ASSUME NEW i \in 1 .. N PROVE Shown(block, i) \in Seq(Chars) /\ Ends(Shown(block, i))
  <2>1. IsNumberEntry(block, i) => NumberFits(block[i])
    <3>1. i \in DOMAIN block
      BY <1>2
    <3> QED
      BY <3>1 DEF Readable
  <2>2. i \in 1 .. Len(block)
    BY <1>2
  <2> QED
    BY ONLY <1>1, <2>1, <2>2, ShownIs
<1>4. chars = FlattenSeq(ShownTo(block, N))
  BY <1>2 DEF ShownTo
<1>5. PICK e, L : Composed(chars, block, e, L, N)
  BY <1>3, <1>4, TextComposed
<1>6. /\ L \in Nat /\ L = Len(chars) /\ DOMAIN chars = 1 .. L
      /\ \A i \in 1 .. L : chars[i] = Newline \/ chars[i] \in Nat
      /\ L > 0 => chars[L] \in {Space, Newline}
      /\ SpeltBy(chars, block, e, L, N) /\ e[N] = L
  BY <1>5 DEF Composed
<1>7. Legible(block, at, e, N) /\ at[L + 1] <= PromptLine * Columns
  BY ONLY <1>2, <1>5, Readable(block, at), LegibleIs
<1>8. Sheet(at, chars, L)
  <2>1. PlacesTo(at, chars, L)
    BY <1>6, PlacesIs
  <2>2. Address(0, PromptLine) = PromptLine * Columns
    <3>1. PICK C \in Nat, p \in Nat : C = Columns /\ p = PromptLine
      BY Layout
    <3>2. 0 + C * p = p * C
      BY <3>1
    <3> QED
      BY <3>1, <3>2 DEF Address
  <2> QED
    BY <1>6, <1>7, <2>1, <2>2 DEF Sheet
<1>9. PICK b \in Nat : b = BlockCells
  BY WordsAssumption
<1>10. PICK es, p : Laid(disk[n], block, es, p, N)
  <2>1. \A m \in 1 .. M : Len(Converted(text)[m]) <= b
    BY <1>9 DEF Fitting
  <2>2. M \in 1 .. Len(text)
    OBVIOUS
  <2>3. \E es, p : Laid(DiskBlock(text, M - 1), block, es, p, N)
    BY ONLY Meant(text, E), <1>2, <1>9, <2>1, <2>2, block = text[M], BlockLaid
  <2> QED
    BY <2>3
<1>11. PICK first \in Nat : first = n * b
  BY <1>9
<1>12. PICK f : BlockWords(disk, n) = f[b].page /\ Rounds(f, disk, n, b)
  BY <1>9, RoundsIs
<1>13. Setting(disk, n, b, f, first, block, es, p, N, at, chars, e, L)
  BY <1>6, <1>8, <1>9, <1>10, <1>11, <1>12 DEF Setting, Rounding
<1>14. \A i \in 1 .. N : block[i].f = "variable" => Len(Coded(block[i].param)) < NameBits
  BY <1>2 DEF Fitting
<1>15. Printed(f, first, p, at, chars, e, N)
  BY ONLY <1>1, <1>2, <1>7, <1>13, <1>14, EntriesPrinted
<1>16. Idle(f[b].page, at, chars, L)
  BY ONLY <1>6, <1>13, <1>15, RestPrinted
<1> QED
  BY <1>6, <1>8, <1>12, <1>16 DEF Drawn

-----------------------------------------------------------------------------
(* The prompt, the stack and the number of the block are drawn below it.   *)
LEMMA PromptBelow ==
  ASSUME NEW s, Sound(s), NEW p, p = Write(SetPosition(s, 0, PromptLine), <<PromptSign, Space>>)
  PROVE  Sound(p) /\ \A k \in Cell : k < Address(0, PromptLine) => p.text[k] = s.text[k]
<1>1. PICK B \in Nat, C \in Nat :
        /\ C = Columns /\ C >= 2 /\ Columns * (Lines - 1) = B + 3 * C
        /\ \A x \in Int : Address(x, PromptLine) = x + B
  BY LinesBegin
<1>2. Address(0, PromptLine) = B
  BY <1>1
<1>3. PICK r : r = SetPosition(s, 0, PromptLine) /\ OnPage(r) /\ r.text = s.text /\ r.x = 0 /\ r.y = PromptLine
  <2>1. 0 \in 0 .. Columns /\ PromptLine \in 0 .. Lines - 1 /\ 0 < Columns
    BY Layout
  <2>2. /\ SetPosition(s, 0, PromptLine).text = s.text
        /\ SetPosition(s, 0, PromptLine).x = 0
        /\ SetPosition(s, 0, PromptLine).y = PromptLine
        /\ OnPage(SetPosition(s, 0, PromptLine))
    BY <2>1, SetFields
  <2> QED
    BY <2>2
<1>4. PICK w \in Seq(Nat) : w = <<PromptSign, Space>> /\ Len(w) = 2
  <2>1. <<52, 0>> \in Seq(Nat) /\ Len(<<52, 0>>) = 2
    OBVIOUS
  <2> QED
    BY <2>1 DEF PromptSign, Space
<1>5. Address(r.x, r.y) = B
  BY <1>2, <1>3
<1>6. p = Write(r, w)
  BY <1>3, <1>4
<1>7. OnPage(p) /\ Ran(r, p, w, 0, 2)
  <2>1. /\ OnPage(p)
        /\ \/ p.y = Lines - 1 /\ Address(r.x, r.y) + 2 >= Columns * (Lines - 1)
           \/ Ran(r, p, w, 0, 2)
    BY <1>3, <1>4, <1>6, LettersWritten
  <2>2. ~(Address(r.x, r.y) + 2 >= Columns * (Lines - 1))
    BY <1>1, <1>5
  <2> QED
    BY <2>1, <2>2
<1>8. ASSUME NEW k \in Cell, k < Address(0, PromptLine) PROVE p.text[k] = s.text[k]
  <2>1. k \in Int
    BY DEF Cell
  <2>2. k \notin B .. B + 2 - 1
    BY <1>2, <1>8, <2>1
  <2> QED
    BY <1>3, <1>5, <1>7, <2>2 DEF Ran
<1> QED
  BY <1>7, <1>8 DEF OnPage

LEMMA DrawnAbove ==
  ASSUME NEW s, Sound(s), NEW st, Tuple(st), NEW hex, Len(StackText(st, hex)) < Columns,
         NEW n \in 0 .. Len(Source)
  PROVE  \A k \in Cell : k < Address(0, PromptLine) =>
           StatusBar(DisplayCommandPrompt(s, st, hex), n).text[k] = s.text[k]
<1>1. PICK p : p = Write(SetPosition(s, 0, PromptLine), <<PromptSign, Space>>)
  OBVIOUS
<1>2. Sound(p) /\ \A k \in Cell : k < Address(0, PromptLine) => p.text[k] = s.text[k]
  BY <1>1, PromptBelow
<1>3. PICK d : d = DotS(p, st, hex) /\ Sound(d)
  BY <1>2, DotSBlinks DEF Blinks
<1>4. \A k \in Cell : k < Address(0, StackLine) => d.text[k] = p.text[k]
  BY <1>2, <1>3, DotSDraws
<1>5. DisplayCommandPrompt(s, st, hex) = d
  BY <1>1, <1>3 DEF DisplayCommandPrompt
<1>6. \A k \in Cell : k < Address(BlockColumn, StackLine) => StatusBar(d, n).text[k] = d.text[k]
  BY <1>3, StatusBarKeeps
<1>7. ASSUME NEW k \in Cell, k < Address(0, PromptLine)
      PROVE  StatusBar(d, n).text[k] = s.text[k]
  <2>1. PICK B \in Nat, C \in Nat :
          /\ C = Columns /\ C >= 2
          /\ \A x \in Int : Address(x, PromptLine) = x + B /\ Address(x, StackLine) = x + B + 2 * C
    BY LinesBegin
  <2>2. PICK b \in Nat : b = BlockColumn
    BY DisplayAssumption, Layout DEF DisplayAssumption
  <2>3. /\ Address(0, PromptLine) = B /\ Address(0, StackLine) = B + 2 * C
        /\ Address(BlockColumn, StackLine) = b + B + 2 * C
    <3>1. PICK o \in Nat : o = 0 /\ o \in Int /\ b \in Int
      OBVIOUS
    <3>2. Address(o, PromptLine) = o + B /\ Address(o, StackLine) = o + B + 2 * C /\ Address(b, StackLine) = b + B + 2 * C
      BY <2>1, <3>1
    <3>3. o + B = B /\ o + B + 2 * C = B + 2 * C
      BY <2>1, <3>1
    <3> QED
      BY <2>2, <3>1, <3>2, <3>3
  <2>4. k \in Int
    BY DEF Cell
  <2>5. k < Address(0, StackLine) /\ k < Address(BlockColumn, StackLine)
    <3>1. k < B
      BY <1>7, <2>3
    <3>2. C >= 2 /\ B \in Nat /\ C \in Nat /\ b \in Nat
      BY <2>1, <2>2
    <3>3. k < B + 2 * C /\ k < b + B + 2 * C
      BY ONLY <2>4, <3>1, <3>2
    <3> QED
      BY <2>3, <3>3
  <2> QED
    BY <1>2, <1>4, <1>6, <1>7, <2>5
<1> QED
  BY <1>5, <1>7

PageSays(page, at, chars) ==
  LET used == {i \in DOMAIN chars : chars[i] # Newline}
  IN  /\ \A i \in used : page[at[i]] = chars[i]
      /\ \A a \in (0 .. PromptLine * Columns - 1) \ {at[i] : i \in used} : page[a] = Space

LEMMA BlockReadsIs ==
  ASSUME NEW text, NEW n, NEW page, NEW block, block = text[n],
         NEW chars, chars = FlattenSeq([i \in DOMAIN block |-> Shown(block, i)]),
         NEW at, at = Places(chars),
         Fitting(text, n) /\ Readable(block, at) => PageSays(page, at, chars)
  PROVE  BlockReads(text, n, page)
<1> DEFINE b == text[n]
           cs == FlattenSeq([i \in DOMAIN b |-> Shown(b, i)])
           fits(a) == Fitting(text, n) /\ Readable(b, a) => PageSays(page, a, cs)
<1>1. [i \in DOMAIN b |-> Shown(b, i)] = [i \in DOMAIN block |-> Shown(block, i)]
  OBVIOUS
<1>2. cs = chars
  BY <1>1
<1>3. b = block
  OBVIOUS
<1>4. BlockReads(text, n, page) <=> fits(Places(cs))
  BY DEF BlockReads, PageSays
<1> HIDE DEF cs, b
<1>5. fits(Places(cs))
  BY <1>2, <1>3
<1> HIDE DEF fits
<1> QED
  BY <1>4, <1>5

LEMMA BlockIsRead ==
  ASSUME NEW E, NEW text, Meant(text, E), NEW n \in Nat, NEW M \in 1 .. Len(text), n = M - 1,
         n \in 0 .. Len(Source),
         NEW disk, disk[n] = DiskBlock(text, n), NEW st, Tuple(st), NEW hex,
         Len(StackText(st, hex)) < Columns
  PROVE  BlockReads(text, M, DisplayBlock(disk, n, st, hex).text)
<1>0. PICK page : page = DisplayBlock(disk, n, st, hex).text
  OBVIOUS
<1>1. PICK block : block = text[M]
  OBVIOUS
<1>2. PICK chars : chars = FlattenSeq([i \in DOMAIN block |-> Shown(block, i)])
  OBVIOUS
<1>3. PICK at : at = Places(chars)
  OBVIOUS
<1> DEFINE used == {i \in DOMAIN chars : chars[i] # Newline}
<1>4. PageSays(page, at, chars) <=>
        /\ \A i \in used : page[at[i]] = chars[i]
        /\ \A a \in (0 .. PromptLine * Columns - 1) \ {at[i] : i \in used} : page[a] = Space
  BY DEF PageSays
<1>5. Fitting(text, M) /\ Readable(block, at) => PageSays(page, at, chars)
  <2> SUFFICES ASSUME Fitting(text, M), Readable(block, at) PROVE PageSays(page, at, chars)
    OBVIOUS
  <2>1. PICK s : s = BlockWords(disk, n) /\ Sound(s)
    BY BlockWordsSound
  <2>2. Drawn(s, at, chars)
    <3>1. n \in Nat /\ M \in 1 .. Len(text) /\ n = M - 1 /\ disk[n] = DiskBlock(text, n)
      OBVIOUS
    <3>2. Drawn(BlockWords(disk, n), at, chars)
      BY ONLY Meant(text, E), Fitting(text, M), Readable(block, at), <1>1, <1>2, <1>3, <3>1, BlockPage
    <3> QED
      BY <2>1, <3>2
  <2>3. PICK L \in Nat : /\ DOMAIN chars = 1 .. L /\ Sheet(at, chars, L)
                         /\ Reads(s.text, at, chars, L)
    BY <2>2 DEF Drawn, Idle
  <2>4. ASSUME NEW k \in Cell, k < Address(0, PromptLine) PROVE page[k] = s.text[k]
    BY <1>0, <2>1, <2>4, DrawnAbove DEF DisplayBlock
  <2>5. PICK B \in Nat : /\ B = Address(0, PromptLine) /\ B = PromptLine * Columns
                         /\ \A k \in 0 .. B - 1 : k \in Cell
    <3>1. PICK C \in Nat, p \in Nat : C = Columns /\ p = PromptLine
      BY Layout
    <3>2. PICK B \in Nat : B = Address(0, PromptLine) /\ Columns * Lines = B + 4 * Columns
      <4>1. PICK B \in Nat : /\ Columns * Lines = B + 4 * Columns
                             /\ \A x \in Int : Address(x, PromptLine) = x + B
        BY LinesBegin
      <4>2. Address(0, PromptLine) = B
        BY <4>1
      <4> QED
        BY <4>1, <4>2
    <3>3. B = p * C
      <4>1. 0 + C * p = p * C
        BY <3>1
      <4> QED
        BY <3>1, <3>2, <4>1 DEF Address
    <3>4. \A k \in 0 .. B - 1 : k \in 0 .. Columns * Lines
      BY <3>1, <3>2
    <3> QED
      BY <3>1, <3>2, <3>3, <3>4 DEF Cell
  <2>6. ASSUME NEW i \in used PROVE page[at[i]] = chars[i]
    <3>1. i \in 1 .. L /\ chars[i] # Newline
      BY <2>3
    <3>2. at[i] \in Nat /\ at[i] \in Cell /\ at[i] < Address(0, PromptLine)
      <4>1. i \in 1 .. L + 1
        BY <3>1
      <4>2. at[i] \in Nat /\ at[i] \in Cell /\ at[i] + (L + 1 - i) <= Address(0, PromptLine)
        BY <2>3, <4>1, SheetPlaces
      <4> QED
        BY <2>5, <3>1, <4>2
    <3>3. s.text[at[i]] = chars[i]
      BY <2>3, <3>1 DEF Reads
    <3> QED
      BY <2>4, <3>2, <3>3
  <2>7. ASSUME NEW a \in (0 .. PromptLine * Columns - 1) \ {at[i] : i \in used} PROVE page[a] = Space
    <3>1. a \in 0 .. B - 1 /\ a \in Cell /\ a < Address(0, PromptLine)
      BY <2>5
    <3>2. \A i \in 1 .. L : chars[i] # Newline => a # at[i]
      BY <2>3
    <3>3. s.text[a] = Space
      BY <2>3, <3>1, <3>2 DEF Reads
    <3> QED
      BY <2>4, <3>1, <3>3
  <2> QED
    BY <1>4, <2>6, <2>7
<1> HIDE DEF used
<1> QED
  BY <1>0, <1>1, <1>2, <1>3, <1>5, BlockReadsIs

-----------------------------------------------------------------------------
(* The cells in the kernel are those of the text that it was built with.   *)
DiskInv ==
  /\ booted => blocks = [n \in 0 .. Len(source) - 1 |-> DiskBlock(source, n)]
  /\ ~booted => stack = <<>> /\ isHex = FALSE /\ nbBlock = 0

LEMMA DiskInvInit == DInit => DiskInv
BY DEF DInit, Init, ForthInit, DiskInv

LEMMA DiskInvStep == DiskInv /\ [DNext]_displayVars => DiskInv'
<1> SUFFICES ASSUME DiskInv, [DNext]_displayVars PROVE DiskInv'
  OBVIOUS
<1>1. CASE (\E item \in Items : AddItem(item)) \/ AddBlock
  <2>1. UNCHANGED <<vars, isHex, booted>> /\ ~booted
    BY <1>1 DEF AddItem, AddBlock, Text
  <2> QED
    BY <2>1 DEF DiskInv, vars, forthVars, editorVars
<1>2. CASE Boot
  <2>1. blocks' = [n \in 0 .. Len(source) - 1 |-> DiskBlock(source, n)] /\ source' = source /\ booted'
    BY <1>2 DEF Boot
  <2> QED
    BY <2>1 DEF DiskInv
<1>3. CASE booted /\ PlainKey /\ UNCHANGED <<source, booted>>
  BY <1>3, PlainKeyKeeps DEF DiskInv
<1>4. CASE booted /\ (CommandKey \/ RunStep) /\ UNCHANGED <<source, booted>>
  BY <1>4, RunsKeep DEF DiskInv
<1>5. CASE UNCHANGED displayVars
  BY <1>5 DEF DiskInv, displayVars, vars, forthVars, editorVars
<1>6. CASE booted /\ (PageKey \/ (source = Source /\ KeyOrStep)) /\ UNCHANGED <<source, booted>>
  <2>1. PlainKey \/ CommandKey \/ RunStep
    BY <1>6 DEF KeyOrStep, PlainKey
  <2> QED
    BY <1>3, <1>4, <1>6, <2>1
<1> QED
  BY <1>1, <1>2, <1>5, <1>6 DEF DNext

(* A page that is shown is that of a block of the text. *)
LEMMA PageIsRead ==
  ASSUME Meant(source, ItemEntries), PageInv, NEW n, n \in 0 .. Len(source) - 1,
         NEW disk, disk = [m \in 0 .. Len(source) - 1 |-> DiskBlock(source, m)],
         NEW st, Tuple(st), NEW hex, Len(StackText(st, hex)) < Columns
  PROVE  BlockReads(source, n + 1, DisplayBlock(disk, n, st, hex).text)
<1>1. PICK len \in Nat : len = Len(source) /\ (len = 1 \/ len <= Len(Source)) /\ n \in 0 .. len - 1
  <2>1. PICK V : source \in Seq(V)
    BY DEF PageInv, Tuple
  <2>2. PICK len \in Nat : len = Len(source)
    BY <2>1
  <2> QED
    BY <2>2 DEF PageInv
<1>2. PICK M \in 1 .. Len(source) : M = n + 1 /\ n = M - 1
  BY <1>1
<1>3. n \in Nat /\ n \in 0 .. Len(Source)
  <2>1. Len(Source) \in Nat
    BY DisplayAssumption DEF DisplayAssumption
  <2> QED
    BY <1>1, <2>1
<1>4. disk[n] = DiskBlock(source, n)
  OBVIOUS
<1>5. PICK text : text = source
  OBVIOUS
<1>6. /\ Meant(text, ItemEntries) /\ M \in 1 .. Len(text) /\ disk[n] = DiskBlock(text, n)
      /\ Tuple(st) /\ Len(StackText(st, hex)) < Columns
  BY <1>4, <1>5
<1>7. BlockReads(text, M, DisplayBlock(disk, n, st, hex).text)
  BY ONLY <1>2, <1>3, <1>6, BlockIsRead
<1> QED
  BY <1>2, <1>5, <1>7

(* Whatever the text on the host, of as many blocks as there is room for,  *)
(* and whatever was done before: when the kernel begins and after each     *)
(* page key the page is the text of its block, character by character and  *)
(* nothing else above the prompt.  Neither the converter nor the drawing   *)
(* loses, cuts or moves a word, though a word may be in several cells and  *)
(* is put back together from the blanks, and a number is written again     *)
(* from its bits (editor.c:351, 539, blocks_converter.py:109).             *)
THEOREM DisplayBlockShown == DSpec => BlockShown
<1> DEFINE Inv == DrawInv /\ PageInv /\ DiskInv /\ Meant(source, ItemEntries)
<1>1. DInit => Inv
  BY DrawInvInit, PageInvInit, DiskInvInit, MeantBegins
<1>2. Inv /\ [DNext]_displayVars => Inv'
  BY DrawInvStep, PageInvStep, DiskInvStep, MeantStays
<1>3. Inv /\ [DNext]_displayVars =>
        [(booted' # booted \/ nbBlock' # nbBlock) /\ Len(StackText(stack, isHex)) < Columns
           => BlockReads(source', nbBlock' + 1, screen'.text)]_displayVars
  <2> SUFFICES ASSUME Inv, DNext, booted' # booted \/ nbBlock' # nbBlock,
                      Len(StackText(stack, isHex)) < Columns
               PROVE  BlockReads(source', nbBlock' + 1, screen'.text)
    OBVIOUS
  <2>1. Tuple(stack) /\ PageInv /\ DiskInv /\ Meant(source, ItemEntries)
    BY DEF DrawInv
  <2>2. CASE (\E item \in Items : AddItem(item)) \/ AddBlock
    <3>1. UNCHANGED <<vars, booted>>
      BY <2>2 DEF AddItem, AddBlock, Text
    <3> QED
      BY <3>1 DEF vars, editorVars
  <2>3. CASE Boot
    <3>1. PICK disk : disk = [m \in 0 .. Len(source) - 1 |-> DiskBlock(source, m)]
      OBVIOUS
    <3>2. /\ ~booted /\ source' = source /\ nbBlock' = nbBlock
          /\ screen' = DisplayBlock(disk, 0, <<>>, FALSE)
      BY <2>3, <3>1 DEF Boot, editorVars
    <3>3. stack = <<>> /\ isHex = FALSE /\ nbBlock = 0
      BY <2>1, <3>2 DEF DiskInv
    <3>4. PICK n : n = 0 /\ n \in 0 .. Len(source) - 1
      BY <2>1, <3>3 DEF PageInv
    <3>5. BlockReads(source, n + 1, DisplayBlock(disk, n, stack, isHex).text)
      BY <2>1, <3>1, <3>4, PageIsRead
    <3> QED
      BY <3>2, <3>3, <3>4, <3>5
  <2>4. CASE booted /\ PlainKey /\ UNCHANGED <<source, booted>>
    <3>1. PageKey
      BY <2>4, PlainKeyKeeps DEF F1Key
    <3>2. screen' = DisplayBlock(blocks, nbBlock', stack, isHex)
      BY <3>1 DEF PageKey
    <3>3. PICK n : n = nbBlock' /\ n \in 0 .. Len(source) - 1
      BY <2>1, <2>4, <3>1, PageTurns
    <3>4. PICK disk : disk = blocks /\ disk = [m \in 0 .. Len(source) - 1 |-> DiskBlock(source, m)]
      BY <2>1, <2>4 DEF DiskInv
    <3>5. BlockReads(source, n + 1, DisplayBlock(disk, n, stack, isHex).text)
      BY <2>1, <3>3, <3>4, PageIsRead
    <3> QED
      BY <2>4, <3>2, <3>3, <3>4, <3>5
  <2>5. CASE CommandKey \/ RunStep
    <3>1. nbBlock' = nbBlock
      BY <2>5, RunsKeep
    <3>2. booted' # booted
      BY <3>1
    <3>3. Boot
      BY <2>2, <3>1, <3>2 DEF DNext, AddItem, AddBlock, Text
    <3> QED
      BY <2>3, <3>3
  <2>6. KeyOrStep \/ PageKey => PlainKey \/ CommandKey \/ RunStep
    BY DEF KeyOrStep, PlainKey
  <2> QED
    BY <2>2, <2>3, <2>4, <2>5, <2>6 DEF DNext
<1> HIDE DEF Inv
<1> QED
  BY <1>1, <1>2, <1>3, PTL DEF DSpec, BlockShown
=============================================================================
