----------------------------- MODULE EditorProofs -----------------------------
(***************************************************************************)
(* Proofs about the words of the editor and its keys, for every disk,      *)
(* every vocabulary and every width of a cell: what is packed is unpacked  *)
(* again, a word finds the built-in word it spells, and the data stack and *)
(* the open calls stay where they belong.                                  *)
(***************************************************************************)
EXTENDS Editor, FiniteSetTheorems, WellFoundedInduction, TLAPS

-----------------------------------------------------------------------------
(* Induction over the naturals as a statement about sets, which first      *)
(* order provers can use: the theorems of the library take a predicate as  *)
(* their parameter.  It is how the proofs about the editor reason about    *)
(* recursive functions and about words of any length.                      *)

(* A set of naturals that is not empty has a least member. *)
LEMMA LeastMember ==
  ASSUME NEW S \in SUBSET Nat, S # {}
  PROVE  \E m \in S : \A k \in S : m <= k
<1> DEFINE R == {p \in Nat \X Nat : p[1] < p[2]}
<1>1. IsWellFoundedOn(R, Nat)
  BY NatLessThanWellFounded DEF OpToRel
<1>2. \A k, m \in Nat : k < m => <<k, m>> \in R
  OBVIOUS
<1> HIDE DEF R
<1>3. PICK m \in S : \A k \in S : ~ <<k, m>> \in R
  BY <1>1, WFMin
<1>4. ASSUME NEW k \in S PROVE m <= k
  <2>1. m \in Nat /\ k \in Nat /\ ~ <<k, m>> \in R
    BY <1>3
  <2> QED
    BY <1>2, <2>1
<1> QED
  BY <1>4

(* What holds of 0 and of the successor of each holds of all. *)
LEMMA Induct ==
  ASSUME NEW S, 0 \in S, \A n \in Nat : n \in S => n + 1 \in S
  PROVE  \A n \in Nat : n \in S
<1> SUFFICES ASSUME Nat \ S # {} PROVE FALSE
  OBVIOUS
<1>1. PICK m \in Nat \ S : \A k \in Nat \ S : m <= k
  BY LeastMember, Nat \ S \in SUBSET Nat
<1>2. m # 0 /\ m - 1 \in Nat /\ m - 1 < m
  BY <1>1
<1>3. m - 1 \in S
  BY <1>1, <1>2
<1> QED
  BY <1>1, <1>2, <1>3

(* f starts with c and goes from each value to the next with a step of G:  *)
(* recursive functions over the prefixes of a sequence are such functions. *)
Follows(f, c, G, N) == f[0] = c /\ \A i \in 1 .. N : f[i] = G[i][f[i - 1]]

(* There is one, for any first value and any steps. *)
LEMMA Recursion ==
  ASSUME NEW N \in Nat, NEW T, NEW c \in T, NEW G \in [1 .. N -> [T -> T]]
  PROVE  \E f \in [0 .. N -> T] : Follows(f, c, G, N)
<1> DEFINE upto(f, d) == f[0] = c /\ \A i \in 1 .. d : f[i] = G[i][f[i - 1]]
           S == {d \in Nat : d <= N => \E f \in [0 .. N -> T] : upto(f, d)}
<1>1. 0 \in S
  <2>1. PICK f : f = [i \in 0 .. N |-> c]
    OBVIOUS
  <2>2. f \in [0 .. N -> T] /\ f[0] = c
    BY <2>1
  <2> QED
    BY <2>2
<1>2. ASSUME NEW d \in Nat, d \in S PROVE d + 1 \in S
  <2> SUFFICES ASSUME d + 1 <= N PROVE \E f \in [0 .. N -> T] : upto(f, d + 1)
    OBVIOUS
  <2>1. PICK f \in [0 .. N -> T] : upto(f, d)
    BY <1>2
  <2>2. d \in 0 .. N /\ d + 1 \in 1 .. N /\ d + 1 \in 0 .. N /\ f[d] \in T
    OBVIOUS
  <2>3. PICK v \in T : v = G[d + 1][f[d]]
    BY <2>2
  <2>4. PICK g : g = [f EXCEPT ![d + 1] = v]
    OBVIOUS
  <2>5. g \in [0 .. N -> T] /\ g[d + 1] = v /\ \A i \in 0 .. d : g[i] = f[i]
    BY <2>2, <2>4
  <2>6. ASSUME NEW i \in 1 .. d + 1 PROVE g[i] = G[i][g[i - 1]]
    <3>1. i - 1 \in 0 .. d /\ g[i - 1] = f[i - 1]
      BY <2>5
    <3>2. CASE i = d + 1
      <4>1. i - 1 = d
        BY <3>2
      <4> QED
        BY <2>3, <2>5, <3>1, <3>2, <4>1
    <3>3. CASE i # d + 1
      <4>1. i \in 1 .. d /\ i \in 0 .. d
        BY <3>3
      <4> QED
        BY <2>1, <2>5, <3>1, <4>1
    <3> QED
      BY <3>2, <3>3
  <2>7. upto(g, d + 1)
    BY <2>1, <2>5, <2>6
  <2> QED
    BY <2>5, <2>7
<1> HIDE DEF S
<1>3. N \in S
  BY <1>1, <1>2, Induct
<1> QED
  BY <1>3 DEF S, Follows

(* Two such functions agree. *)
LEMMA OneFunction ==
  ASSUME NEW N \in Nat, NEW c, NEW G, NEW f, NEW g, NEW M \in Nat, N <= M,
         Follows(f, c, G, N), Follows(g, c, G, M)
  PROVE  \A i \in 0 .. N : f[i] = g[i]
<1> DEFINE S == {i \in Nat : i <= N => f[i] = g[i]}
<1>1. 0 \in S
  BY DEF Follows
<1>2. ASSUME NEW i \in Nat, i \in S PROVE i + 1 \in S
  <2> SUFFICES ASSUME i + 1 <= N PROVE f[i + 1] = g[i + 1]
    OBVIOUS
  <2>1. i + 1 \in 1 .. N /\ i + 1 \in 1 .. M /\ (i + 1) - 1 = i /\ f[i] = g[i]
    BY <1>2
  <2> QED
    BY <2>1 DEF Follows
<1> HIDE DEF S
<1>3. \A i \in Nat : i \in S
  BY <1>1, <1>2, Induct
<1> QED
  BY <1>3 DEF S

(* There is one over all naturals. *)
Ascends(f, c, G) == f[0] = c /\ \A i \in Nat \ {0} : f[i] = G[i][f[i - 1]]

LEMMA RecursionNat ==
  ASSUME NEW T, NEW c \in T, NEW G \in [Nat -> [T -> T]]
  PROVE  \E f \in [Nat -> T] : Ascends(f, c, G)
<1> DEFINE fits(g, n) == g \in [0 .. n -> T] /\ Follows(g, c, G, n)
           upto(n) == CHOOSE g : fits(g, n)
<1>1. ASSUME NEW n \in Nat PROVE fits(upto(n), n)
  <2>1. PICK H : H = [i \in 1 .. n |-> G[i]]
    OBVIOUS
  <2>2. H \in [1 .. n -> [T -> T]] /\ \A i \in 1 .. n : H[i] = G[i]
    BY <2>1
  <2>3. PICK g \in [0 .. n -> T] : Follows(g, c, H, n)
    BY <2>2, Recursion
  <2>4. fits(g, n)
    BY <2>2, <2>3 DEF Follows
  <2> QED
    BY <2>4
<1> DEFINE value(n) == upto(n)[n]
<1> HIDE DEF fits, upto
<1>2. PICK f : f = [n \in Nat |-> value(n)]
  OBVIOUS
<1>3. ASSUME NEW n \in Nat PROVE value(n) \in T
  BY <1>1 DEF fits
<1>4. value(0) = c
  BY <1>1, 0 \in Nat DEF fits, Follows
<1>5. ASSUME NEW n \in Nat \ {0} PROVE value(n) = G[n][value(n - 1)]
  <2>1. n - 1 \in Nat /\ n \in Nat /\ n - 1 <= n /\ n \in 1 .. n /\ n - 1 \in 0 .. n - 1
    OBVIOUS
  <2>2. Follows(upto(n), c, G, n) /\ Follows(upto(n - 1), c, G, n - 1)
    BY <1>1, <2>1 DEF fits
  <2>3. upto(n - 1)[n - 1] = upto(n)[n - 1]
    BY <2>1, <2>2, OneFunction
  <2> QED
    BY <2>1, <2>2, <2>3 DEF Follows
<1> HIDE DEF value
<1>6. f \in [Nat -> T] /\ \A n \in Nat : f[n] = value(n)
  BY <1>2, <1>3
<1>7. \A i \in Nat \ {0} : i - 1 \in Nat /\ i \in Nat
  OBVIOUS
<1> QED
  BY <1>4, <1>5, <1>6, <1>7 DEF Ascends

(* And one that goes down from the last value. *)
Descends(f, c, G, N) == f[N] = c /\ \A i \in 1 .. N - 1 : f[i] = G[i][f[i + 1]]

LEMMA RecursionDown ==
  ASSUME NEW N \in Nat \ {0}, NEW T, NEW c \in T, NEW G \in [1 .. N -> [T -> T]]
  PROVE  \E f \in [1 .. N -> T] : Descends(f, c, G, N)
<1>1. PICK M \in Nat : M = N - 1
  OBVIOUS
<1>2. PICK H : H = [i \in 1 .. M |-> G[N - i]]
  OBVIOUS
<1>3. \A i \in 1 .. M : N - i \in 1 .. N
  BY <1>1
<1>4. H \in [1 .. M -> [T -> T]] /\ \A i \in 1 .. M : H[i] = G[N - i]
  BY <1>2, <1>3
<1>5. PICK g \in [0 .. M -> T] : Follows(g, c, H, M)
  BY <1>4, Recursion
<1>6. PICK f : f = [i \in 1 .. N |-> g[N - i]]
  OBVIOUS
<1>7. ASSUME NEW i \in 1 .. N PROVE f[i] = g[N - i] /\ f[i] \in T
  <2>1. N - i \in 0 .. M
    BY <1>1
  <2> QED
    BY <1>5, <1>6, <2>1
<1>8. f[N] = c
  <2>1. N - N = 0 /\ N \in 1 .. N
    OBVIOUS
  <2> QED
    BY <1>5, <1>7, <2>1 DEF Follows
<1>9. ASSUME NEW i \in 1 .. N - 1 PROVE f[i] = G[i][f[i + 1]]
  <2>1. /\ i \in 1 .. N /\ i + 1 \in 1 .. N /\ N - i \in 1 .. M
        /\ N - (i + 1) = (N - i) - 1 /\ N - (N - i) = i
    BY <1>1
  <2>2. g[N - i] = H[N - i][g[(N - i) - 1]]
    BY <1>5, <2>1 DEF Follows
  <2> QED
    BY <1>4, <1>7, <2>1, <2>2
<1>10. f \in [1 .. N -> T]
  BY <1>6, <1>7
<1> QED
  BY <1>8, <1>9, <1>10 DEF Descends

-----------------------------------------------------------------------------
(* Powers of two, by counting subsets.                                     *)

LEMMA PowerIsCard ==
  ASSUME NEW n \in Nat
  PROVE  /\ IsFiniteSet(SUBSET (1 .. n)) /\ Cardinality(SUBSET (1 .. n)) = 2 ^ n
         /\ 2 ^ n \in Nat
<1>1. IsFiniteSet(1 .. n) /\ Cardinality(1 .. n) = n
  BY FS_Interval
<1>2. IsFiniteSet(SUBSET (1 .. n)) /\ Cardinality(SUBSET (1 .. n)) = 2 ^ n
  <2> DEFINE S == 1 .. n
  <2>1. IsFiniteSet(S) /\ Cardinality(S) = n
    BY <1>1
  <2> HIDE DEF S
  <2>2. IsFiniteSet(SUBSET S) /\ Cardinality(SUBSET S) = 2 ^ Cardinality(S)
    BY <2>1, FS_SUBSET
  <2> QED
    BY <2>1, <2>2 DEF S
<1>3. Cardinality(SUBSET (1 .. n)) \in Nat
  BY <1>2, FS_CardinalityType
<1> QED
  BY <1>2, <1>3

LEMMA PowerDoubles ==
  ASSUME NEW n \in Nat
  PROVE  2 ^ (n + 1) = 2 * 2 ^ n /\ 2 ^ n \in Nat
<1> DEFINE S == SUBSET (1 .. n)
           T == {X \in SUBSET (1 .. n + 1) : n + 1 \in X}
           f == [X \in S |-> X \cup {n + 1}]
<1>1. IsFiniteSet(S) /\ Cardinality(S) = 2 ^ n /\ 2 ^ n \in Nat
  BY PowerIsCard
<1>2. n + 1 \in Nat
  OBVIOUS
<1>3. Cardinality(SUBSET (1 .. n + 1)) = 2 ^ (n + 1)
  BY <1>2, PowerIsCard
<1>4. f \in Bijection(S, T)
  <2>1. ASSUME NEW X \in S PROVE f[X] \in T
    OBVIOUS
  <2>2. ASSUME NEW X \in S, NEW Y \in S, f[X] = f[Y] PROVE X = Y
    <3>1. n + 1 \notin X /\ n + 1 \notin Y
      OBVIOUS
    <3>2. X \cup {n + 1} = Y \cup {n + 1}
      BY <2>2
    <3> HIDE DEF S
    <3> QED
      BY <3>1, <3>2
  <2>3. ASSUME NEW Y \in T PROVE \E X \in S : f[X] = Y
    <3>1. Y \ {n + 1} \in S
      OBVIOUS
    <3>2. (Y \ {n + 1}) \cup {n + 1} = Y
      OBVIOUS
    <3> QED
      BY <3>1, <3>2
  <2>4. f \in [S -> T]
    BY <2>1
  <2> HIDE DEF f, S, T
  <2> QED
    BY <2>2, <2>3, <2>4 DEF Bijection, Injection, Surjection, IsInjective
<1>5. SUBSET (1 .. n + 1) = S \cup T /\ S \cap T = {}
  <2>1. ASSUME NEW X \in SUBSET (1 .. n + 1) PROVE X \in S \/ X \in T
    OBVIOUS
  <2>2. ASSUME NEW X \in S PROVE X \in SUBSET (1 .. n + 1) /\ X \notin T
    OBVIOUS
  <2>3. T \subseteq SUBSET (1 .. n + 1)
    OBVIOUS
  <2> HIDE DEF S, T
  <2> QED
    BY <2>1, <2>2, <2>3
<1> HIDE DEF S, T, f
<1>6. IsFiniteSet(T) /\ Cardinality(T) = Cardinality(S)
  BY <1>1, <1>4, FS_Bijection DEF ExistsBijection
<1>7. Cardinality(S \cup T) = Cardinality(S) + Cardinality(T) - Cardinality(S \cap T)
  BY <1>1, <1>6, FS_Union
<1>8. Cardinality(S \cap T) = 0
  BY <1>5, FS_EmptySet
<1>9. Cardinality(S \cup T) = Cardinality(S) + Cardinality(S)
  BY <1>1, <1>6, <1>7, <1>8
<1>10. 2 ^ (n + 1) = 2 ^ n + 2 ^ n
  BY <1>1, <1>3, <1>5, <1>9
<1> QED
  BY <1>1, <1>10-----------------------------------------------------------------------------
(* Cells.                                                                  *)

LEMMA CellSize ==
  /\ 2 ^ (CellBits - 1) \in Nat \ {0} /\ 2 ^ CellBits = 2 * 2 ^ (CellBits - 1)
  /\ CellRange \subseteq Int /\ 0 \in CellRange
<1>1. CellBits - 1 \in Nat /\ (CellBits - 1) + 1 = CellBits
  BY WordsAssumption
<1>2. PICK b : b = CellBits - 1
  OBVIOUS
<1>3. 2 ^ (b + 1) = 2 * 2 ^ b /\ 2 ^ b \in Nat
  BY <1>1, <1>2, PowerDoubles
<1>4. 2 ^ b # 0
  <2>1. IsFiniteSet(SUBSET (1 .. b)) /\ Cardinality(SUBSET (1 .. b)) = 2 ^ b
    BY <1>1, <1>2, PowerIsCard
  <2>2. {} \in SUBSET (1 .. b)
    OBVIOUS
  <2> QED
    BY <2>1, <2>2, FS_EmptySet
<1>5. 2 ^ (CellBits - 1) \in Nat \ {0} /\ 2 ^ CellBits = 2 * 2 ^ (CellBits - 1)
  BY <1>1, <1>2, <1>3, <1>4
<1> QED
  BY <1>5 DEF CellRange

(* A cell has room for a tag of five bits, for a number and for its sign.  *)
LEMMA TagSize ==
  /\ 2 ^ (CellBits - 6) \in Nat \ {0} /\ 2 ^ (CellBits - 1) = 32 * 2 ^ (CellBits - 6)
  /\ 2 ^ CellBits = 64 * 2 ^ (CellBits - 6)
<1>1. PICK b \in Nat : b = CellBits - 6
  BY WordsAssumption
<1>2. PICK p0, p1, p2, p3, p4, p5 \in Nat :
        /\ p0 = 2 ^ b /\ p1 = 2 ^ (b + 1) /\ p2 = 2 ^ (b + 2)
        /\ p3 = 2 ^ (b + 3) /\ p4 = 2 ^ (b + 4) /\ p5 = 2 ^ (b + 5)
  BY PowerDoubles, b \in Nat, b + 1 \in Nat, b + 2 \in Nat, b + 3 \in Nat, b + 4 \in Nat, b + 5 \in Nat
<1>3. p1 = 2 * p0
  BY <1>1, <1>2, PowerDoubles
<1>4. p2 = 2 * p1
  <2>1. b + 1 \in Nat /\ (b + 1) + 1 = b + 2
    OBVIOUS
  <2> QED
    BY <1>2, <2>1, PowerDoubles
<1>5. p3 = 2 * p2
  <2>1. b + 2 \in Nat /\ (b + 2) + 1 = b + 3
    OBVIOUS
  <2> QED
    BY <1>2, <2>1, PowerDoubles
<1>6. p4 = 2 * p3
  <2>1. b + 3 \in Nat /\ (b + 3) + 1 = b + 4
    OBVIOUS
  <2> QED
    BY <1>2, <2>1, PowerDoubles
<1>7. p5 = 2 * p4
  <2>1. b + 4 \in Nat /\ (b + 4) + 1 = b + 5
    OBVIOUS
  <2> QED
    BY <1>2, <2>1, PowerDoubles
<1>8. b + 5 = CellBits - 1
  BY <1>1, WordsAssumption
<1>9. p5 = 32 * p0 /\ p5 = 2 ^ (CellBits - 1) /\ p0 = 2 ^ (CellBits - 6)
  BY <1>1, <1>2, <1>3, <1>4, <1>5, <1>6, <1>7, <1>8
<1>10. p5 # 0 /\ 2 ^ CellBits = 2 * p5
  BY <1>9, CellSize
<1> QED
  BY <1>9, <1>10

(* The remainder is between zero and the divisor. *)
LEMMA DivMod ==
  ASSUME NEW x \in Int, NEW M \in Nat \ {0}
  PROVE  \E q \in Int : x = M * q + (x % M) /\ x % M \in 0 .. M - 1
<1>1. PICK q : q = x \div M
  OBVIOUS
<1>2. q \in Int /\ x = M * q + (x % M) /\ x % M \in 0 .. M - 1
  BY <1>1
<1> QED
  BY <1>2

(* Arithmetic comes back to a cell. *)
LEMMA SignedIsCell ==
  ASSUME NEW v \in Int
  PROVE  Signed(v) \in CellRange
<1>1. PICK m \in Nat \ {0} : m = 2 ^ (CellBits - 1) /\ 2 ^ CellBits = 2 * m
  BY CellSize
<1>2. v % (2 * m) \in 0 .. 2 * m - 1
  OBVIOUS
<1> QED
  BY <1>1, <1>2 DEF Signed, CellRange

LEMMA DivLess ==
  ASSUME NEW x \in Nat, NEW y \in Nat \ {0}
  PROVE  x \div y \in 0 .. x
<1>1. PICK q : q = x \div y
  OBVIOUS
<1>2. q \in Int /\ x = y * q + (x % y) /\ x % y \in 0 .. y - 1
  BY <1>1
<1>3. q >= 0
  <2> SUFFICES ASSUME q < 0 PROVE FALSE
    BY <1>2
  <2>1. PICK p \in Nat : q = -p - 1
    BY <1>2, -q - 1 \in Nat, q = -(-q - 1) - 1
  <2>2. y * p \in Nat
    OBVIOUS
  <2>3. y * q = -(y * p) - y
    BY <2>1
  <2> QED
    BY <1>2, <2>2, <2>3
<1>4. q <= y * q
  <2>1. PICK z \in Nat : y = z + 1
    BY y - 1 \in Nat, y = (y - 1) + 1
  <2>2. z * q >= 0 /\ z * q \in Int
    BY <1>2, <1>3
  <2>3. y * q = z * q + q
    BY <1>2, <2>1
  <2> QED
    BY <1>2, <2>2, <2>3
<1> QED
  BY <1>1, <1>2, <1>3, <1>4

LEMMA QuotientIsCell ==
  ASSUME NEW b \in CellRange, NEW a \in CellRange, a # 0,
         Quotient(b, a) < 2 ^ (CellBits - 1)
  PROVE  Quotient(b, a) \in CellRange
<1> DEFINE abs(x) == IF x < 0 THEN -x ELSE x
<1>1. PICK m \in Nat \ {0} : m = 2 ^ (CellBits - 1)
  BY CellSize
<1>2. b \in -m .. m - 1 /\ a \in Int
  BY <1>1 DEF CellRange
<1>3. abs(b) \in 0 .. m /\ abs(a) \in Nat \ {0}
  BY <1>2
<1>4. PICK q : q = abs(b) \div abs(a)
  OBVIOUS
<1>5. q \in 0 .. abs(b)
  <2>1. abs(b) \in Nat
    BY <1>3
  <2> HIDE DEF abs
  <2> QED
    BY <1>3, <1>4, <2>1, DivLess
<1>6. Quotient(b, a) = q \/ Quotient(b, a) = -q
  BY <1>4 DEF Quotient
<1>7. q \in 0 .. m
  BY <1>3, <1>5
<1> HIDE DEF abs
<1> QED
  BY <1>1, <1>6, <1>7 DEF CellRange

-----------------------------------------------------------------------------
(* The interpreter: what it leaves on the stack are cells, as many as the  *)
(* array has room for, and the calls it makes are of blocks of the disk.   *)

Frame ==
  [kind : {"run"}, at : DOMAIN Blocks, to : 1 .. BlockCells]
    \cup [kind : {"loads"}, at : Int, to : Int]

ForthInv ==
  /\ blocks = Blocks /\ broken \in BOOLEAN
  /\ stack \in Seq(CellRange) /\ Len(stack) <= StackSize
  /\ frames \in Seq(Frame)

EditorInv ==
  /\ isCommand \in BOOLEAN /\ escape \in BOOLEAN
  /\ word \in Seq(Letter \cup {NoLetter})
  /\ nbBlock \in DOMAIN blocks

TypeInv == ForthInv /\ EditorInv

LEMMA BecomesInv ==
  ASSUME ForthInv, NEW s \in Seq(CellRange), Len(s) <= StackSize,
         NEW calls \in Seq(Frame), Becomes(s, calls)
  PROVE  ForthInv'
BY DEF ForthInv, Becomes

LEMMA BreaksInv ==
  ASSUME ForthInv, Breaks
  PROVE  ForthInv'
BY DEF ForthInv, Breaks

LEMMA FromTopCell ==
  ASSUME ForthInv, NEW m \in 1 .. 2, Pops(m)
  PROVE  /\ Dropped(m) \in Seq(CellRange) /\ Len(Dropped(m)) = Len(stack) - m
         /\ \A i \in 0 .. m - 1 : FromTop(i) \in CellRange
<1>1. stack \in Seq(CellRange) /\ Len(stack) \in Nat /\ Len(stack) >= m
  BY DEF ForthInv, Pops
<1>2. ASSUME NEW i \in 0 .. m - 1 PROVE stack[Len(stack) - i] \in CellRange
  <2>1. Len(stack) - i \in 1 .. Len(stack)
    BY <1>1
  <2> QED
    BY <1>1, <2>1
<1>3. /\ SubSeq(stack, 1, Len(stack) - m) \in Seq(CellRange)
      /\ Len(SubSeq(stack, 1, Len(stack) - m)) = Len(stack) - m
  BY <1>1
<1> QED
  BY <1>2, <1>3 DEF Dropped, FromTop

LEMMA RoomForOne ==
  ASSUME ForthInv, NEW m \in 1 .. 2, Pops(m), NEW v \in CellRange
  PROVE  /\ Append(Dropped(m), v) \in Seq(CellRange)
         /\ Len(Append(Dropped(m), v)) <= StackSize
         /\ Len(Dropped(m)) <= StackSize
<1>1. Dropped(m) \in Seq(CellRange) /\ Len(Dropped(m)) = Len(stack) - m
  BY FromTopCell
<1>2. Len(stack) <= StackSize /\ Len(stack) \in Nat /\ StackSize \in Nat
  BY ForthAssumption DEF ForthInv
<1> QED
  BY <1>1, <1>2

LEMMA ExecuteInv ==
  ASSUME ForthInv, NEW calls \in Seq(Frame), NEW code, Execute(code, calls)
  PROVE  ForthInv'
<1> SUFFICES ASSUME ~Breaks PROVE ForthInv'
  BY BreaksInv
<1>1. CASE Becomes(stack, calls)
  <2>1. stack \in Seq(CellRange) /\ Len(stack) <= StackSize
    BY DEF ForthInv
  <2> QED
    BY <1>1, <2>1, BecomesInv
<1>2. CASE Load(calls)
  <2>1. Pops(1) /\ FromTop(0) \in DOMAIN blocks
        /\ Becomes(Dropped(1), Append(calls, Run(FromTop(0))))
    BY <1>2 DEF Load
  <2>2. Run(FromTop(0)) \in Frame
    <3>1. 1 \in 1 .. BlockCells
      BY WordsAssumption
    <3> QED
      BY <2>1, <3>1 DEF ForthInv, Run, Frame
  <2>3. Dropped(1) \in Seq(CellRange) /\ Len(Dropped(1)) <= StackSize
    BY <2>1, CellSize, FromTopCell, RoomForOne, 1 \in 1 .. 2
  <2>4. PICK c : c = Append(calls, Run(FromTop(0)))
    OBVIOUS
  <2>5. c \in Seq(Frame)
    BY <2>2, <2>4
  <2> QED
    BY <2>1, <2>3, <2>4, <2>5, BecomesInv
<1>3. CASE Loads(calls)
  <2>1. Pops(2) /\ Becomes(Dropped(2), Append(calls, Span(FromTop(1), FromTop(0))))
    BY <1>3 DEF Loads
  <2>2. FromTop(0) \in CellRange /\ FromTop(1) \in CellRange
    BY <2>1, FromTopCell, 2 \in 1 .. 2
  <2>3. Span(FromTop(1), FromTop(0)) \in Frame
    BY <2>2, CellSize DEF Span, Frame
  <2>4. Dropped(2) \in Seq(CellRange) /\ Len(Dropped(2)) <= StackSize
    BY <2>1, CellSize, FromTopCell, RoomForOne, 2 \in 1 .. 2
  <2>5. PICK c : c = Append(calls, Span(FromTop(1), FromTop(0)))
    OBVIOUS
  <2>6. c \in Seq(Frame)
    BY <2>3, <2>5
  <2> QED
    BY <2>1, <2>4, <2>5, <2>6, BecomesInv
<1>4. CASE Dot(calls)
  <2>1. Pops(1) /\ Becomes(Dropped(1), calls)
    BY <1>4 DEF Dot
  <2>2. Dropped(1) \in Seq(CellRange) /\ Len(Dropped(1)) <= StackSize
    BY <2>1, CellSize, FromTopCell, RoomForOne, 1 \in 1 .. 2
  <2> QED
    BY <2>1, <2>2, BecomesInv
<1>5. CASE Add(calls)
  <2>1. Pops(2) /\ Becomes(Append(Dropped(2), Signed(FromTop(0) + FromTop(1))), calls)
    BY <1>5 DEF Add
  <2>2. FromTop(0) \in Int /\ FromTop(1) \in Int
    <3>1. FromTop(0) \in CellRange /\ FromTop(1) \in CellRange
      BY <2>1, FromTopCell, 2 \in 1 .. 2
    <3> QED
      BY <3>1, CellSize
  <2>3. PICK v : v = Signed(FromTop(0) + FromTop(1))
    OBVIOUS
  <2>4. v \in CellRange
    BY <2>2, <2>3, SignedIsCell
  <2>5. PICK s : s = Append(Dropped(2), v)
    OBVIOUS
  <2>6. s \in Seq(CellRange) /\ Len(s) <= StackSize
    BY <2>1, <2>4, <2>5, RoomForOne, 2 \in 1 .. 2
  <2> QED
    BY <2>1, <2>3, <2>5, <2>6, BecomesInv
<1>6. CASE Divide(calls)
  <2>1. /\ Pops(2) /\ FromTop(0) # 0 /\ Quotient(FromTop(1), FromTop(0)) < 2 ^ (CellBits - 1)
        /\ Becomes(Append(Dropped(2), Quotient(FromTop(1), FromTop(0))), calls)
    BY <1>6 DEF Divide, Divides
  <2>2. FromTop(0) \in CellRange /\ FromTop(1) \in CellRange
    BY <2>1, FromTopCell, 2 \in 1 .. 2
  <2>3. PICK v : v = Quotient(FromTop(1), FromTop(0))
    OBVIOUS
  <2>4. v \in CellRange
    BY <2>1, <2>2, <2>3, QuotientIsCell
  <2>5. PICK s : s = Append(Dropped(2), v)
    OBVIOUS
  <2>6. s \in Seq(CellRange) /\ Len(s) <= StackSize
    BY <2>1, <2>4, <2>5, RoomForOne, 2 \in 1 .. 2
  <2> QED
    BY <2>1, <2>3, <2>5, <2>6, BecomesInv
<1> QED
  BY <1>1, <1>2, <1>3, <1>4, <1>5, <1>6 DEF Execute

LEMMA DispatchInv ==
  ASSUME ForthInv, NEW calls \in Seq(Frame), NEW c,
         c.color = NumberTag => c.cell \in CellRange,
         Dispatch(c, calls)
  PROVE  ForthInv'
<1>1. CASE Execute(Lookup(NameOf(c)), calls)
  BY <1>1, ExecuteInv
<1>2. CASE c.color = NumberTag /\ Push(c.cell \div 32, calls)
  <2>1. PICK v : v = c.cell \div 32
    OBVIOUS
  <2>2. v \in CellRange
    <3>1. PICK m \in Nat \ {0} : m = 2 ^ (CellBits - 1)
      BY CellSize
    <3>2. PICK x : x = c.cell
      OBVIOUS
    <3>3. x \in -m .. m - 1
      BY <1>2, <3>1, <3>2 DEF CellRange
    <3>4. x \div 32 \in -m .. m - 1
      BY <3>3
    <3> QED
      BY <2>1, <3>1, <3>2, <3>4 DEF CellRange
  <2>3. CASE Breaks
    BY <2>3, BreaksInv
  <2>4. CASE Len(stack) < StackSize /\ Becomes(Append(stack, v), calls)
    <3>1. PICK s : s = Append(stack, v)
      OBVIOUS
    <3>2. s \in Seq(CellRange) /\ Len(s) <= StackSize
      BY <2>2, <2>4, <3>1, ForthAssumption DEF ForthInv
    <3> QED
      BY <2>4, <3>1, <3>2, BecomesInv
  <2> QED
    BY <1>2, <2>1, <2>3, <2>4 DEF Push
<1>3. CASE Becomes(stack, calls)
  <2>1. stack \in Seq(CellRange) /\ Len(stack) <= StackSize
    BY DEF ForthInv
  <2> QED
    BY <1>3, <2>1, BecomesInv
<1> QED
  BY <1>1, <1>2, <1>3 DEF Dispatch

LEMMA LastFrame ==
  ASSUME ForthInv, frames # <<>>
  PROVE  /\ Last(frames) \in Frame /\ Front(frames) \in Seq(Frame)
         /\ \A g \in Frame : Advanced(g) \in Seq(Frame)
<1>1. frames \in Seq(Frame) /\ Len(frames) \in Nat \ {0}
  BY DEF ForthInv
<1>2. Last(frames) \in Frame
  BY <1>1 DEF Last
<1>3. Front(frames) \in Seq(Frame)
  BY <1>1 DEF Front
<1> QED
  BY <1>2, <1>3 DEF Advanced

LEMMA InterpretInv ==
  ASSUME ForthInv, Interpret
  PROVE  ForthInv'
<1>1. frames # <<>>
  BY DEF Interpret, RunCell, RunDone, LoadNext, LoadsDone, Open
<1>2. PICK f : f = Last(frames)
  OBVIOUS
<1>3. f \in Frame /\ Front(frames) \in Seq(Frame)
  BY <1>1, <1>2, LastFrame
<1>4. stack \in Seq(CellRange) /\ Len(stack) <= StackSize /\ blocks = Blocks
  BY DEF ForthInv
<1>5. CASE RunCell
  <2>1. /\ f.kind = "run" /\ f.to < BlockCells
        /\ Dispatch(blocks[f.at][f.to], Advanced([f EXCEPT !.to = f.to + 1]))
    BY <1>2, <1>5 DEF RunCell, Open
  <2>2. f.at \in DOMAIN Blocks /\ f.to \in 1 .. BlockCells
    BY <1>3, <2>1 DEF Frame
  <2>3. f \in [kind : {"run"}, at : DOMAIN Blocks, to : 1 .. BlockCells]
    BY <1>3, <2>1 DEF Frame
  <2>4. f.to + 1 \in 1 .. BlockCells
    BY <2>1, <2>2, WordsAssumption
  <2>5. [f EXCEPT !.to = f.to + 1] \in Frame
    BY <2>3, <2>4 DEF Frame
  <2>6. PICK calls : calls = Advanced([f EXCEPT !.to = f.to + 1])
    OBVIOUS
  <2>7. calls \in Seq(Frame)
    BY <1>1, <2>5, <2>6, LastFrame
  <2>8. PICK c : c = blocks[f.at][f.to]
    OBVIOUS
  <2>9. c.color = NumberTag => c.cell \in CellRange
    BY <1>4, <2>2, <2>8, ForthAssumption
  <2> QED
    BY <2>1, <2>6, <2>7, <2>8, <2>9, DispatchInv
<1>6. CASE RunDone
  <2>1. Becomes(stack, Front(frames))
    BY <1>6 DEF RunDone
  <2> QED
    BY <1>3, <1>4, <2>1, BecomesInv
<1>7. CASE LoadNext
  <2>1. f.kind = "loads"
    BY <1>2, <1>7 DEF LoadNext, Open
  <2>2. CASE Breaks
    BY <2>2, BreaksInv
  <2>3. CASE /\ f.at \in DOMAIN blocks
             /\ Becomes(stack, Append(Advanced([f EXCEPT !.at = f.at + Stride]), Run(f.at)))
    <3>1. f \in [kind : {"loads"}, at : Int, to : Int]
      BY <1>3, <2>1 DEF Frame
    <3>2. [f EXCEPT !.at = f.at + Stride] \in Frame
      BY <3>1 DEF Frame, Stride
    <3>3. Run(f.at) \in Frame
      <4>1. 1 \in 1 .. BlockCells
        BY WordsAssumption
      <4> QED
        BY <1>4, <2>3, <4>1 DEF Run, Frame
    <3>4. PICK calls : calls = Advanced([f EXCEPT !.at = f.at + Stride])
      OBVIOUS
    <3>5. calls \in Seq(Frame)
      BY <1>1, <3>2, <3>4, LastFrame
    <3>6. PICK more : more = Append(calls, Run(f.at))
      OBVIOUS
    <3>7. more \in Seq(Frame)
      BY <3>3, <3>5, <3>6
    <3> QED
      BY <1>4, <2>3, <3>4, <3>6, <3>7, BecomesInv
  <2> QED
    BY <1>2, <1>7, <2>2, <2>3 DEF LoadNext
<1>8. CASE LoadsDone
  <2>1. Becomes(stack, Front(frames))
    BY <1>8 DEF LoadsDone
  <2> QED
    BY <1>3, <1>4, <2>1, BecomesInv
<1> QED
  BY <1>5, <1>6, <1>7, <1>8 DEF Interpret

-----------------------------------------------------------------------------
(* The keys.                                                               *)

LEMMA NumberIsCell ==
  ASSUME NEW m \in Int
  PROVE  Number(m).color = NumberTag /\ Number(m).cell \in CellRange
<1>1. m * 32 + NumberTag \in Int
  BY DEF NumberTag
<1>2. Signed(m * 32 + NumberTag) \in CellRange
  BY <1>1, SignedIsCell
<1> QED
  BY <1>2 DEF Number

LEMMA NextLetter ==
  ASSUME NEW w \in Vocabulary, NEW v \in Seq(Letter \cup {NoLetter}), IsStrictPrefix(v, w)
  PROVE  w[Len(v) + 1] \in Letter /\ Len(v) + 1 \in 1 .. Len(w)
<1>1. w \in Seq(Letter)
  BY EditorAssumption
<1>2. Len(v) <= Len(w) /\ SubSeq(v, 1, Len(v)) = SubSeq(w, 1, Len(v)) /\ v # w
  BY DEF IsStrictPrefix, IsPrefix
<1>3. Len(v) # Len(w)
  <2>1. SubSeq(v, 1, Len(v)) = v /\ SubSeq(w, 1, Len(w)) = w
    BY <1>1
  <2> QED
    BY <1>2, <2>1
<1>4. Len(v) + 1 \in 1 .. Len(w)
  BY <1>1, <1>2, <1>3
<1> QED
  BY <1>1, <1>4

(* What atoi() returns is a number. *)
LEMMA AtoiIsNumber ==
  ASSUME NEW w \in Seq(Int)
  PROVE  Atoi(w) \in Int
<1> DEFINE value[i \in 0 .. Len(w)] ==
             IF i = 0 THEN 0 ELSE 10 * value[i - 1] + (w[i] - Zero)
           G == [i \in 1 .. Len(w) |-> [v \in Int |-> 10 * v + (w[i] - Zero)]]
<1>1. Atoi(w) = value[Len(w)]
  BY DEF Atoi
<1>2. PICK N \in Nat : N = Len(w)
  OBVIOUS
<1>3. G \in [1 .. N -> [Int -> Int]]
  <2>1. ASSUME NEW i \in 1 .. N, NEW v \in Int PROVE 10 * v + (w[i] - Zero) \in Int
    <3>1. w[i] \in Int
      BY <1>2
    <3> QED
      BY <3>1 DEF Zero
  <2> QED
    BY <1>2, <2>1
<1> HIDE DEF G
<1>4. PICK f \in [0 .. N -> Int] : f[0] = 0 /\ \A i \in 1 .. N : f[i] = G[i][f[i - 1]]
  <2>1. PICK T, c : T = Int /\ c = 0
    OBVIOUS
  <2>2. c \in T
    BY <2>1
  <2>3. PICK H : H = G
    OBVIOUS
  <2>4. H \in [1 .. N -> [T -> T]]
    BY <1>3, <2>1, <2>3
  <2>5. \E f \in [0 .. N -> T] : Follows(f, c, H, N)
    BY <2>2, <2>4, Recursion
  <2>6. \E f \in [0 .. N -> T] : f[0] = c /\ \A i \in 1 .. N : f[i] = G[i][f[i - 1]]
    BY <2>3, <2>5 DEF Follows
  <2> QED
    BY <2>1, <2>6
<1>5. ASSUME NEW i \in 0 .. N
      PROVE  f[i] = IF i = 0 THEN 0 ELSE 10 * f[i - 1] + (w[i] - Zero)
  <2>1. CASE i # 0
    <3>1. i \in 1 .. N /\ i - 1 \in 0 .. N /\ f[i - 1] \in Int
      BY <2>1
    <3>2. G[i][f[i - 1]] = 10 * f[i - 1] + (w[i] - Zero)
      BY <1>2, <3>1 DEF G
    <3> QED
      BY <1>4, <2>1, <3>1, <3>2
  <2> QED
    BY <1>4, <2>1
<1>6. f = [i \in 0 .. Len(w) |-> IF i = 0 THEN 0 ELSE 10 * f[i - 1] + (w[i] - Zero)]
  BY <1>2, <1>5
<1>7. value = [i \in 0 .. Len(w) |-> IF i = 0 THEN 0 ELSE 10 * value[i - 1] + (w[i] - Zero)]
  <2> DEFINE is(g) == g = [i \in 0 .. Len(w) |-> IF i = 0 THEN 0 ELSE 10 * g[i - 1] + (w[i] - Zero)]
  <2>1. \E g : is(g)
    BY <1>6
  <2>2. value = CHOOSE g : is(g)
    OBVIOUS
  <2> QED
    BY <2>1, <2>2
<1>8. PICK v : v = value
  OBVIOUS
<1> HIDE DEF value
<1>9. /\ \A i \in 1 .. N : v[i] = 10 * v[i - 1] + (w[i] - Zero)
      /\ v[0] = 0
  <2>1. ASSUME NEW i \in 0 .. N
        PROVE  v[i] = IF i = 0 THEN 0 ELSE 10 * v[i - 1] + (w[i] - Zero)
    BY <1>2, <1>7, <1>8
  <2>2. \A i \in 1 .. N : i \in 0 .. N /\ i # 0
    OBVIOUS
  <2> QED
    BY <2>1, <2>2, 0 \in 0 .. N
<1>10. \A d \in Nat : d \in {e \in Nat : e <= N => v[e] \in Int}
  <2> DEFINE S == {e \in Nat : e <= N => v[e] \in Int}
  <2>1. 0 \in S
    BY <1>9
  <2>2. ASSUME NEW d \in Nat, d \in S PROVE d + 1 \in S
    <3> SUFFICES ASSUME d + 1 <= N PROVE v[d + 1] \in Int
      OBVIOUS
    <3>1. d + 1 \in 1 .. N /\ (d + 1) - 1 = d /\ v[d] \in Int
      BY <2>2
    <3>2. v[d + 1] = 10 * v[d] + (w[d + 1] - Zero) /\ w[d + 1] \in Int
      BY <1>2, <1>9, <3>1
    <3>3. PICK x \in Int, y \in Int : x = v[d] /\ y = w[d + 1]
      BY <3>1, <3>2
    <3>4. 10 * x + (y - Zero) \in Int
      BY DEF Zero
    <3> QED
      BY <3>2, <3>3, <3>4
  <2> HIDE DEF S
  <2> QED
    BY <2>1, <2>2, Induct DEF S
<1> QED
  BY <1>1, <1>2, <1>8, <1>10

LEMMA LargerSeq ==
  ASSUME NEW S, NEW T, S \subseteq T, NEW s \in Seq(S)
  PROVE  s \in Seq(T)
OBVIOUS

LEMMA EmptySeq ==
  ASSUME NEW S
  PROVE  <<>> \in Seq(S)
OBVIOUS

LEMMA CommandInv ==
  ASSUME TypeInv, Command
  PROVE  ForthInv'
<1>1. ForthInv /\ <<>> \in Seq(Frame) /\ word \in Seq(Letter \cup {NoLetter})
  BY DEF TypeInv, EditorInv
<1>2. PICK none : none = <<>>
  OBVIOUS
<1>3. CASE Breaks
  BY <1>1, <1>3, BreaksInv
<1>4. CASE Dispatch(Number(Atoi(word)), none)
  <2>1. word \in Seq(Int)
    <3>1. Letter \cup {NoLetter} \subseteq Int
      BY DEF Letter, NoLetter
    <3> QED
      BY <1>1, <3>1, LargerSeq
  <2>2. Number(Atoi(word)).cell \in CellRange
    BY <2>1, AtoiIsNumber, NumberIsCell
  <2>3. PICK c : c = Number(Atoi(word))
    OBVIOUS
  <2> QED
    BY <1>1, <1>2, <1>4, <2>2, <2>3, DispatchInv
<1>5. CASE Dispatch(Word(Pack(word)), none)
  <2>1. PICK c : c = Word(Pack(word))
    OBVIOUS
  <2>2. c.color # NumberTag
    BY <2>1 DEF Word, WordTag, NumberTag
  <2> QED
    BY <1>1, <1>2, <1>5, <2>1, <2>2, DispatchInv
<1>6. CASE UNCHANGED forthVars
  BY <1>1, <1>6 DEF ForthInv, forthVars
<1> QED
  BY <1>2, <1>3, <1>4, <1>5, <1>6 DEF Command

LEMMA DiskSize ==
  /\ TotalBlocks \in Nat \/ blocks # Blocks
  /\ DOMAIN Blocks = 0 .. Cardinality(DOMAIN Blocks) - 1 /\ Cardinality(DOMAIN Blocks) \in Nat \ {0}
<1>1. Cardinality(DOMAIN Blocks) \in Nat
  BY ForthAssumption, FS_CardinalityType
<1>2. DOMAIN Blocks = 0 .. Cardinality(DOMAIN Blocks) - 1 /\ 0 \in DOMAIN Blocks
  BY ForthAssumption
<1>3. Cardinality(DOMAIN Blocks) # 0
  BY <1>1, <1>2
<1> QED
  BY <1>1, <1>2, <1>3 DEF TotalBlocks

LEMMA KeyInv ==
  ASSUME TypeInv, Edit
  PROVE  TypeInv'
<1> USE DEF TypeInv, EditorInv
<1>1. ForthInv' /\ blocks' = blocks
  <2>1. UNCHANGED forthVars
    BY DEF Edit, Escape, F2, Control, Blank, PageUp, PageDown, OtherKey, Select, Type, Show
  <2> QED
    BY <2>1 DEF ForthInv, forthVars
<1>2. CASE Escape
  BY <1>1, <1>2 DEF Escape
<1>3. CASE F2
  BY <1>1, <1>3 DEF F2
<1>4. CASE Control
  <2>1. word' = Append(word, NoLetter)
    BY <1>4 DEF Control
  <2>2. word' \in Seq(Letter \cup {NoLetter})
    BY <2>1
  <2> QED
    BY <1>1, <1>4, <2>2 DEF Control
<1>5. CASE Blank
  BY <1>1, <1>5, EmptySeq DEF Blank
<1>6. ASSUME NEW m \in DOMAIN blocks, Show(m) PROVE TypeInv'
  BY <1>1, <1>6 DEF Show
<1>7. blocks = Blocks /\ nbBlock \in DOMAIN blocks
  BY DEF ForthInv
<1>8. CASE PageUp
  <2>1. nbBlock - 1 # -1 /\ Show(nbBlock - 1)
    BY <1>8 DEF PageUp
  <2>2. nbBlock - 1 \in DOMAIN blocks
    BY <1>7, <2>1, DiskSize
  <2> QED
    BY <1>6, <2>1, <2>2
<1>9. CASE PageDown
  <2>1. nbBlock + 1 <= TotalBlocks - 1 /\ Show(nbBlock + 1)
    BY <1>9 DEF PageDown
  <2>2. nbBlock + 1 \in DOMAIN blocks
    BY <1>7, <2>1, DiskSize DEF TotalBlocks
  <2> QED
    BY <1>6, <2>1, <2>2
<1>10. CASE OtherKey
  BY <1>6, <1>7, <1>10 DEF OtherKey
<1>11. CASE \E l \in ColorLetter \cup {LetterE} : Select(l)
  BY <1>1, <1>11 DEF Select
<1>12. ASSUME NEW w \in Vocabulary, Type(w) PROVE TypeInv'
  <2>1. PICK l : l = w[Len(word) + 1]
    OBVIOUS
  <2>2. word' = Append(word, l) /\ IsStrictPrefix(word, w)
    BY <1>12, <2>1 DEF Type
  <2>3. l \in Letter
    BY <2>1, <2>2, NextLetter
  <2>4. word' \in Seq(Letter \cup {NoLetter})
    BY <2>2, <2>3
  <2> QED
    BY <1>1, <1>12, <2>4 DEF Type
<1> QED
  BY <1>2, <1>3, <1>4, <1>5, <1>8, <1>9, <1>10, <1>11, <1>12 DEF Edit

LEMMA TypeInit ==
  Init => TypeInv
<1> SUFFICES ASSUME Init PROVE TypeInv
  OBVIOUS
<1>1. blocks = Blocks /\ stack = <<>> /\ frames = <<>> /\ broken = FALSE
  BY DEF Init, ForthInit
<1>2. <<>> \in Seq(CellRange) /\ <<>> \in Seq(Frame) /\ Len(<<>>) = 0
      /\ <<>> \in Seq(Letter \cup {NoLetter})
  OBVIOUS
<1>3. StackSize \in Nat /\ 0 \in DOMAIN Blocks
  BY ForthAssumption
<1> QED
  BY <1>1, <1>2, <1>3 DEF Init, TypeInv, ForthInv, EditorInv

LEMMA TypeStep ==
  TypeInv /\ [Next]_vars => TypeInv'
<1> SUFFICES ASSUME TypeInv, [Next]_vars PROVE TypeInv'
  OBVIOUS
<1>1. CASE UNCHANGED vars
  BY <1>1 DEF vars, forthVars, editorVars, TypeInv, ForthInv, EditorInv
<1>2. CASE Edit
  BY <1>2, KeyInv
<1>3. CASE Command
  <2>1. ForthInv'
    BY <1>3, CommandInv
  <2>2. blocks' = blocks
    BY <2>1 DEF TypeInv, ForthInv
  <2>3. word' = <<>> /\ escape' = FALSE /\ UNCHANGED <<isCommand, nbBlock>>
    BY <1>3 DEF Command
  <2> QED
    BY <2>1, <2>2, <2>3, EmptySeq DEF TypeInv, EditorInv
<1>4. CASE Go
  <2>1. ForthInv'
    BY <1>4, InterpretInv DEF Go, TypeInv
  <2>2. blocks' = blocks
    BY <2>1 DEF TypeInv, ForthInv
  <2> QED
    BY <1>4, <2>1, <2>2 DEF Go, editorVars, TypeInv, EditorInv
<1> QED
  BY <1>1, <1>2, <1>3, <1>4 DEF Next

(* The data stack stays in its array and its items in their cells, whatever *)
(* is run; the calls that are open are of blocks of the disk; the page on   *)
(* the screen is one of the disk.                                           *)
THEOREM EditorTypes == Spec => []TypeOK
<1>1. TypeInv => TypeOK
  <2> SUFFICES ASSUME TypeInv PROVE TypeOK
    OBVIOUS
  <2>1. ASSUME NEW i \in DOMAIN frames, frames[i].kind = "run"
        PROVE  frames[i].at \in DOMAIN blocks /\ frames[i].to \in 1 .. BlockCells
    <3>1. frames[i] \in Frame
      BY DEF TypeInv, ForthInv
    <3> QED
      BY <2>1, <3>1 DEF TypeInv, ForthInv, Frame
  <2> QED
    BY <2>1 DEF TypeOK, TypeInv, ForthInv, EditorInv
<1> QED
  BY <1>1, TypeInit, TypeStep, PTL DEF Spec

-----------------------------------------------------------------------------
(* The code of a letter: its bits give the letter back, and are not all    *)
(* zero.                                                                   *)

Bit == {0, 1}

LEMMA Powers ==
  /\ 2 ^ 0 = 1 /\ 2 ^ 1 = 2 /\ 2 ^ 2 = 4 /\ 2 ^ 3 = 8
  /\ 2 ^ 4 = 16 /\ 2 ^ 5 = 32 /\ 2 ^ 6 = 64
OBVIOUS

LEMMA BitsAre ==
  ASSUME NEW v \in Nat, NEW m \in Nat
  PROVE  /\ Bits(v, m) \in Seq(Bit) /\ Len(Bits(v, m)) = m
         /\ \A i \in 1 .. m : Bits(v, m)[i] = (v \div 2 ^ (m - i)) % 2
<1>1. ASSUME NEW i \in 1 .. m PROVE (v \div 2 ^ (m - i)) % 2 \in Bit
  <2>1. m - i \in Nat
    OBVIOUS
  <2>2. PICK e \in Nat : e = m - i
    BY <2>1
  <2>3. 2 ^ e \in Nat \ {0}
    <3>1. IsFiniteSet(SUBSET (1 .. e)) /\ Cardinality(SUBSET (1 .. e)) = 2 ^ e /\ 2 ^ e \in Nat
      BY PowerIsCard
    <3>2. {} \in SUBSET (1 .. e)
      OBVIOUS
    <3> QED
      BY <3>1, <3>2, FS_EmptySet
  <2>4. PICK p \in Nat \ {0} : p = 2 ^ e
    BY <2>3
  <2>5. v \div p \in Int
    OBVIOUS
  <2>6. (v \div p) % 2 \in 0 .. 1
    BY <2>5
  <2> QED
    BY <2>2, <2>4, <2>6 DEF Bit
<1>2. PICK s : s = Bits(v, m)
  OBVIOUS
<1>3. s = [i \in 1 .. m |-> (v \div 2 ^ (m - i)) % 2]
  BY <1>2 DEF Bits
<1>4. s \in [1 .. m -> Bit]
  BY <1>1, <1>3
<1>5. s \in Seq(Bit) /\ Len(s) = m
  BY <1>4
<1> QED
  BY <1>2, <1>3, <1>5

LEMMA ShortCode ==
  ASSUME NEW l \in 1 .. 7
  PROVE  /\ CodeLength(l) = 4 /\ CodeOf(l) \in Seq(Bit) /\ Len(CodeOf(l)) = 4
         /\ 8 * CodeOf(l)[1] + 4 * CodeOf(l)[2] + 2 * CodeOf(l)[3] + CodeOf(l)[4] = l
<1>1. CodeLength(l) = 4 /\ CodeOf(l) = Bits(l, 4)
  BY DEF CodeOf, CodeLength
<1>2. /\ Bits(l, 4) \in Seq(Bit) /\ Len(Bits(l, 4)) = 4
      /\ \A i \in 1 .. 4 : Bits(l, 4)[i] = (l \div 2 ^ (4 - i)) % 2
  <2>1. l \in Nat /\ 4 \in Nat
    OBVIOUS
  <2>2. PICK m : m = 4
    OBVIOUS
  <2>3. /\ Bits(l, m) \in Seq(Bit) /\ Len(Bits(l, m)) = m
        /\ \A i \in 1 .. m : Bits(l, m)[i] = (l \div 2 ^ (m - i)) % 2
    BY <2>1, <2>2, BitsAre
  <2> QED
    BY <2>2, <2>3
<1>3. /\ Bits(l, 4)[1] = (l \div 8) % 2 /\ Bits(l, 4)[2] = (l \div 4) % 2
      /\ Bits(l, 4)[3] = (l \div 2) % 2 /\ Bits(l, 4)[4] = (l \div 1) % 2
  BY <1>2, Powers, 4 - 1 = 3, 4 - 2 = 2, 4 - 3 = 1, 4 - 4 = 0
<1>4. 8 * ((l \div 8) % 2) + 4 * ((l \div 4) % 2) + 2 * ((l \div 2) % 2) + ((l \div 1) % 2) = l
  OBVIOUS
<1> QED
  BY <1>1, <1>2, <1>3, <1>4

LEMMA MiddleCode ==
  ASSUME NEW l \in 8 .. 15
  PROVE  /\ CodeLength(l) = 5 /\ CodeOf(l) \in Seq(Bit) /\ Len(CodeOf(l)) = 5
         /\ LET nibble == 8 * CodeOf(l)[1] + 4 * CodeOf(l)[2] + 2 * CodeOf(l)[3] + CodeOf(l)[4]
            IN  nibble \in 8 .. 11 /\ 2 * (nibble - 4) + CodeOf(l)[5] = l
<1>1. CodeLength(l) = 5 /\ CodeOf(l) = Bits(l + 8, 5)
  BY DEF CodeOf, CodeLength
<1>2. PICK v \in 16 .. 23 : v = l + 8
  OBVIOUS
<1>3. /\ Bits(v, 5) \in Seq(Bit) /\ Len(Bits(v, 5)) = 5
      /\ \A i \in 1 .. 5 : Bits(v, 5)[i] = (v \div 2 ^ (5 - i)) % 2
  <2>1. v \in Nat /\ 5 \in Nat
    OBVIOUS
  <2>2. PICK m : m = 5
    OBVIOUS
  <2>3. /\ Bits(v, m) \in Seq(Bit) /\ Len(Bits(v, m)) = m
        /\ \A i \in 1 .. m : Bits(v, m)[i] = (v \div 2 ^ (m - i)) % 2
    BY <2>1, <2>2, BitsAre
  <2> QED
    BY <2>2, <2>3
<1>4. /\ Bits(v, 5)[1] = (v \div 16) % 2 /\ Bits(v, 5)[2] = (v \div 8) % 2
      /\ Bits(v, 5)[3] = (v \div 4) % 2 /\ Bits(v, 5)[4] = (v \div 2) % 2
      /\ Bits(v, 5)[5] = (v \div 1) % 2
  BY <1>3, Powers, 5 - 1 = 4, 5 - 2 = 3, 5 - 3 = 2, 5 - 4 = 1, 5 - 5 = 0
<1>5. 8 * ((v \div 16) % 2) + 4 * ((v \div 8) % 2) + 2 * ((v \div 4) % 2) + ((v \div 2) % 2)
        = v \div 2
  OBVIOUS
<1>6. v \div 2 \in 8 .. 11 /\ 2 * ((v \div 2) - 4) + ((v \div 1) % 2) = v - 8
  OBVIOUS
<1>7. PICK c : c = CodeOf(l)
  OBVIOUS
<1>8. c = Bits(v, 5)
  BY <1>1, <1>2, <1>7
<1>9. CodeLength(l) = 5 /\ c \in Seq(Bit) /\ Len(c) = 5
  BY <1>1, <1>3, <1>8
<1>10. 8 * c[1] + 4 * c[2] + 2 * c[3] + c[4] = v \div 2 /\ c[5] = (v \div 1) % 2
  BY <1>4, <1>5, <1>8
<1> QED
  BY <1>2, <1>6, <1>7, <1>9, <1>10

LEMMA LongCode ==
  ASSUME NEW l \in 16 .. 47
  PROVE  /\ CodeLength(l) = 7 /\ CodeOf(l) \in Seq(Bit) /\ Len(CodeOf(l)) = 7
         /\ LET nibble == 8 * CodeOf(l)[1] + 4 * CodeOf(l)[2] + 2 * CodeOf(l)[3] + CodeOf(l)[4]
                three  == 4 * CodeOf(l)[5] + 2 * CodeOf(l)[6] + CodeOf(l)[7]
            IN  nibble \in 12 .. 15 /\ 8 * (nibble - 10) + three = l
<1>1. CodeLength(l) = 7 /\ CodeOf(l) = Bits(l + 80, 7)
  BY DEF CodeOf, CodeLength
<1>2. PICK v \in 96 .. 127 : v = l + 80
  OBVIOUS
<1>3. /\ Bits(v, 7) \in Seq(Bit) /\ Len(Bits(v, 7)) = 7
      /\ \A i \in 1 .. 7 : Bits(v, 7)[i] = (v \div 2 ^ (7 - i)) % 2
  <2>1. v \in Nat /\ 7 \in Nat
    OBVIOUS
  <2>2. PICK m : m = 7
    OBVIOUS
  <2>3. /\ Bits(v, m) \in Seq(Bit) /\ Len(Bits(v, m)) = m
        /\ \A i \in 1 .. m : Bits(v, m)[i] = (v \div 2 ^ (m - i)) % 2
    BY <2>1, <2>2, BitsAre
  <2> QED
    BY <2>2, <2>3
<1>4. /\ Bits(v, 7)[1] = (v \div 64) % 2 /\ Bits(v, 7)[2] = (v \div 32) % 2
      /\ Bits(v, 7)[3] = (v \div 16) % 2 /\ Bits(v, 7)[4] = (v \div 8) % 2
      /\ Bits(v, 7)[5] = (v \div 4) % 2 /\ Bits(v, 7)[6] = (v \div 2) % 2
      /\ Bits(v, 7)[7] = (v \div 1) % 2
  BY <1>3, Powers, 7 - 1 = 6, 7 - 2 = 5, 7 - 3 = 4, 7 - 4 = 3, 7 - 5 = 2, 7 - 6 = 1, 7 - 7 = 0
<1>5. 8 * ((v \div 64) % 2) + 4 * ((v \div 32) % 2) + 2 * ((v \div 16) % 2) + ((v \div 8) % 2)
        = v \div 8
  OBVIOUS
<1>6. /\ v \div 8 \in 12 .. 15
      /\ 8 * ((v \div 8) - 10) + (4 * ((v \div 4) % 2) + 2 * ((v \div 2) % 2) + ((v \div 1) % 2))
           = v - 80
  OBVIOUS
<1>7. PICK c : c = CodeOf(l)
  OBVIOUS
<1>8. c = Bits(v, 7)
  BY <1>1, <1>2, <1>7
<1>9. CodeLength(l) = 7 /\ c \in Seq(Bit) /\ Len(c) = 7
  BY <1>1, <1>3, <1>8
<1>10. /\ 8 * c[1] + 4 * c[2] + 2 * c[3] + c[4] = v \div 8
       /\ 4 * c[5] + 2 * c[6] + c[7] = 4 * ((v \div 4) % 2) + 2 * ((v \div 2) % 2) + ((v \div 1) % 2)
  BY <1>4, <1>5, <1>8
<1> QED
  BY <1>2, <1>6, <1>7, <1>9, <1>10

LEMMA CodeBits ==
  ASSUME NEW l \in Letter
  PROVE  /\ CodeOf(l) \in Seq(Bit) /\ Len(CodeOf(l)) = CodeLength(l) /\ CodeLength(l) \in {4, 5, 7}
         /\ \E i \in 1 .. CodeLength(l) : CodeOf(l)[i] # 0
<1>1. PICK c : c = CodeOf(l)
  OBVIOUS
<1>2. CASE l \in 1 .. 7
  <2>1. CodeLength(l) = 4 /\ c \in Seq(Bit) /\ Len(c) = 4 /\ 8 * c[1] + 4 * c[2] + 2 * c[3] + c[4] = l
    BY <1>1, <1>2, ShortCode
  <2>2. 1 \in 1 .. 4 /\ 2 \in 1 .. 4 /\ 3 \in 1 .. 4 /\ 4 \in 1 .. 4
    OBVIOUS
  <2>3. c[1] # 0 \/ c[2] # 0 \/ c[3] # 0 \/ c[4] # 0
    BY <1>2, <2>1
  <2> QED
    BY <1>1, <2>1, <2>2, <2>3
<1>3. CASE l \in 8 .. 15
  <2>1. /\ CodeLength(l) = 5 /\ c \in Seq(Bit) /\ Len(c) = 5
        /\ 8 * c[1] + 4 * c[2] + 2 * c[3] + c[4] \in 8 .. 11
    BY <1>1, <1>3, MiddleCode
  <2>2. 1 \in 1 .. 5 /\ 2 \in 1 .. 5 /\ 3 \in 1 .. 5 /\ 4 \in 1 .. 5
    OBVIOUS
  <2>3. c[1] # 0 \/ c[2] # 0 \/ c[3] # 0 \/ c[4] # 0
    BY <2>1
  <2> QED
    BY <1>1, <2>1, <2>2, <2>3
<1>4. CASE l \in 16 .. 47
  <2>1. /\ CodeLength(l) = 7 /\ c \in Seq(Bit) /\ Len(c) = 7
        /\ 8 * c[1] + 4 * c[2] + 2 * c[3] + c[4] \in 12 .. 15
    BY <1>1, <1>4, LongCode
  <2>2. 1 \in 1 .. 7 /\ 2 \in 1 .. 7 /\ 3 \in 1 .. 7 /\ 4 \in 1 .. 7
    OBVIOUS
  <2>3. c[1] # 0 \/ c[2] # 0 \/ c[3] # 0 \/ c[4] # 0
    BY <2>1
  <2> QED
    BY <1>1, <2>1, <2>2, <2>3
<1>5. l \in 1 .. 7 \/ l \in 8 .. 15 \/ l \in 16 .. 47
  BY DEF Letter
<1> QED
  BY <1>2, <1>3, <1>4, <1>5

-----------------------------------------------------------------------------
(* The codes of the letters of a word, one after the other.                *)

(* u gives the bits of the first letters of w. *)
CodedUpTo(u, w) ==
  /\ u \in [0 .. Len(w) -> Seq(Bit)] /\ u[0] = <<>>
  /\ \A i \in 1 .. Len(w) : u[i] = u[i - 1] \o CodeOf(w[i])

LEMMA CodedIs ==
  ASSUME NEW w \in Seq(Letter)
  PROVE  \E u : CodedUpTo(u, w) /\ Coded(w) = u[Len(w)]
<1> DEFINE upto[i \in 0 .. Len(w)] ==
             IF i = 0 THEN <<>> ELSE upto[i - 1] \o CodeOf(w[i])
           G == [i \in 1 .. Len(w) |-> [v \in Seq(Bit) |-> v \o CodeOf(w[i])]]
<1>1. Coded(w) = upto[Len(w)]
  BY DEF Coded
<1>2. PICK N \in Nat : N = Len(w)
  OBVIOUS
<1>3. PICK T : T = Seq(Bit)
  OBVIOUS
<1>4. \A i \in 1 .. N : CodeOf(w[i]) \in Seq(Bit)
  BY <1>2, CodeBits
<1>5. G \in [1 .. N -> [T -> T]]
  <2>1. ASSUME NEW i \in 1 .. N, NEW v \in T PROVE v \o CodeOf(w[i]) \in T
    BY <1>3, <1>4
  <2> QED
    BY <1>2, <1>3, <2>1
<1>6. PICK H : H = G
  OBVIOUS
<1>7. ASSUME NEW i \in 1 .. N, NEW v \in T PROVE H[i][v] = v \o CodeOf(w[i])
  BY <1>2, <1>3, <1>6
<1> HIDE DEF G
<1>8. PICK c : c = <<>> /\ c \in T
  BY <1>3, EmptySeq
<1>9. PICK f \in [0 .. N -> T] : Follows(f, c, H, N)
  <2>1. H \in [1 .. N -> [T -> T]]
    BY <1>5, <1>6
  <2> QED
    BY <1>8, <2>1, Recursion
<1>10. ASSUME NEW i \in 0 .. N
       PROVE  f[i] = IF i = 0 THEN <<>> ELSE f[i - 1] \o CodeOf(w[i])
  <2>1. CASE i # 0
    <3>1. i \in 1 .. N /\ i - 1 \in 0 .. N /\ f[i - 1] \in T
      BY <2>1
    <3>2. f[i] = H[i][f[i - 1]]
      BY <1>9, <3>1 DEF Follows
    <3> QED
      BY <1>7, <2>1, <3>1, <3>2
  <2> QED
    BY <1>8, <1>9, <2>1 DEF Follows
<1>11. f = [i \in 0 .. Len(w) |-> IF i = 0 THEN <<>> ELSE f[i - 1] \o CodeOf(w[i])]
  BY <1>2, <1>10
<1>12. upto = [i \in 0 .. Len(w) |-> IF i = 0 THEN <<>> ELSE upto[i - 1] \o CodeOf(w[i])]
  <2> DEFINE is(g) == g = [i \in 0 .. Len(w) |-> IF i = 0 THEN <<>> ELSE g[i - 1] \o CodeOf(w[i])]
  <2>1. \E g : is(g)
    BY <1>11
  <2>2. upto = CHOOSE g : is(g)
    OBVIOUS
  <2> QED
    BY <2>1, <2>2
<1>13. PICK u : u = upto
  OBVIOUS
<1> HIDE DEF upto
<1>14. ASSUME NEW i \in 0 .. N
       PROVE  u[i] = IF i = 0 THEN <<>> ELSE u[i - 1] \o CodeOf(w[i])
  BY <1>2, <1>12, <1>13
<1>15. \A i \in 1 .. N : u[i] = u[i - 1] \o CodeOf(w[i])
  <2>1. \A i \in 1 .. N : i \in 0 .. N /\ i # 0
    OBVIOUS
  <2> QED
    BY <1>14, <2>1
<1>16. \A d \in Nat : d \in {e \in Nat : e <= N => u[e] \in Seq(Bit)}
  <2> DEFINE S == {e \in Nat : e <= N => u[e] \in Seq(Bit)}
  <2>1. 0 \in S
    <3>1. u[0] = <<>>
      BY <1>14, 0 \in 0 .. N
    <3> QED
      BY <3>1, EmptySeq
  <2>2. ASSUME NEW d \in Nat, d \in S PROVE d + 1 \in S
    <3> SUFFICES ASSUME d + 1 <= N PROVE u[d + 1] \in Seq(Bit)
      OBVIOUS
    <3>1. d + 1 \in 1 .. N /\ (d + 1) - 1 = d /\ u[d] \in Seq(Bit)
      BY <2>2
    <3>2. u[d + 1] = u[d] \o CodeOf(w[d + 1]) /\ CodeOf(w[d + 1]) \in Seq(Bit)
      BY <1>4, <1>15, <3>1
    <3> QED
      BY <3>1, <3>2
  <2> HIDE DEF S
  <2> QED
    BY <2>1, <2>2, Induct DEF S
<1>17. \A d \in 0 .. N : u[d] \in Seq(Bit)
  BY <1>16
<1>18. u = [i \in 0 .. N |-> u[i]]
  BY <1>2, <1>12, <1>13
<1>19. u \in [0 .. N -> Seq(Bit)]
  BY <1>17, <1>18
<1>20. u[0] = <<>>
  BY <1>14, 0 \in 0 .. N
<1> QED
  BY <1>1, <1>2, <1>13, <1>15, <1>19, <1>20 DEF CodedUpTo

(* The bits of a letter are where the bits of the letters before it end.   *)
LEMMA PrefixBits ==
  ASSUME NEW w \in Seq(Letter), NEW u, CodedUpTo(u, w), NEW i \in 0 .. Len(w)
  PROVE  /\ Len(u[i]) \in 0 .. Len(u[Len(w)])
         /\ \A q \in 1 .. Len(u[i]) : u[Len(w)][q] = u[i][q]
<1>1. PICK N \in Nat : N = Len(w)
  OBVIOUS
<1>2. u \in [0 .. N -> Seq(Bit)]
  BY <1>1 DEF CodedUpTo
<1> DEFINE kept(j) == /\ Len(u[j]) \in 0 .. Len(u[N])
                      /\ \A q \in 1 .. Len(u[j]) : u[N][q] = u[j][q]
           S == {d \in Nat : d <= N => kept(N - d)}
<1>3. 0 \in S
  <2>1. N - 0 = N /\ u[N] \in Seq(Bit)
    BY <1>2, N \in 0 .. N
  <2>2. kept(N)
    BY <2>1
  <2> QED
    BY <2>1, <2>2
<1>4. ASSUME NEW d \in Nat, d \in S PROVE d + 1 \in S
  <2> SUFFICES ASSUME d + 1 <= N PROVE kept(N - (d + 1))
    OBVIOUS
  <2>1. PICK j : j = N - d
    OBVIOUS
  <2>2. j \in 1 .. N /\ j \in 0 .. N /\ j - 1 \in 0 .. N /\ N - (d + 1) = j - 1
    BY <2>1
  <2>3. kept(j)
    BY <1>4, <2>1
  <2>4. u[j] = u[j - 1] \o CodeOf(w[j])
    BY <1>1, <2>2 DEF CodedUpTo
  <2>5. PICK a, c : a = u[j - 1] /\ c = CodeOf(w[j])
    OBVIOUS
  <2>6. a \in Seq(Bit) /\ c \in Seq(Bit) /\ u[j] = a \o c
    <3>1. w[j] \in Letter
      BY <1>1, <2>2
    <3>2. c \in Seq(Bit)
      BY <2>5, <3>1, CodeBits
    <3>3. a \in Seq(Bit)
      BY <1>2, <2>2, <2>5
    <3> QED
      BY <2>4, <2>5, <3>2, <3>3
  <2>7. Len(a) \in 0 .. Len(u[j]) /\ \A q \in 1 .. Len(a) : q \in 1 .. Len(u[j]) /\ u[j][q] = a[q]
    BY <2>6
  <2>8. kept(j - 1)
    <3>1. Len(a) \in 0 .. Len(u[N])
      BY <2>3, <2>7
    <3>2. \A q \in 1 .. Len(a) : u[N][q] = a[q]
      BY <2>3, <2>7
    <3> QED
      BY <2>5, <3>1, <3>2
  <2> QED
    BY <2>2, <2>8
<1>5. \A d \in Nat : d \in S
  <2> HIDE DEF S
  <2> QED
    BY <1>3, <1>4, Induct
<1>6. N - i \in Nat /\ N - i <= N /\ N - (N - i) = i
  BY <1>1
<1>7. kept(N - (N - i))
  BY <1>5, <1>6
<1> QED
  BY <1>1, <1>6, <1>7

LEMMA LetterBits ==
  ASSUME NEW w \in Seq(Letter), NEW u, CodedUpTo(u, w), NEW i \in 1 .. Len(w)
  PROVE  /\ Len(u[i - 1]) \in Nat /\ Len(u[i]) = Len(u[i - 1]) + CodeLength(w[i])
         /\ Len(u[i]) <= Len(u[Len(w)])
         /\ \A j \in 1 .. CodeLength(w[i]) : u[Len(w)][Len(u[i - 1]) + j] = CodeOf(w[i])[j]
<1>1. PICK a, c, b : a = u[i - 1] /\ c = CodeOf(w[i]) /\ b = u[i]
  OBVIOUS
<1>2. i - 1 \in 0 .. Len(w) /\ i \in 0 .. Len(w) /\ w[i] \in Letter
  OBVIOUS
<1>3. a \in Seq(Bit) /\ b \in Seq(Bit) /\ b = a \o c
  BY <1>1, <1>2 DEF CodedUpTo
<1>4. c \in Seq(Bit) /\ Len(c) = CodeLength(w[i]) /\ CodeLength(w[i]) \in Nat
  BY <1>1, <1>2, CodeBits
<1>5. /\ Len(b) \in 0 .. Len(u[Len(w)])
      /\ \A q \in 1 .. Len(b) : u[Len(w)][q] = b[q]
  BY <1>1, <1>2, PrefixBits
<1>6. Len(b) = Len(a) + Len(c) /\ Len(a) \in Nat
  <2>1. c \in Seq(Bit)
    BY <1>4
  <2>2. Len(a \o c) = Len(a) + Len(c)
    BY <1>3, <2>1
  <2> QED
    BY <1>3, <2>2
<1>7. ASSUME NEW j \in 1 .. Len(c) PROVE u[Len(w)][Len(a) + j] = c[j]
  <2>1. Len(a) + j \in 1 .. Len(b)
    BY <1>4, <1>6
  <2>2. b[Len(a) + j] = c[j]
    BY <1>3, <1>4
  <2> QED
    BY <1>5, <2>1, <2>2
<1>8. Len(b) <= Len(u[Len(w)])
  BY <1>5
<1> QED
  BY <1>1, <1>4, <1>6, <1>7, <1>8

-----------------------------------------------------------------------------
(* unpack().                                                               *)

BitAt(name, p) == IF p <= NameBits THEN name[p] ELSE 0
Three(name, p) == 4 * BitAt(name, p) + 2 * BitAt(name, p + 1) + BitAt(name, p + 2)
Nibble(name, p) == 8 * BitAt(name, p) + Three(name, p + 1)

(* The letters from the bit p on, when f gives those from later bits. *)
Letters(f, name, p) ==
  IF \A q \in p .. NameBits : BitAt(name, q) = 0 THEN <<>>
  ELSE IF Nibble(name, p) < 8 THEN <<Nibble(name, p)>> \o f[p + 4]
  ELSE IF Nibble(name, p) < 12 THEN <<2 * (Nibble(name, p) - 4) + BitAt(name, p + 4)>> \o f[p + 5]
  ELSE <<8 * (Nibble(name, p) - 10) + Three(name, p + 4)>> \o f[p + 7]

LEMMA UnpackIs ==
  ASSUME NEW name
  PROVE  \E f : Unpack(name) = f[1] /\ \A p \in 1 .. NameBits + 7 : f[p] = Letters(f, name, p)
<1> DEFINE is(f) == f = [p \in 1 .. NameBits + 7 |-> Letters(f, name, p)]
           good(f, p) == f[p] = Letters(f, name, p)
           S == {d \in Nat : d <= 35 => \E f : /\ f = [p \in 1 .. 35 |-> f[p]]
                                               /\ \A p \in 36 - d .. 35 : good(f, p)}
<1>1. Unpack(name) = (CHOOSE f : is(f))[1]
  BY DEF Unpack, Letters, Nibble, Three, BitAt
<1>2. 0 \in S
  <2>1. PICK f : f = [p \in 1 .. 35 |-> 0]
    OBVIOUS
  <2>2. f = [p \in 1 .. 35 |-> f[p]]
    BY <2>1
  <2> QED
    BY <2>2
<1>3. ASSUME NEW d \in Nat, d \in S PROVE d + 1 \in S
  <2> SUFFICES ASSUME d + 1 <= 35
               PROVE  \E g : /\ g = [p \in 1 .. 35 |-> g[p]]
                             /\ \A p \in 36 - (d + 1) .. 35 : good(g, p)
    OBVIOUS
  <2>1. PICK f : f = [p \in 1 .. 35 |-> f[p]] /\ \A p \in 36 - d .. 35 : good(f, p)
    BY <1>3
  <2>2. PICK e : e = 35 - d
    OBVIOUS
  <2>3. e \in 1 .. 35 /\ 36 - d = e + 1 /\ 36 - (d + 1) = e
    BY <2>2
  <2>4. PICK v : v = Letters(f, name, e)
    OBVIOUS
  <2>5. PICK g : g = [f EXCEPT ![e] = v]
    OBVIOUS
  <2>6. /\ g = [p \in 1 .. 35 |-> g[p]] /\ g[e] = v
        /\ \A p \in 1 .. 35 : p # e => g[p] = f[p]
    BY <2>1, <2>3, <2>5
  <2>7. ASSUME NEW p \in e .. 35 PROVE Letters(g, name, p) = Letters(f, name, p)
    <3>1. CASE p > 28
      <4>1. p .. NameBits = {}
        BY <2>3, <3>1 DEF NameBits
      <4> QED
        BY <4>1 DEF Letters
    <3>2. CASE p <= 28
      <4>1. g[p + 4] = f[p + 4] /\ g[p + 5] = f[p + 5] /\ g[p + 7] = f[p + 7]
        BY <2>3, <2>6, <3>2
      <4> QED
        BY <4>1 DEF Letters
    <3> QED
      BY <2>3, <3>1, <3>2
  <2>8. ASSUME NEW p \in e .. 35 PROVE good(g, p)
    <3>1. CASE p = e
      BY <2>4, <2>6, <2>7, <3>1
    <3>2. CASE p # e
      <4>1. p \in e + 1 .. 35 /\ p \in 1 .. 35
        BY <2>3, <3>2
      <4>2. f[p] = Letters(f, name, p) /\ g[p] = f[p]
        BY <2>1, <2>3, <2>6, <3>2, <4>1
      <4> QED
        BY <2>7, <4>2
    <3> QED
      BY <3>1, <3>2
  <2> QED
    BY <2>3, <2>6, <2>8
<1> HIDE DEF S
<1>4. 35 \in S
  BY <1>2, <1>3, Induct
<1>5. PICK f : f = [p \in 1 .. 35 |-> f[p]] /\ \A p \in 1 .. 35 : good(f, p)
  <2>1. 36 - 35 = 1
    OBVIOUS
  <2> QED
    BY <1>4, <2>1 DEF S
<1>6. is(f)
  <2>1. NameBits + 7 = 35
    BY DEF NameBits
  <2>2. PICK step : step = [p \in 1 .. 35 |-> Letters(f, name, p)]
    OBVIOUS
  <2>3. f = step
    BY <1>5, <2>2
  <2> QED
    BY <2>1, <2>2, <2>3
<1>7. PICK g : g = CHOOSE h : is(h)
  OBVIOUS
<1>8. is(g)
  BY <1>6, <1>7
<1>9. \A p \in 1 .. NameBits + 7 : g[p] = Letters(g, name, p)
  BY <1>8
<1> QED
  BY <1>1, <1>7, <1>9

LEMMA PadIs ==
  ASSUME NEW b \in Seq(Bit)
  PROVE  /\ Pad(b) \in [1 .. NameBits -> Bit]
         /\ \A p \in 1 .. NameBits : Pad(b)[p] = IF p <= Len(b) THEN b[p] ELSE 0
<1>1. PICK z, m : z = Zeroes(NameBits) /\ m = NameBits
  OBVIOUS
<1>2. m \in Nat /\ m > 0
  BY <1>1 DEF NameBits
<1>3. z = [i \in 1 .. m |-> 0] /\ 0 \in Bit
  BY <1>1 DEF Zeroes, Bit
<1>4. z \in Seq(Bit) /\ Len(z) = m /\ \A i \in 1 .. m : z[i] = 0
  BY <1>2, <1>3
<1>5. PICK s : s = b \o z
  OBVIOUS
<1>6. s \in Seq(Bit) /\ Len(s) = Len(b) + m /\ Len(b) \in Nat
  <2>1. Len(b \o z) = Len(b) + Len(z)
    BY <1>4
  <2>2. b \o z \in Seq(Bit) /\ Len(b) \in Nat
    BY <1>4
  <2> QED
    BY <1>4, <1>5, <2>1, <2>2
<1>7. ASSUME NEW p \in 1 .. m PROVE s[p] = IF p <= Len(b) THEN b[p] ELSE 0
  <2>1. CASE p <= Len(b)
    BY <1>4, <1>5, <1>6, <2>1
  <2>2. CASE p > Len(b)
    <3>1. p - Len(b) \in 1 .. m /\ p \in 1 .. Len(b) + m
      BY <1>2, <1>6, <2>2
    <3>2. s[p] = z[p - Len(b)]
      BY <1>4, <1>5, <1>6, <2>2, <3>1
    <3>3. ~(p <= Len(b))
      BY <1>2, <1>6, <2>2
    <3> QED
      BY <1>4, <3>1, <3>2, <3>3
  <2> QED
    BY <1>2, <1>6, <2>1, <2>2
<1>8. PICK t : t = SubSeq(s, 1, m)
  OBVIOUS
<1>9. m <= Len(s) /\ t \in Seq(Bit) /\ Len(t) = m /\ \A p \in 1 .. m : t[p] = s[p]
  BY <1>2, <1>6, <1>8
<1>10. t \in [1 .. m -> Bit]
  BY <1>9
<1>11. Pad(b) = t
  BY <1>1, <1>5, <1>8 DEF Pad
<1> QED
  BY <1>1, <1>7, <1>9, <1>10, <1>11

LEMMA CodedBits ==
  ASSUME NEW w \in Seq(Letter)
  PROVE  Coded(w) \in Seq(Bit)
<1>1. PICK u : CodedUpTo(u, w) /\ Coded(w) = u[Len(w)]
  BY CodedIs
<1>2. Len(w) \in 0 .. Len(w)
  OBVIOUS
<1> QED
  BY <1>1, <1>2 DEF CodedUpTo

(* Of the codes only zeroes are beyond the bits of a name. *)
InName(w) == \A p \in NameBits + 1 .. Len(Coded(w)) : Coded(w)[p] = 0

(* Where a letter begins, unpack() finds it. *)
LEMMA FindsLetter ==
  ASSUME NEW w \in Seq(Letter), InName(w), NEW f,
         NEW u, CodedUpTo(u, w), Coded(w) = u[Len(w)], NEW i \in 1 .. Len(w)
  PROVE  Letters(f, Pack(w), Len(u[i - 1]) + 1) = <<w[i]>> \o f[Len(u[i]) + 1]
<1>1. PICK c, l, m, a : c = CodeOf(l) /\ l = w[i] /\ m = CodeLength(l) /\ a = Len(u[i - 1])
  OBVIOUS
<1>2. l \in Letter
  BY <1>1
<1>3. /\ m \in {4, 5, 7} /\ c \in Seq(Bit) /\ Len(c) = m
      /\ \E j \in 1 .. m : c[j] # 0
  BY <1>1, <1>2, CodeBits
<1>4. /\ a \in Nat /\ Len(u[i]) = a + m /\ a + m <= Len(Coded(w))
      /\ \A j \in 1 .. m : Coded(w)[a + j] = c[j]
  BY <1>1, LetterBits
<1>5. PICK b : b = Coded(w)
  OBVIOUS
<1>6. b \in Seq(Bit) /\ Len(b) \in Nat /\ \A p \in 29 .. Len(b) : b[p] = 0
  BY <1>5, CodedBits DEF NameBits, InName
<1>7. PICK name : name = Pack(w)
  OBVIOUS
<1>8. \A p \in 1 .. 28 : name[p] = IF p <= Len(b) THEN b[p] ELSE 0
  <2>1. name = Pad(b)
    BY <1>5, <1>7 DEF Pack
  <2> QED
    BY <1>6, <2>1, PadIs DEF NameBits
<1>9. ASSUME NEW j \in 1 .. m PROVE BitAt(name, a + j) = c[j]
  <2>1. a + j \in Nat /\ a + j >= 1 /\ a + j <= Len(b) /\ b[a + j] = c[j]
    BY <1>3, <1>4, <1>5, <1>6
  <2>2. CASE a + j <= 28
    <3>1. PICK k \in Nat : k = a + j
      BY <2>1
    <3>2. k \in 1 .. 28 /\ k <= Len(b) /\ b[k] = c[j]
      <4>1. k >= 1 /\ k <= 28 /\ k <= Len(b) /\ b[k] = c[j]
        BY <2>1, <2>2, <3>1
      <4> QED
        BY <4>1
    <3>3. name[k] = c[j]
      BY <1>8, <3>2
    <3> QED
      BY <2>2, <3>1, <3>3 DEF BitAt, NameBits
  <2>3. CASE ~(a + j <= 28)
    <3>1. a + j \in 29 .. Len(b)
      BY <1>6, <2>1, <2>3
    <3> QED
      BY <1>6, <2>1, <2>3, <3>1 DEF BitAt, NameBits
  <2> QED
    BY <2>2, <2>3
<1>10. ~ \A q \in a + 1 .. NameBits : BitAt(name, q) = 0
  <2>1. PICK j \in 1 .. m : c[j] # 0
    BY <1>3
  <2>2. BitAt(name, a + j) # 0 /\ j \in Nat /\ j >= 1
    BY <1>3, <1>9, <2>1
  <2>3. a + j <= 28
    BY <2>2 DEF BitAt, NameBits
  <2>4. a + j \in a + 1 .. NameBits
    BY <1>4, <2>2, <2>3 DEF NameBits
  <2> QED
    BY <2>2, <2>4
<1>11. PICK p : p = a + 1
  OBVIOUS
<1>12. /\ p \in Nat /\ p + 1 = a + 2 /\ p + 2 = a + 3 /\ p + 3 = a + 4
       /\ p + 4 = a + 5 /\ p + 5 = a + 6 /\ p + 6 = a + 7 /\ p + 7 = a + 8
       /\ (p + 1) + 1 = a + 3 /\ (p + 1) + 2 = a + 4
       /\ (p + 4) + 1 = a + 6 /\ (p + 4) + 2 = a + 7
  BY <1>4, <1>11
<1>13. /\ BitAt(name, p) = c[1] /\ BitAt(name, p + 1) = c[2]
       /\ BitAt(name, (p + 1) + 1) = c[3] /\ BitAt(name, (p + 1) + 2) = c[4]
  <2>1. 1 \in 1 .. m /\ 2 \in 1 .. m /\ 3 \in 1 .. m /\ 4 \in 1 .. m
    BY <1>3
  <2>2. /\ BitAt(name, a + 1) = c[1] /\ BitAt(name, a + 2) = c[2]
        /\ BitAt(name, a + 3) = c[3] /\ BitAt(name, a + 4) = c[4]
    BY <1>9, <2>1
  <2> QED
    BY <1>11, <1>12, <2>2
<1>14. Nibble(name, p) = 8 * c[1] + 4 * c[2] + 2 * c[3] + c[4]
  <2>1. c[1] \in Int /\ c[2] \in Int /\ c[3] \in Int /\ c[4] \in Int
    <3>1. c \in Seq(Int) /\ 4 <= Len(c)
      BY <1>3, LargerSeq, Bit \subseteq Int DEF Bit
    <3> QED
      BY <3>1
  <2>2. PICK c1 \in Int, c2 \in Int, c3 \in Int, c4 \in Int :
          c1 = c[1] /\ c2 = c[2] /\ c3 = c[3] /\ c4 = c[4]
    BY <2>1
  <2>3. Nibble(name, p) = 8 * c1 + (4 * c2 + 2 * c3 + c4)
    BY <1>13, <2>2 DEF Nibble, Three
  <2>4. 8 * c1 + (4 * c2 + 2 * c3 + c4) = 8 * c1 + 4 * c2 + 2 * c3 + c4
    OBVIOUS
  <2> QED
    BY <2>2, <2>3, <2>4
<1>15. Letters(f, name, p) = <<l>> \o f[a + m + 1]
  <2>1. CASE l \in 1 .. 7
    <3>1. m = 4 /\ Nibble(name, p) = l /\ l < 8
      BY <1>1, <1>14, <2>1, ShortCode
    <3>2. p + 4 = a + m + 1
      BY <1>4, <1>11, <3>1
    <3> QED
      BY <1>10, <1>11, <3>1, <3>2 DEF Letters
  <2>2. CASE l \in 8 .. 15
    <3>1. /\ m = 5 /\ Nibble(name, p) \in 8 .. 11
          /\ 2 * (Nibble(name, p) - 4) + c[5] = l
      BY <1>1, <1>14, <2>2, MiddleCode
    <3>2. p + 5 = a + m + 1
      BY <1>4, <1>11, <3>1
    <3>3. BitAt(name, p + 4) = c[5]
      BY <1>9, <1>12, <3>1, 5 \in 1 .. 5
    <3>4. ~(Nibble(name, p) < 8) /\ Nibble(name, p) < 12
      BY <3>1
    <3> QED
      BY <1>10, <1>11, <3>1, <3>2, <3>3, <3>4 DEF Letters
  <2>3. CASE l \in 16 .. 47
    <3>1. /\ m = 7 /\ Nibble(name, p) \in 12 .. 15
          /\ 8 * (Nibble(name, p) - 10) + (4 * c[5] + 2 * c[6] + c[7]) = l
      <4>1. /\ CodeLength(l) = 7 /\ 8 * c[1] + 4 * c[2] + 2 * c[3] + c[4] \in 12 .. 15
            /\ 8 * ((8 * c[1] + 4 * c[2] + 2 * c[3] + c[4]) - 10) + (4 * c[5] + 2 * c[6] + c[7]) = l
        BY <1>1, <2>3, LongCode
      <4> QED
        BY <1>1, <1>14, <4>1
    <3>2. p + 7 = a + m + 1
      BY <1>4, <1>11, <3>1
    <3>3. Three(name, p + 4) = 4 * c[5] + 2 * c[6] + c[7]
      <4>1. /\ BitAt(name, p + 4) = c[5] /\ BitAt(name, (p + 4) + 1) = c[6]
            /\ BitAt(name, (p + 4) + 2) = c[7]
        BY <1>9, <1>12, <3>1, 5 \in 1 .. 7, 6 \in 1 .. 7, 7 \in 1 .. 7
      <4> QED
        BY <4>1 DEF Three
    <3>4. ~(Nibble(name, p) < 8) /\ ~(Nibble(name, p) < 12)
      BY <3>1
    <3> QED
      BY <1>10, <1>11, <3>1, <3>2, <3>3, <3>4 DEF Letters
  <2> QED
    BY <1>2, <2>1, <2>2, <2>3 DEF Letter
<1> QED
  BY <1>1, <1>4, <1>7, <1>11, <1>15

(* Whatever fits the 28 bits but for zeroes comes back. *)
LEMMA UnpackInName ==
  ASSUME NEW w \in Seq(Letter), InName(w)
  PROVE  Unpack(Pack(w)) = w
<1>1. PICK u : CodedUpTo(u, w) /\ Coded(w) = u[Len(w)]
  BY CodedIs
<1>2. PICK f : /\ Unpack(Pack(w)) = f[1]
               /\ \A p \in 1 .. NameBits + 7 : f[p] = Letters(f, Pack(w), p)
  BY UnpackIs
<1>3. PICK N \in Nat : N = Len(w)
  OBVIOUS
<1>4. ASSUME NEW j \in 0 .. N PROVE Len(u[j]) + 1 \in 1 .. NameBits + 7
  <2>1. PICK b : b = Coded(w)
    OBVIOUS
  <2>2. b \in Seq(Bit) /\ \A p \in 29 .. Len(b) : b[p] = 0
    BY <2>1, CodedBits DEF InName, NameBits
  <2>3. CASE j = 0
    <3>1. u[0] = <<>> /\ Len(<<>>) = 0
      BY <1>1 DEF CodedUpTo
    <3> QED
      BY <2>3, <3>1 DEF NameBits
  <2>4. CASE j # 0
    <3>1. j \in 1 .. Len(w) /\ w[j] \in Letter
      BY <1>3, <2>4
    <3>2. PICK a, m, c : a = Len(u[j - 1]) /\ m = CodeLength(w[j]) /\ c = CodeOf(w[j])
      OBVIOUS
    <3>3. /\ a \in Nat /\ Len(u[j]) = a + m /\ a + m <= Len(b)
          /\ \A i \in 1 .. m : b[a + i] = c[i]
      <4>1. u[Len(w)] = b
        BY <1>1, <2>1
      <4>2. /\ Len(u[j - 1]) \in Nat /\ Len(u[j]) = Len(u[j - 1]) + CodeLength(w[j])
            /\ Len(u[j]) <= Len(u[Len(w)])
            /\ \A i \in 1 .. CodeLength(w[j]) : u[Len(w)][Len(u[j - 1]) + i] = CodeOf(w[j])[i]
        BY <1>1, <3>1, LetterBits
      <4> QED
        BY <3>2, <4>1, <4>2
    <3>4. m \in {4, 5, 7} /\ \E i \in 1 .. m : c[i] # 0
      BY <3>1, <3>2, CodeBits
    <3>5. PICK i \in 1 .. m : b[a + i] # 0
      BY <3>3, <3>4
    <3>6. a + i \in 1 .. Len(b) /\ ~(a + i \in 29 .. Len(b))
      <4>1. Len(b) \in Nat
        BY <2>2
      <4> QED
        BY <2>2, <3>3, <3>4, <3>5, <4>1
    <3>7. a < 28 /\ m <= 7
      BY <2>2, <3>3, <3>4, <3>6
    <3> QED
      BY <3>3, <3>4, <3>7 DEF NameBits
  <2> QED
    BY <2>3, <2>4
<1> DEFINE S == {d \in Nat : d <= N => f[Len(u[N - d]) + 1] = SubSeq(w, N - d + 1, N)}
<1>5. 0 \in S
  <2>1. PICK b, name : b = Coded(w) /\ name = Pack(w)
    OBVIOUS
  <2>2. b \in Seq(Bit) /\ Len(b) \in Nat /\ name = Pad(b)
    BY <2>1, CodedBits DEF Pack
  <2>3. ASSUME NEW q \in Len(b) + 1 .. NameBits PROVE BitAt(name, q) = 0
    <3>1. q \in 1 .. NameBits /\ ~(q <= Len(b))
      BY <2>2 DEF NameBits
    <3>2. name[q] = 0
      BY <2>2, <3>1, PadIs
    <3> QED
      BY <3>2 DEF BitAt
  <2>4. Letters(f, name, Len(b) + 1) = <<>>
    BY <2>3 DEF Letters
  <2>5. f[Len(b) + 1] = <<>>
    <3>1. N \in 0 .. N /\ u[N] = b
      BY <1>1, <1>3, <2>1
    <3>2. Len(b) + 1 \in 1 .. NameBits + 7
      BY <1>4, <3>1
    <3> QED
      BY <1>2, <2>1, <2>4, <3>2
  <2>6. SubSeq(w, N + 1, N) = <<>>
    BY <1>3
  <2>7. N - 0 = N /\ u[N] = b
    BY <1>1, <1>3, <2>1
  <2> QED
    BY <2>5, <2>6, <2>7
<1>6. ASSUME NEW d \in Nat, d \in S PROVE d + 1 \in S
  <2> SUFFICES ASSUME d + 1 <= N
               PROVE  f[Len(u[N - (d + 1)]) + 1] = SubSeq(w, N - (d + 1) + 1, N)
    OBVIOUS
  <2>1. PICK j \in 1 .. N : j = N - d
    OBVIOUS
  <2>2. N - (d + 1) = j - 1 /\ N - (d + 1) + 1 = j /\ j - 1 \in 0 .. N
    BY <2>1
  <2>3. f[Len(u[j]) + 1] = SubSeq(w, j + 1, N)
    BY <1>6, <2>1
  <2>4. Letters(f, Pack(w), Len(u[j - 1]) + 1) = <<w[j]>> \o f[Len(u[j]) + 1]
    <3>1. j \in 1 .. Len(w)
      BY <1>3
    <3> QED
      BY <1>1, <3>1, FindsLetter
  <2>5. f[Len(u[j - 1]) + 1] = <<w[j]>> \o SubSeq(w, j + 1, N)
    BY <1>2, <1>4, <2>2, <2>3, <2>4
  <2>6. <<w[j]>> \o SubSeq(w, j + 1, N) = SubSeq(w, j, N)
    BY <1>3
  <2> QED
    BY <2>2, <2>5, <2>6
<1>7. \A d \in Nat : d \in S
  <2> HIDE DEF S
  <2> QED
    BY <1>5, <1>6, Induct
<1>8. f[Len(u[0]) + 1] = SubSeq(w, 1, N)
  <2>1. N - N = 0 /\ 0 + 1 = 1
    OBVIOUS
  <2> QED
    BY <1>7, <2>1
<1>9. u[0] = <<>> /\ Len(<<>>) + 1 = 1
  BY <1>1 DEF CodedUpTo
<1>10. SubSeq(w, 1, N) = w
  BY <1>3
<1> QED
  BY <1>2, <1>8, <1>9, <1>10

(* Whatever fits the 28 bits comes back. *)
LEMMA UnpackPack ==
  ASSUME NEW w \in Seq(Letter), Len(Coded(w)) <= NameBits
  PROVE  Unpack(Pack(w)) = w
<1>1. PICK b : b = Coded(w)
  OBVIOUS
<1>2. Len(b) \in Nat
  BY <1>1, CodedBits
<1>3. InName(w)
  BY <1>1, <1>2 DEF InName, NameBits
<1> QED
  BY <1>3, UnpackInName

-----------------------------------------------------------------------------
(* The built-in words.                                                     *)

(* Two sequences of bits that differ in zeroes at the end are one name. *)
LEMMA SamePad ==
  ASSUME NEW b \in Seq(Bit), NEW h \in Seq(Bit), Len(b) <= NameBits, Len(h) <= NameBits,
         \A p \in 1 .. NameBits :
           (IF p <= Len(b) THEN b[p] ELSE 0) = (IF p <= Len(h) THEN h[p] ELSE 0)
  PROVE  Pad(b) = Pad(h)
<1>1. PICK s, t : s = Pad(b) /\ t = Pad(h)
  OBVIOUS
<1>2. s \in [1 .. NameBits -> Bit] /\ t \in [1 .. NameBits -> Bit]
  BY <1>1, PadIs
<1>3. \A p \in 1 .. NameBits : s[p] = t[p]
  BY <1>1, PadIs
<1>4. PICK D : D = 1 .. NameBits
  OBVIOUS
<1>5. s \in [D -> Bit] /\ t \in [D -> Bit] /\ \A p \in D : s[p] = t[p]
  BY <1>2, <1>3, <1>4
<1>6. s = t
  BY <1>5
<1> QED
  BY <1>1, <1>6

(* The codes of the letters of the built-in words. *)
LEMMA CodeTable ==
  /\ CodeOf(1) = <<0, 0, 0, 1>>
  /\ CodeOf(2) = <<0, 0, 1, 0>>
  /\ CodeOf(3) = <<0, 0, 1, 1>>
  /\ CodeOf(5) = <<0, 1, 0, 1>>
  /\ CodeOf(8) = <<1, 0, 0, 0, 0>>
  /\ CodeOf(9) = <<1, 0, 0, 0, 1>>
  /\ CodeOf(10) = <<1, 0, 0, 1, 0>>
  /\ CodeOf(12) = <<1, 0, 1, 0, 0>>
  /\ CodeOf(14) = <<1, 0, 1, 1, 0>>
  /\ CodeOf(16) = <<1, 1, 0, 0, 0, 0, 0>>
  /\ CodeOf(20) = <<1, 1, 0, 0, 1, 0, 0>>
  /\ CodeOf(37) = <<1, 1, 1, 0, 1, 0, 1>>
  /\ CodeOf(39) = <<1, 1, 1, 0, 1, 1, 1>>
  /\ CodeOf(43) = <<1, 1, 1, 1, 0, 1, 1>>
  /\ CodeOf(46) = <<1, 1, 1, 1, 1, 1, 0>>
<1>1. CodeOf(1) = <<0, 0, 0, 1>>
  BY Powers DEF CodeOf, CodeLength, Bits
<1>2. CodeOf(2) = <<0, 0, 1, 0>>
  BY Powers DEF CodeOf, CodeLength, Bits
<1>3. CodeOf(3) = <<0, 0, 1, 1>>
  BY Powers DEF CodeOf, CodeLength, Bits
<1>4. CodeOf(5) = <<0, 1, 0, 1>>
  BY Powers DEF CodeOf, CodeLength, Bits
<1>5. CodeOf(8) = <<1, 0, 0, 0, 0>>
  BY Powers DEF CodeOf, CodeLength, Bits
<1>6. CodeOf(9) = <<1, 0, 0, 0, 1>>
  BY Powers DEF CodeOf, CodeLength, Bits
<1>7. CodeOf(10) = <<1, 0, 0, 1, 0>>
  BY Powers DEF CodeOf, CodeLength, Bits
<1>8. CodeOf(12) = <<1, 0, 1, 0, 0>>
  BY Powers DEF CodeOf, CodeLength, Bits
<1>9. CodeOf(14) = <<1, 0, 1, 1, 0>>
  BY Powers DEF CodeOf, CodeLength, Bits
<1>10. CodeOf(16) = <<1, 1, 0, 0, 0, 0, 0>>
  BY Powers DEF CodeOf, CodeLength, Bits
<1>11. CodeOf(20) = <<1, 1, 0, 0, 1, 0, 0>>
  BY Powers DEF CodeOf, CodeLength, Bits
<1>12. CodeOf(37) = <<1, 1, 1, 0, 1, 0, 1>>
  BY Powers DEF CodeOf, CodeLength, Bits
<1>13. CodeOf(39) = <<1, 1, 1, 0, 1, 1, 1>>
  BY Powers DEF CodeOf, CodeLength, Bits
<1>14. CodeOf(43) = <<1, 1, 1, 1, 0, 1, 1>>
  BY Powers DEF CodeOf, CodeLength, Bits
<1>15. CodeOf(46) = <<1, 1, 1, 1, 1, 1, 0>>
  BY Powers DEF CodeOf, CodeLength, Bits
<1> QED
  BY <1>1, <1>2, <1>3, <1>4, <1>5, <1>6, <1>7, <1>8, <1>9, <1>10, <1>11, <1>12, <1>13, <1>14, <1>15

(* b is v and then c, bit by bit. *)
Joins(b, v, c) ==
  /\ Len(b) = Len(v) + Len(c)
  /\ \A i \in 1 .. Len(v) : b[i] = v[i]
  /\ \A i \in 1 .. Len(c) : b[Len(v) + i] = c[i]

LEMMA JoinsIs ==
  ASSUME NEW T, NEW b \in Seq(T), NEW v \in Seq(T), NEW c \in Seq(T), Joins(b, v, c)
  PROVE  v \o c = b
<1>1. PICK s : s = v \o c
  OBVIOUS
<1>2. s \in Seq(T) /\ Len(s) = Len(v) + Len(c) /\ Len(v) \in Nat /\ Len(c) \in Nat
  BY <1>1
<1>3. ASSUME NEW i \in 1 .. Len(s) PROVE s[i] = b[i]
  <2>1. CASE i <= Len(v)
    <3>1. i \in 1 .. Len(v) /\ s[i] = v[i]
      BY <1>1, <1>2, <2>1
    <3> QED
      BY <3>1 DEF Joins
  <2>2. CASE i > Len(v)
    <3>1. PICK m \in 1 .. Len(c) : i = Len(v) + m
      BY <1>2, <2>2, i - Len(v) \in 1 .. Len(c), i = Len(v) + (i - Len(v))
    <3>2. s[Len(v) + m] = c[m]
      BY <1>1, <1>2, <3>1
    <3> QED
      BY <3>1, <3>2 DEF Joins
  <2> QED
    BY <1>2, <2>1, <2>2
<1>4. Len(b) = Len(s)
  BY <1>2 DEF Joins
<1>5. s = b
  BY <1>2, <1>3, <1>4
<1> QED
  BY <1>1, <1>5

(* The bits b are the codes of the letters of w, each of them a code c     *)
(* after the first bits, from, up to those that come before the next, to.  *)
Holds(b, c, from, to) ==
  /\ to = from + Len(c) /\ to <= Len(b)
  /\ \A j \in 1 .. Len(c) : b[from + j] = c[j]

Spells(w, at, b) ==
  /\ at[1] = 0 /\ at[Len(w) + 1] = Len(b)
  /\ \A i \in 1 .. Len(w) : Holds(b, CodeOf(w[i]), at[i], at[i + 1])

LEMMA SpellsCoded ==
  ASSUME NEW w \in Seq(Letter), NEW at \in Seq(Nat), Len(at) = Len(w) + 1,
         NEW b \in Seq(Bit), Spells(w, at, b)
  PROVE  Coded(w) = b
<1>1. PICK u : CodedUpTo(u, w) /\ Coded(w) = u[Len(w)]
  BY CodedIs
<1>2. PICK N \in Nat : N = Len(w)
  OBVIOUS
<1> DEFINE S == {d \in Nat : d <= N => u[d] = SubSeq(b, 1, at[d + 1])}
<1>3. 0 \in S
  <2>1. at[0 + 1] = 0 /\ u[0] = <<>>
    BY <1>1 DEF Spells, CodedUpTo
  <2>2. SubSeq(b, 1, 0) = <<>>
    OBVIOUS
  <2> QED
    BY <2>1, <2>2
<1>4. ASSUME NEW d \in Nat, d \in S PROVE d + 1 \in S
  <2> SUFFICES ASSUME d + 1 <= N PROVE u[d + 1] = SubSeq(b, 1, at[(d + 1) + 1])
    OBVIOUS
  <2>1. PICK i, c, from, to :
          i = d + 1 /\ c = CodeOf(w[i]) /\ from = at[i] /\ to = at[i + 1]
    OBVIOUS
  <2>2. i \in 1 .. Len(w) /\ i - 1 = d /\ i \in 1 .. Len(at) /\ i + 1 \in 1 .. Len(at)
    BY <1>2, <2>1
  <2>3. from \in Nat /\ to \in Nat /\ w[i] \in Letter
    BY <2>1, <2>2
  <2>4. c \in Seq(Bit)
    BY <2>1, <2>3, CodeBits
  <2>5. to = from + Len(c) /\ to <= Len(b) /\ \A j \in 1 .. Len(c) : b[from + j] = c[j]
    BY <2>1, <2>2 DEF Spells, Holds
  <2>6. u[d] = SubSeq(b, 1, from) /\ u[i] = u[d] \o c
    <3>1. u[d] = SubSeq(b, 1, from)
      BY <1>4, <2>1
    <3>2. u[i] = u[i - 1] \o c
      BY <1>1, <2>1, <2>2 DEF CodedUpTo
    <3> QED
      BY <2>2, <3>1, <3>2
  <2>7. PICK v, s : v = SubSeq(b, 1, from) /\ s = SubSeq(b, 1, to)
    OBVIOUS
  <2>8. Len(c) \in Nat /\ from <= Len(b)
    BY <2>3, <2>4, <2>5
  <2>9. v \in Seq(Bit) /\ Len(v) = from /\ \A q \in 1 .. from : v[q] = b[q]
    BY <2>3, <2>7, <2>8
  <2>10. s \in Seq(Bit) /\ Len(s) = to /\ \A q \in 1 .. to : s[q] = b[q]
    BY <2>3, <2>5, <2>7
  <2>11. Joins(s, v, c)
    <3>1. ASSUME NEW q \in 1 .. from PROVE s[q] = v[q]
      <4>1. q \in 1 .. to
        BY <2>3, <2>5, <2>8
      <4> QED
        BY <2>9, <2>10, <4>1
    <3>2. ASSUME NEW j \in 1 .. Len(c) PROVE s[from + j] = c[j]
      <4>1. from + j \in 1 .. to
        BY <2>3, <2>5, <2>8
      <4> QED
        BY <2>5, <2>10, <4>1
    <3> QED
      BY <2>5, <2>9, <2>10, <3>1, <3>2 DEF Joins
  <2>12. v \o c = s
    BY <2>4, <2>9, <2>10, <2>11, JoinsIs
  <2> QED
    BY <2>1, <2>6, <2>7, <2>12
<1>5. u[N] = SubSeq(b, 1, at[N + 1])
  <2>1. N \in S
    <3> HIDE DEF S
    <3> QED
      BY <1>3, <1>4, Induct
  <2> QED
    BY <2>1
<1>6. SubSeq(b, 1, Len(b)) = b
  OBVIOUS
<1> QED
  BY <1>1, <1>2, <1>5, <1>6 DEF Spells

(* The words that pack() makes of the built-in words are the constants of  *)
(* forth_dictionary.                                                       *)
LEMMA Pack_comma ==
  /\ Pack(<<46>>) = Hex(<<15, 12>>)
  /\ Len(Coded(<<46>>)) <= NameBits
<1>1. PICK w, at, b, h :
        /\ w = <<46>> /\ at = <<0, 7>>
        /\ b = <<1, 1, 1, 1, 1, 1, 0>>
        /\ h = <<1, 1, 1, 1,  1, 1, 0, 0>>
  OBVIOUS
<1>2. w \in Seq(Letter) /\ at \in Seq(Nat) /\ Len(at) = Len(w) + 1
  BY <1>1 DEF Letter
<1>3. b \in Seq(Bit) /\ h \in Seq(Bit) /\ Len(b) <= NameBits /\ Len(h) <= NameBits
  BY <1>1 DEF Bit, NameBits
<1>4. Spells(w, at, b)
  <2>1. Holds(b, <<1, 1, 1, 1, 1, 1, 0>>, 0, 7)
    BY <1>1 DEF Holds
  <2>2. CodeOf(w[1]) = <<1, 1, 1, 1, 1, 1, 0>>
    BY <1>1, CodeTable
  <2>3. Holds(b, CodeOf(w[1]), at[1], at[2])
    BY <1>1, <2>1, <2>2
  <2>4. \A i \in 1 .. 1 : Holds(b, CodeOf(w[i]), at[i], at[i + 1])
    BY <2>3
  <2> QED
    BY <1>1, <2>4 DEF Spells
<1>5. \A p \in 1 .. NameBits :
        (IF p <= Len(b) THEN b[p] ELSE 0) = (IF p <= Len(h) THEN h[p] ELSE 0)
  BY <1>1 DEF NameBits
<1>6. Coded(w) = b /\ Pad(b) = Pad(h)
  BY <1>2, <1>3, <1>4, <1>5, SpellsCoded, SamePad
<1>7. Pad(h) = Hex(<<15, 12>>)
  BY <1>1, Powers DEF Hex, Bits
<1>8. Len(Coded(w)) <= NameBits
  BY <1>3, <1>6
<1> QED
  BY <1>1, <1>6, <1>7, <1>8 DEF Pack

LEMMA Pack_load ==
  /\ Pack(<<12, 3, 5, 16>>) = Hex(<<10, 1, 10, 14>>)
  /\ Len(Coded(<<12, 3, 5, 16>>)) <= NameBits
<1>1. PICK w, at, b, h :
        /\ w = <<12, 3, 5, 16>> /\ at = <<0, 5, 9, 13, 20>>
        /\ b = <<1, 0, 1, 0, 0,  0, 0, 1, 1,  0, 1, 0, 1,  1, 1, 0, 0, 0, 0, 0>>
        /\ h = <<1, 0, 1, 0,  0, 0, 0, 1,  1, 0, 1, 0,  1, 1, 1, 0>>
  OBVIOUS
<1>2. w \in Seq(Letter) /\ at \in Seq(Nat) /\ Len(at) = Len(w) + 1
  BY <1>1 DEF Letter
<1>3. b \in Seq(Bit) /\ h \in Seq(Bit) /\ Len(b) <= NameBits /\ Len(h) <= NameBits
  BY <1>1 DEF Bit, NameBits
<1>4. Spells(w, at, b)
  <2>1. /\ Holds(b, <<1, 0, 1, 0, 0>>, 0, 5) /\ Holds(b, <<0, 0, 1, 1>>, 5, 9)
        /\ Holds(b, <<0, 1, 0, 1>>, 9, 13) /\ Holds(b, <<1, 1, 0, 0, 0, 0, 0>>, 13, 20)
    BY <1>1 DEF Holds
  <2>2. /\ CodeOf(w[1]) = <<1, 0, 1, 0, 0>> /\ CodeOf(w[2]) = <<0, 0, 1, 1>>
        /\ CodeOf(w[3]) = <<0, 1, 0, 1>> /\ CodeOf(w[4]) = <<1, 1, 0, 0, 0, 0, 0>>
    BY <1>1, CodeTable
  <2>3. /\ Holds(b, CodeOf(w[1]), at[1], at[2]) /\ Holds(b, CodeOf(w[2]), at[2], at[3])
        /\ Holds(b, CodeOf(w[3]), at[3], at[4]) /\ Holds(b, CodeOf(w[4]), at[4], at[5])
    BY <1>1, <2>1, <2>2
  <2>4. \A i \in 1 .. 4 : Holds(b, CodeOf(w[i]), at[i], at[i + 1])
    BY <2>3
  <2> QED
    BY <1>1, <2>4 DEF Spells
<1>5. \A p \in 1 .. NameBits :
        (IF p <= Len(b) THEN b[p] ELSE 0) = (IF p <= Len(h) THEN h[p] ELSE 0)
  BY <1>1 DEF NameBits
<1>6. Coded(w) = b /\ Pad(b) = Pad(h)
  BY <1>2, <1>3, <1>4, <1>5, SpellsCoded, SamePad
<1>7. Pad(h) = Hex(<<10, 1, 10, 14>>)
  BY <1>1, Powers DEF Hex, Bits
<1>8. Len(Coded(w)) <= NameBits
  BY <1>3, <1>6
<1> QED
  BY <1>1, <1>6, <1>7, <1>8 DEF Pack

LEMMA Pack_loads ==
  /\ Pack(<<12, 3, 5, 16, 8>>) = Hex(<<10, 1, 10, 14, 0, 8>>)
  /\ Len(Coded(<<12, 3, 5, 16, 8>>)) <= NameBits
<1>1. PICK w, at, b, h :
        /\ w = <<12, 3, 5, 16, 8>> /\ at = <<0, 5, 9, 13, 20, 25>>
        /\ b = <<1, 0, 1, 0, 0,  0, 0, 1, 1,  0, 1, 0, 1,  1, 1, 0, 0, 0, 0, 0,  1, 0, 0, 0, 0>>
        /\ h = <<1, 0, 1, 0,  0, 0, 0, 1,  1, 0, 1, 0,  1, 1, 1, 0,  0, 0, 0, 0,  1, 0, 0, 0>>
  OBVIOUS
<1>2. w \in Seq(Letter) /\ at \in Seq(Nat) /\ Len(at) = Len(w) + 1
  BY <1>1 DEF Letter
<1>3. b \in Seq(Bit) /\ h \in Seq(Bit) /\ Len(b) <= NameBits /\ Len(h) <= NameBits
  BY <1>1 DEF Bit, NameBits
<1>4. Spells(w, at, b)
  <2>1. /\ Holds(b, <<1, 0, 1, 0, 0>>, 0, 5) /\ Holds(b, <<0, 0, 1, 1>>, 5, 9)
        /\ Holds(b, <<0, 1, 0, 1>>, 9, 13) /\ Holds(b, <<1, 1, 0, 0, 0, 0, 0>>, 13, 20)
        /\ Holds(b, <<1, 0, 0, 0, 0>>, 20, 25)
    BY <1>1 DEF Holds
  <2>2. /\ CodeOf(w[1]) = <<1, 0, 1, 0, 0>> /\ CodeOf(w[2]) = <<0, 0, 1, 1>>
        /\ CodeOf(w[3]) = <<0, 1, 0, 1>> /\ CodeOf(w[4]) = <<1, 1, 0, 0, 0, 0, 0>>
        /\ CodeOf(w[5]) = <<1, 0, 0, 0, 0>>
    BY <1>1, CodeTable
  <2>3. /\ Holds(b, CodeOf(w[1]), at[1], at[2]) /\ Holds(b, CodeOf(w[2]), at[2], at[3])
        /\ Holds(b, CodeOf(w[3]), at[3], at[4]) /\ Holds(b, CodeOf(w[4]), at[4], at[5])
        /\ Holds(b, CodeOf(w[5]), at[5], at[6])
    BY <1>1, <2>1, <2>2
  <2>4. \A i \in 1 .. 5 : Holds(b, CodeOf(w[i]), at[i], at[i + 1])
    BY <2>3
  <2> QED
    BY <1>1, <2>4 DEF Spells
<1>5. \A p \in 1 .. NameBits :
        (IF p <= Len(b) THEN b[p] ELSE 0) = (IF p <= Len(h) THEN h[p] ELSE 0)
  BY <1>1 DEF NameBits
<1>6. Coded(w) = b /\ Pad(b) = Pad(h)
  BY <1>2, <1>3, <1>4, <1>5, SpellsCoded, SamePad
<1>7. Pad(h) = Hex(<<10, 1, 10, 14, 0, 8>>)
  BY <1>1, Powers DEF Hex, Bits
<1>8. Len(Coded(w)) <= NameBits
  BY <1>3, <1>6
<1> QED
  BY <1>1, <1>6, <1>7, <1>8 DEF Pack

LEMMA Pack_forth ==
  /\ Pack(<<14, 3, 1, 2, 20>>) = Hex(<<11, 1, 8, 9, 6, 4>>)
  /\ Len(Coded(<<14, 3, 1, 2, 20>>)) <= NameBits
<1>1. PICK w, at, b, h :
        /\ w = <<14, 3, 1, 2, 20>> /\ at = <<0, 5, 9, 13, 17, 24>>
        /\ b = <<1, 0, 1, 1, 0,  0, 0, 1, 1,  0, 0, 0, 1,  0, 0, 1, 0,  1, 1, 0, 0, 1, 0, 0>>
        /\ h = <<1, 0, 1, 1,  0, 0, 0, 1,  1, 0, 0, 0,  1, 0, 0, 1,  0, 1, 1, 0,  0, 1, 0, 0>>
  OBVIOUS
<1>2. w \in Seq(Letter) /\ at \in Seq(Nat) /\ Len(at) = Len(w) + 1
  BY <1>1 DEF Letter
<1>3. b \in Seq(Bit) /\ h \in Seq(Bit) /\ Len(b) <= NameBits /\ Len(h) <= NameBits
  BY <1>1 DEF Bit, NameBits
<1>4. Spells(w, at, b)
  <2>1. /\ Holds(b, <<1, 0, 1, 1, 0>>, 0, 5) /\ Holds(b, <<0, 0, 1, 1>>, 5, 9)
        /\ Holds(b, <<0, 0, 0, 1>>, 9, 13) /\ Holds(b, <<0, 0, 1, 0>>, 13, 17)
        /\ Holds(b, <<1, 1, 0, 0, 1, 0, 0>>, 17, 24)
    BY <1>1 DEF Holds
  <2>2. /\ CodeOf(w[1]) = <<1, 0, 1, 1, 0>> /\ CodeOf(w[2]) = <<0, 0, 1, 1>>
        /\ CodeOf(w[3]) = <<0, 0, 0, 1>> /\ CodeOf(w[4]) = <<0, 0, 1, 0>>
        /\ CodeOf(w[5]) = <<1, 1, 0, 0, 1, 0, 0>>
    BY <1>1, CodeTable
  <2>3. /\ Holds(b, CodeOf(w[1]), at[1], at[2]) /\ Holds(b, CodeOf(w[2]), at[2], at[3])
        /\ Holds(b, CodeOf(w[3]), at[3], at[4]) /\ Holds(b, CodeOf(w[4]), at[4], at[5])
        /\ Holds(b, CodeOf(w[5]), at[5], at[6])
    BY <1>1, <2>1, <2>2
  <2>4. \A i \in 1 .. 5 : Holds(b, CodeOf(w[i]), at[i], at[i + 1])
    BY <2>3
  <2> QED
    BY <1>1, <2>4 DEF Spells
<1>5. \A p \in 1 .. NameBits :
        (IF p <= Len(b) THEN b[p] ELSE 0) = (IF p <= Len(h) THEN h[p] ELSE 0)
  BY <1>1 DEF NameBits
<1>6. Coded(w) = b /\ Pad(b) = Pad(h)
  BY <1>2, <1>3, <1>4, <1>5, SpellsCoded, SamePad
<1>7. Pad(h) = Hex(<<11, 1, 8, 9, 6, 4>>)
  BY <1>1, Powers DEF Hex, Bits
<1>8. Len(Coded(w)) <= NameBits
  BY <1>3, <1>6
<1> QED
  BY <1>1, <1>6, <1>7, <1>8 DEF Pack

LEMMA Pack_macro ==
  /\ Pack(<<9, 5, 10, 1, 3>>) = Hex(<<8, 10, 12, 8, 4, 12>>)
  /\ Len(Coded(<<9, 5, 10, 1, 3>>)) <= NameBits
<1>1. PICK w, at, b, h :
        /\ w = <<9, 5, 10, 1, 3>> /\ at = <<0, 5, 9, 14, 18, 22>>
        /\ b = <<1, 0, 0, 0, 1,  0, 1, 0, 1,  1, 0, 0, 1, 0,  0, 0, 0, 1,  0, 0, 1, 1>>
        /\ h = <<1, 0, 0, 0,  1, 0, 1, 0,  1, 1, 0, 0,  1, 0, 0, 0,  0, 1, 0, 0,  1, 1, 0, 0>>
  OBVIOUS
<1>2. w \in Seq(Letter) /\ at \in Seq(Nat) /\ Len(at) = Len(w) + 1
  BY <1>1 DEF Letter
<1>3. b \in Seq(Bit) /\ h \in Seq(Bit) /\ Len(b) <= NameBits /\ Len(h) <= NameBits
  BY <1>1 DEF Bit, NameBits
<1>4. Spells(w, at, b)
  <2>1. /\ Holds(b, <<1, 0, 0, 0, 1>>, 0, 5) /\ Holds(b, <<0, 1, 0, 1>>, 5, 9)
        /\ Holds(b, <<1, 0, 0, 1, 0>>, 9, 14) /\ Holds(b, <<0, 0, 0, 1>>, 14, 18)
        /\ Holds(b, <<0, 0, 1, 1>>, 18, 22)
    BY <1>1 DEF Holds
  <2>2. /\ CodeOf(w[1]) = <<1, 0, 0, 0, 1>> /\ CodeOf(w[2]) = <<0, 1, 0, 1>>
        /\ CodeOf(w[3]) = <<1, 0, 0, 1, 0>> /\ CodeOf(w[4]) = <<0, 0, 0, 1>>
        /\ CodeOf(w[5]) = <<0, 0, 1, 1>>
    BY <1>1, CodeTable
  <2>3. /\ Holds(b, CodeOf(w[1]), at[1], at[2]) /\ Holds(b, CodeOf(w[2]), at[2], at[3])
        /\ Holds(b, CodeOf(w[3]), at[3], at[4]) /\ Holds(b, CodeOf(w[4]), at[4], at[5])
        /\ Holds(b, CodeOf(w[5]), at[5], at[6])
    BY <1>1, <2>1, <2>2
  <2>4. \A i \in 1 .. 5 : Holds(b, CodeOf(w[i]), at[i], at[i + 1])
    BY <2>3
  <2> QED
    BY <1>1, <2>4 DEF Spells
<1>5. \A p \in 1 .. NameBits :
        (IF p <= Len(b) THEN b[p] ELSE 0) = (IF p <= Len(h) THEN h[p] ELSE 0)
  BY <1>1 DEF NameBits
<1>6. Coded(w) = b /\ Pad(b) = Pad(h)
  BY <1>2, <1>3, <1>4, <1>5, SpellsCoded, SamePad
<1>7. Pad(h) = Hex(<<8, 10, 12, 8, 4, 12>>)
  BY <1>1, Powers DEF Hex, Bits
<1>8. Len(Coded(w)) <= NameBits
  BY <1>3, <1>6
<1> QED
  BY <1>1, <1>6, <1>7, <1>8 DEF Pack

LEMMA Pack_dot ==
  /\ Pack(<<37>>) = Hex(<<14, 10>>)
  /\ Len(Coded(<<37>>)) <= NameBits
<1>1. PICK w, at, b, h :
        /\ w = <<37>> /\ at = <<0, 7>>
        /\ b = <<1, 1, 1, 0, 1, 0, 1>>
        /\ h = <<1, 1, 1, 0,  1, 0, 1, 0>>
  OBVIOUS
<1>2. w \in Seq(Letter) /\ at \in Seq(Nat) /\ Len(at) = Len(w) + 1
  BY <1>1 DEF Letter
<1>3. b \in Seq(Bit) /\ h \in Seq(Bit) /\ Len(b) <= NameBits /\ Len(h) <= NameBits
  BY <1>1 DEF Bit, NameBits
<1>4. Spells(w, at, b)
  <2>1. Holds(b, <<1, 1, 1, 0, 1, 0, 1>>, 0, 7)
    BY <1>1 DEF Holds
  <2>2. CodeOf(w[1]) = <<1, 1, 1, 0, 1, 0, 1>>
    BY <1>1, CodeTable
  <2>3. Holds(b, CodeOf(w[1]), at[1], at[2])
    BY <1>1, <2>1, <2>2
  <2>4. \A i \in 1 .. 1 : Holds(b, CodeOf(w[i]), at[i], at[i + 1])
    BY <2>3
  <2> QED
    BY <1>1, <2>4 DEF Spells
<1>5. \A p \in 1 .. NameBits :
        (IF p <= Len(b) THEN b[p] ELSE 0) = (IF p <= Len(h) THEN h[p] ELSE 0)
  BY <1>1 DEF NameBits
<1>6. Coded(w) = b /\ Pad(b) = Pad(h)
  BY <1>2, <1>3, <1>4, <1>5, SpellsCoded, SamePad
<1>7. Pad(h) = Hex(<<14, 10>>)
  BY <1>1, Powers DEF Hex, Bits
<1>8. Len(Coded(w)) <= NameBits
  BY <1>3, <1>6
<1> QED
  BY <1>1, <1>6, <1>7, <1>8 DEF Pack

LEMMA Pack_add ==
  /\ Pack(<<43>>) = Hex(<<15, 6>>)
  /\ Len(Coded(<<43>>)) <= NameBits
<1>1. PICK w, at, b, h :
        /\ w = <<43>> /\ at = <<0, 7>>
        /\ b = <<1, 1, 1, 1, 0, 1, 1>>
        /\ h = <<1, 1, 1, 1,  0, 1, 1, 0>>
  OBVIOUS
<1>2. w \in Seq(Letter) /\ at \in Seq(Nat) /\ Len(at) = Len(w) + 1
  BY <1>1 DEF Letter
<1>3. b \in Seq(Bit) /\ h \in Seq(Bit) /\ Len(b) <= NameBits /\ Len(h) <= NameBits
  BY <1>1 DEF Bit, NameBits
<1>4. Spells(w, at, b)
  <2>1. Holds(b, <<1, 1, 1, 1, 0, 1, 1>>, 0, 7)
    BY <1>1 DEF Holds
  <2>2. CodeOf(w[1]) = <<1, 1, 1, 1, 0, 1, 1>>
    BY <1>1, CodeTable
  <2>3. Holds(b, CodeOf(w[1]), at[1], at[2])
    BY <1>1, <2>1, <2>2
  <2>4. \A i \in 1 .. 1 : Holds(b, CodeOf(w[i]), at[i], at[i + 1])
    BY <2>3
  <2> QED
    BY <1>1, <2>4 DEF Spells
<1>5. \A p \in 1 .. NameBits :
        (IF p <= Len(b) THEN b[p] ELSE 0) = (IF p <= Len(h) THEN h[p] ELSE 0)
  BY <1>1 DEF NameBits
<1>6. Coded(w) = b /\ Pad(b) = Pad(h)
  BY <1>2, <1>3, <1>4, <1>5, SpellsCoded, SamePad
<1>7. Pad(h) = Hex(<<15, 6>>)
  BY <1>1, Powers DEF Hex, Bits
<1>8. Len(Coded(w)) <= NameBits
  BY <1>3, <1>6
<1> QED
  BY <1>1, <1>6, <1>7, <1>8 DEF Pack

LEMMA Pack_divide ==
  /\ Pack(<<39>>) = Hex(<<14, 14>>)
  /\ Len(Coded(<<39>>)) <= NameBits
<1>1. PICK w, at, b, h :
        /\ w = <<39>> /\ at = <<0, 7>>
        /\ b = <<1, 1, 1, 0, 1, 1, 1>>
        /\ h = <<1, 1, 1, 0,  1, 1, 1, 0>>
  OBVIOUS
<1>2. w \in Seq(Letter) /\ at \in Seq(Nat) /\ Len(at) = Len(w) + 1
  BY <1>1 DEF Letter
<1>3. b \in Seq(Bit) /\ h \in Seq(Bit) /\ Len(b) <= NameBits /\ Len(h) <= NameBits
  BY <1>1 DEF Bit, NameBits
<1>4. Spells(w, at, b)
  <2>1. Holds(b, <<1, 1, 1, 0, 1, 1, 1>>, 0, 7)
    BY <1>1 DEF Holds
  <2>2. CodeOf(w[1]) = <<1, 1, 1, 0, 1, 1, 1>>
    BY <1>1, CodeTable
  <2>3. Holds(b, CodeOf(w[1]), at[1], at[2])
    BY <1>1, <2>1, <2>2
  <2>4. \A i \in 1 .. 1 : Holds(b, CodeOf(w[i]), at[i], at[i + 1])
    BY <2>3
  <2> QED
    BY <1>1, <2>4 DEF Spells
<1>5. \A p \in 1 .. NameBits :
        (IF p <= Len(b) THEN b[p] ELSE 0) = (IF p <= Len(h) THEN h[p] ELSE 0)
  BY <1>1 DEF NameBits
<1>6. Coded(w) = b /\ Pad(b) = Pad(h)
  BY <1>2, <1>3, <1>4, <1>5, SpellsCoded, SamePad
<1>7. Pad(h) = Hex(<<14, 14>>)
  BY <1>1, Powers DEF Hex, Bits
<1>8. Len(Coded(w)) <= NameBits
  BY <1>3, <1>6
<1> QED
  BY <1>1, <1>6, <1>7, <1>8 DEF Pack

(* An entry of the dictionary: the name is the packed spelling of its code. *)
DictionaryEntry(i) ==
  /\ Dictionary[i].code \in DOMAIN Spelling
  /\ Spelling[Dictionary[i].code] \in Seq(Letter)
  /\ Len(Coded(Spelling[Dictionary[i].code])) <= NameBits
  /\ Dictionary[i].name = Pack(Spelling[Dictionary[i].code])

LEMMA Entries ==
  \A i \in 1 .. 8 : DictionaryEntry(i)
<1>1. DictionaryEntry(1)
  <2>1. Dictionary[1].code = "comma" /\ Dictionary[1].name = Hex(<<15, 12>>)
    BY DEF Dictionary
  <2>2. "comma" \in DOMAIN Spelling /\ Spelling["comma"] = <<46>> /\ <<46>> \in Seq(Letter)
    BY DEF Spelling, Letter
  <2> QED
    BY <2>1, <2>2, Pack_comma DEF DictionaryEntry
<1>2. DictionaryEntry(2)
  <2>1. Dictionary[2].code = "load" /\ Dictionary[2].name = Hex(<<10, 1, 10, 14>>)
    BY DEF Dictionary
  <2>2. /\ "load" \in DOMAIN Spelling /\ Spelling["load"] = <<12, 3, 5, 16>>
        /\ <<12, 3, 5, 16>> \in Seq(Letter)
    BY DEF Spelling, Letter
  <2> QED
    BY <2>1, <2>2, Pack_load DEF DictionaryEntry
<1>3. DictionaryEntry(3)
  <2>1. Dictionary[3].code = "loads" /\ Dictionary[3].name = Hex(<<10, 1, 10, 14, 0, 8>>)
    BY DEF Dictionary
  <2>2. /\ "loads" \in DOMAIN Spelling /\ Spelling["loads"] = <<12, 3, 5, 16, 8>>
        /\ <<12, 3, 5, 16, 8>> \in Seq(Letter)
    BY DEF Spelling, Letter
  <2> QED
    BY <2>1, <2>2, Pack_loads DEF DictionaryEntry
<1>4. DictionaryEntry(4)
  <2>1. Dictionary[4].code = "forth" /\ Dictionary[4].name = Hex(<<11, 1, 8, 9, 6, 4>>)
    BY DEF Dictionary
  <2>2. /\ "forth" \in DOMAIN Spelling /\ Spelling["forth"] = <<14, 3, 1, 2, 20>>
        /\ <<14, 3, 1, 2, 20>> \in Seq(Letter)
    BY DEF Spelling, Letter
  <2> QED
    BY <2>1, <2>2, Pack_forth DEF DictionaryEntry
<1>5. DictionaryEntry(5)
  <2>1. Dictionary[5].code = "macro" /\ Dictionary[5].name = Hex(<<8, 10, 12, 8, 4, 12>>)
    BY DEF Dictionary
  <2>2. /\ "macro" \in DOMAIN Spelling /\ Spelling["macro"] = <<9, 5, 10, 1, 3>>
        /\ <<9, 5, 10, 1, 3>> \in Seq(Letter)
    BY DEF Spelling, Letter
  <2> QED
    BY <2>1, <2>2, Pack_macro DEF DictionaryEntry
<1>6. DictionaryEntry(6)
  <2>1. Dictionary[6].code = "dot" /\ Dictionary[6].name = Hex(<<14, 10>>)
    BY DEF Dictionary
  <2>2. "dot" \in DOMAIN Spelling /\ Spelling["dot"] = <<37>> /\ <<37>> \in Seq(Letter)
    BY DEF Spelling, Letter
  <2> QED
    BY <2>1, <2>2, Pack_dot DEF DictionaryEntry
<1>7. DictionaryEntry(7)
  <2>1. Dictionary[7].code = "add" /\ Dictionary[7].name = Hex(<<15, 6>>)
    BY DEF Dictionary
  <2>2. "add" \in DOMAIN Spelling /\ Spelling["add"] = <<43>> /\ <<43>> \in Seq(Letter)
    BY DEF Spelling, Letter
  <2> QED
    BY <2>1, <2>2, Pack_add DEF DictionaryEntry
<1>8. DictionaryEntry(8)
  <2>1. Dictionary[8].code = "divide" /\ Dictionary[8].name = Hex(<<14, 14>>)
    BY DEF Dictionary
  <2>2. "divide" \in DOMAIN Spelling /\ Spelling["divide"] = <<39>> /\ <<39>> \in Seq(Letter)
    BY DEF Spelling, Letter
  <2> QED
    BY <2>1, <2>2, Pack_divide DEF DictionaryEntry
<1> QED
  BY <1>1, <1>2, <1>3, <1>4, <1>5, <1>6, <1>7, <1>8

LEMMA SpellingsDiffer ==
  /\ DOMAIN Dictionary = 1 .. 8
  /\ \A c \in DOMAIN Spelling : \E i \in DOMAIN Dictionary : Dictionary[i].code = c
  /\ \A c, d \in DOMAIN Spelling : Spelling[c] = Spelling[d] => c = d
  /\ "none" \notin DOMAIN Spelling
<1>1. DOMAIN Dictionary = 1 .. 8
  BY DEF Dictionary
<1>2. DOMAIN Spelling = {"comma", "load", "loads", "forth", "macro", "dot", "add", "divide"}
  BY DEF Spelling
<1>3. /\ Dictionary[1].code = "comma" /\ Dictionary[2].code = "load"
      /\ Dictionary[3].code = "loads" /\ Dictionary[4].code = "forth"
      /\ Dictionary[5].code = "macro" /\ Dictionary[6].code = "dot"
      /\ Dictionary[7].code = "add" /\ Dictionary[8].code = "divide"
  BY DEF Dictionary
<1>4. /\ 1 \in 1 .. 8 /\ 2 \in 1 .. 8 /\ 3 \in 1 .. 8 /\ 4 \in 1 .. 8
      /\ 5 \in 1 .. 8 /\ 6 \in 1 .. 8 /\ 7 \in 1 .. 8 /\ 8 \in 1 .. 8
  OBVIOUS
<1>5. ASSUME NEW c \in DOMAIN Spelling PROVE \E i \in DOMAIN Dictionary : Dictionary[i].code = c
  BY <1>1, <1>2, <1>3, <1>4
<1> DEFINE first(c) == Spelling[c][1]
           size(c)  == Len(Spelling[c])
<1>6. /\ first("comma") = 46 /\ first("load") = 12 /\ first("loads") = 12 /\ first("forth") = 14
      /\ first("macro") = 9 /\ first("dot") = 37 /\ first("add") = 43 /\ first("divide") = 39
      /\ size("load") = 4 /\ size("loads") = 5
  BY DEF Spelling
<1>7. ASSUME NEW c \in DOMAIN Spelling, NEW d \in DOMAIN Spelling, Spelling[c] = Spelling[d]
      PROVE  c = d
  <2>1. first(c) = first(d) /\ size(c) = size(d)
    BY <1>7
  <2> HIDE DEF first, size
  <2> QED
    BY <1>2, <1>6, <2>1
<1>8. "none" \notin DOMAIN Spelling
  BY <1>2
<1> QED
  BY <1>1, <1>5, <1>7, <1>8

LEMMA WordFound ==
  ASSUME NEW w \in Seq(Letter), Len(Coded(w)) <= NameBits
  PROVE  Lookup(Pack(w)) = Means(w)
<1> DEFINE hit(i) == Dictionary[i].name = Pack(w)
<1>1. ASSUME NEW i \in DOMAIN Dictionary, hit(i)
      PROVE  Dictionary[i].code \in DOMAIN Spelling /\ Spelling[Dictionary[i].code] = w
  <2>1. DictionaryEntry(i)
    BY Entries, SpellingsDiffer
  <2>2. PICK s : s = Spelling[Dictionary[i].code]
    OBVIOUS
  <2>3. s \in Seq(Letter) /\ Len(Coded(s)) <= NameBits /\ Pack(s) = Pack(w)
    BY <1>1, <2>1, <2>2 DEF DictionaryEntry
  <2>4. Unpack(Pack(s)) = s /\ Unpack(Pack(w)) = w
    BY <2>3, UnpackPack
  <2> QED
    BY <2>1, <2>2, <2>3, <2>4 DEF DictionaryEntry
<1>2. CASE \E c \in DOMAIN Spelling : Spelling[c] = w
  <2>1. PICK c \in DOMAIN Spelling : Spelling[c] = w
    BY <1>2
  <2>2. \A d \in DOMAIN Spelling : Spelling[d] = w => d = c
    BY <2>1, SpellingsDiffer
  <2>3. Means(w) = c
    <3>1. Means(w) = CHOOSE d \in DOMAIN Spelling : Spelling[d] = w
      BY <2>1 DEF Means
    <3> QED
      BY <2>1, <2>2, <3>1
  <2>4. PICK i \in DOMAIN Dictionary : Dictionary[i].code = c
    BY SpellingsDiffer
  <2>5. hit(i)
    <3>1. DictionaryEntry(i)
      BY Entries, SpellingsDiffer
    <3> QED
      BY <2>1, <2>4, <3>1 DEF DictionaryEntry
  <2>6. PICK j : j = CHOOSE e \in DOMAIN Dictionary : hit(e)
    OBVIOUS
  <2>7. j \in DOMAIN Dictionary /\ hit(j)
    BY <2>5, <2>6
  <2>8. Lookup(Pack(w)) = Dictionary[j].code
    BY <2>5, <2>6 DEF Lookup
  <2> QED
    BY <1>1, <2>2, <2>3, <2>7, <2>8
<1>3. CASE ~ \E c \in DOMAIN Spelling : Spelling[c] = w
  <2>1. Means(w) = "none"
    BY <1>3 DEF Means
  <2>2. ~ \E i \in DOMAIN Dictionary : hit(i)
    BY <1>1, <1>3
  <2> QED
    BY <2>1, <2>2 DEF Lookup
<1> QED
  BY <1>2, <1>3

-----------------------------------------------------------------------------
(* What is typed.                                                          *)

LEMMA OnlyLetters ==
  ASSUME TypeInv, NoLetter \notin Range(word)
  PROVE  word \in Seq(Letter)
<1>1. PICK w : w = word
  OBVIOUS
<1>2. w \in Seq(Letter \cup {NoLetter}) /\ \A i \in DOMAIN w : w[i] # NoLetter
  BY <1>1 DEF TypeInv, EditorInv, Range
<1>3. \A i \in 1 .. Len(w) : w[i] \in Letter
  BY <1>2
<1>4. w \in Seq(Letter)
  BY <1>2, <1>3
<1> QED
  BY <1>1, <1>4

(* pack() loses nothing of a word that fits its 28 bits: unpack() gives    *)
(* the letters back, whatever was typed.                                   *)
THEOREM EditorRoundTrip == Spec => []RoundTrip
<1>1. TypeInv => RoundTrip
  BY OnlyLetters, UnpackPack DEF RoundTrip
<1> QED
  BY <1>1, TypeInit, TypeStep, PTL DEF Spec

(* A word that is typed runs the built-in word it spells and no other:     *)
(* that the packed bits are equal says that the words are, for every word  *)
(* that fits them.                                                         *)
THEOREM EditorSpelled == Spec => []Spelled
<1>1. TypeInv => Spelled
  BY OnlyLetters, WordFound DEF Spelled
<1> QED
  BY <1>1, TypeInit, TypeStep, PTL DEF Spec
=============================================================================
