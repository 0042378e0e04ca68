----------------------------- MODULE HeapProofs -----------------------------
(***************************************************************************)
(* Proofs about the heap: whatever the layout of the memory and whatever   *)
(* the requests, two ranges cut from one arena never share an address, no  *)
(* address of an arena is lost, and each block handed out is, address by   *)
(* address, one that the abstract allocator may hand out.                  *)
(***************************************************************************)
EXTENDS Heap, TLAPS

Entry == [base : 0 .. Word - 1, size : 0 .. Word - 1, arena : 1 .. 8, from : Nat]

-----------------------------------------------------------------------------
(* Sequences: what removing an element leaves. *)
LEMMA WithoutElements ==
  ASSUME NEW S, NEW s \in Seq(S), NEW i \in DOMAIN s
  PROVE  /\ Without(s, i) \in Seq(S)
         /\ Len(Without(s, i)) = Len(s) - 1
         /\ \A j \in 1 .. Len(s) - 1 :
              Without(s, i)[j] = IF j < i THEN s[j] ELSE s[j + 1]
<1> DEFINE w == Without(s, i)
<1>1. Len(s) \in Nat /\ DOMAIN s = 1 .. Len(s) /\ i \in 1 .. Len(s)
  OBVIOUS
<1>2. Len(s) - 1 \in Nat
  BY <1>1
<1>3. w = [j \in 1 .. Len(s) - 1 |-> IF j < i THEN s[j] ELSE s[j + 1]]
  BY DEF Without
<1>4. \A j \in 1 .. Len(s) - 1 : (IF j < i THEN s[j] ELSE s[j + 1]) \in S
  BY <1>1
<1>5. w \in Seq(S)
  BY <1>2, <1>3, <1>4
<1>6. Len(w) = Len(s) - 1
  BY <1>2, <1>3, <1>5
<1> QED
  BY <1>3, <1>5, <1>6

(* The elements that are left are those of other places, each once. *)
LEMMA WithoutPlaces ==
  ASSUME NEW S, NEW s \in Seq(S), NEW i \in DOMAIN s
  PROVE  /\ \A j \in DOMAIN Without(s, i) :
              \E k \in DOMAIN s : k # i /\ Without(s, i)[j] = s[k]
         /\ \A k \in DOMAIN s : k # i =>
              \E j \in DOMAIN Without(s, i) : Without(s, i)[j] = s[k]
         /\ (\A j, k \in DOMAIN s : s[j] = s[k] => j = k)
              => \A j, k \in DOMAIN Without(s, i) :
                   Without(s, i)[j] = Without(s, i)[k] => j = k
<1> DEFINE w == Without(s, i)
           place(j) == IF j < i THEN j ELSE j + 1
<1>1. /\ Len(s) \in Nat /\ DOMAIN s = 1 .. Len(s) /\ i \in 1 .. Len(s)
      /\ DOMAIN w = 1 .. Len(s) - 1
  BY WithoutElements
<1>2. \A j \in DOMAIN w :
        place(j) \in DOMAIN s /\ place(j) # i /\ w[j] = s[place(j)]
  <2>1. \A j \in 1 .. Len(s) - 1 : w[j] = IF j < i THEN s[j] ELSE s[j + 1]
    BY WithoutElements
  <2> HIDE DEF w
  <2>2. \A j \in 1 .. Len(s) - 1 : place(j) \in 1 .. Len(s) /\ place(j) # i
    BY <1>1
  <2>3. \A j \in 1 .. Len(s) - 1 : w[j] = s[place(j)]
    BY <2>1
  <2> QED
    BY <1>1, <2>2, <2>3
<1> HIDE DEF w
<1>3. \A j, k \in DOMAIN w : place(j) = place(k) => j = k
  BY <1>1
<1>4. \A k \in DOMAIN s : k # i => \E j \in DOMAIN w : place(j) = k
  <2> SUFFICES ASSUME NEW k \in DOMAIN s, k # i PROVE \E j \in DOMAIN w : place(j) = k
    OBVIOUS
  <2>1. CASE k < i
    BY <1>1, <2>1
  <2>2. CASE k > i
    <3>1. k - 1 \in DOMAIN w /\ place(k - 1) = k
      BY <1>1, <2>2
    <3> QED
      BY <3>1
  <2> QED
    BY <1>1, <2>1, <2>2
<1> HIDE DEF place
<1>5. \A k \in DOMAIN s : k # i => \E j \in DOMAIN w : w[j] = s[k]
  BY <1>2, <1>4
<1>6. (\A j, k \in DOMAIN s : s[j] = s[k] => j = k)
        => \A j, k \in DOMAIN w : w[j] = w[k] => j = k
  BY <1>2, <1>3
<1> QED
  BY <1>2, <1>5, <1>6 DEF w

LEMMA AppendElements ==
  ASSUME NEW S, NEW t \in Seq(S), NEW x \in S
  PROVE  /\ Append(t, x) \in Seq(S)
         /\ DOMAIN Append(t, x) = DOMAIN t \cup {Len(t) + 1}
         /\ Len(t) + 1 \notin DOMAIN t
         /\ \A j \in DOMAIN t : Append(t, x)[j] = t[j]
         /\ Append(t, x)[Len(t) + 1] = x
<1> DEFINE t2 == Append(t, x)
<1>1. Len(t) \in Nat /\ DOMAIN t = 1 .. Len(t)
  OBVIOUS
<1>2. t2 \in Seq(S) /\ Len(t2) = Len(t) + 1
  BY <1>1
<1>3. DOMAIN t2 = 1 .. Len(t) + 1
  BY <1>2
<1>4. \A j \in 1 .. Len(t) + 1 : t2[j] = IF j = Len(t) + 1 THEN x ELSE t[j]
  BY <1>1
<1> QED
  BY <1>1, <1>2, <1>3, <1>4

(* Two lists that hold each element once still do when an element moves    *)
(* from one to the end of the other.                                       *)
Holds(s, x) == \E j \in DOMAIN s : s[j] = x
Once(s)     == \A j, k \in DOMAIN s : s[j] = s[k] => j = k
Parted(s, t) ==
  Once(s) /\ Once(t) /\ \A j \in DOMAIN s, k \in DOMAIN t : s[j] # t[k]

LEMMA Move ==
  ASSUME NEW S, NEW s \in Seq(S), NEW t \in Seq(S), NEW i \in DOMAIN s, Parted(s, t)
  PROVE  /\ Without(s, i) \in Seq(S) /\ Append(t, s[i]) \in Seq(S)
         /\ Parted(Without(s, i), Append(t, s[i]))
         /\ \A x \in S : Holds(s, x) \/ Holds(t, x)
              => Holds(Without(s, i), x) \/ Holds(Append(t, s[i]), x)
<1> DEFINE s2 == Without(s, i)
           t2 == Append(t, s[i])
<1>1. /\ Once(s) /\ Once(t)
      /\ \A j \in DOMAIN s, k \in DOMAIN t : s[j] # t[k]
  BY DEF Parted
<1>2. /\ s2 \in Seq(S)
      /\ \A j \in DOMAIN s2 : \E k \in DOMAIN s : k # i /\ s2[j] = s[k]
      /\ \A k \in DOMAIN s : k # i => \E j \in DOMAIN s2 : s2[j] = s[k]
      /\ Once(s2)
  BY <1>1, WithoutElements, WithoutPlaces DEF Once
<1>3. /\ t2 \in Seq(S)
      /\ DOMAIN t2 = DOMAIN t \cup {Len(t) + 1}
      /\ Len(t) + 1 \notin DOMAIN t
      /\ \A j \in DOMAIN t : t2[j] = t[j]
      /\ t2[Len(t) + 1] = s[i]
  BY AppendElements
<1> HIDE DEF s2, t2
<1>4. Once(t2)
  BY <1>1, <1>3 DEF Once
<1>5. \A j \in DOMAIN s2, k \in DOMAIN t2 : s2[j] # t2[k]
  BY <1>1, <1>2, <1>3 DEF Once
<1>6. \A x \in S : Holds(s, x) \/ Holds(t, x) => Holds(s2, x) \/ Holds(t2, x)
  <2> SUFFICES ASSUME NEW x \in S, Holds(s, x) \/ Holds(t, x)
               PROVE  Holds(s2, x) \/ Holds(t2, x)
    OBVIOUS
  <2>1. CASE Holds(t, x)
    BY <1>3, <2>1 DEF Holds
  <2>2. CASE Holds(s, x)
    <3>1. PICK k \in DOMAIN s : s[k] = x
      BY <2>2 DEF Holds
    <3>2. CASE k = i
      BY <1>3, <3>1, <3>2 DEF Holds
    <3>3. CASE k # i
      BY <1>2, <3>1, <3>3 DEF Holds
    <3> QED
      BY <3>2, <3>3
  <2> QED
    BY <2>1, <2>2
<1> QED
  BY <1>2, <1>3, <1>4, <1>5, <1>6 DEF Parted, s2, t2

-----------------------------------------------------------------------------
(* The inductive invariant is made of the properties the runs check, and   *)
(* of one more: what is handed out has a size that was asked for.          *)
Asked == \A i \in DOMAIN used : range[used[i]].size \in Requests

Inv == TypeOK /\ Apart /\ NothingLost /\ ListedOnce /\ Asked

LEMMA Lists ==
  ASSUME TypeOK
  PROVE  /\ Len(range) \in Nat /\ Made = 1 .. Len(range)
         /\ \A d \in Made : range[d] \in Entry
         /\ \A i \in DOMAIN free : free[i] \in Made \ {1}
         /\ \A i \in DOMAIN used : used[i] \in Made \ {1}
<1>1. range \in Seq(Entry) /\ free \in Seq(Made \ {1}) /\ used \in Seq(Made \ {1})
  BY DEF TypeOK, Entry
<1> HIDE DEF Entry
<1>2. Len(range) \in Nat /\ Made = 1 .. Len(range) /\ \A d \in Made : range[d] \in Entry
  BY <1>1 DEF Made
<1>3. /\ \A i \in DOMAIN free : free[i] \in Made \ {1}
      /\ \A i \in DOMAIN used : used[i] \in Made \ {1}
  BY <1>1
<1> QED
  BY <1>2, <1>3

LEMMA InitCorrect == Init => Inv
<1> SUFFICES ASSUME Init PROVE Inv
  OBVIOUS
<1>1. PICK leftover \in Leftovers :
        range = [d \in 1 .. 8 |->
                   [base |-> SetupRange(leftover)[d].base,
                    size |-> SetupRange(leftover)[d].size, arena |-> d, from |-> 0]]
  BY DEF Init
<1>2. /\ free = [i \in 1 .. 7 |-> i + 1] /\ used = <<>>
      /\ extent = [a \in Arena |-> range[a].size]
  BY DEF Init
<1>3. \A d \in 1 .. 8 : /\ SetupRange(leftover)[d].base \in 0 .. Word - 1
                        /\ SetupRange(leftover)[d].size \in 0 .. Word - 1
  <2>1. leftover \in 0 .. Word - 1 /\ Minus(BiosStart, leftover) \in 0 .. Word - 1
    BY HeapAssumption DEF Minus
  <2>2. /\ PageSize \in 0 .. Word - 1 /\ BiosStart \in 0 .. Word - 1
        /\ BiosEnd \in 0 .. Word - 1 /\ KernelStart \in 0 .. Word - 1
        /\ KernelEnd \in 0 .. Word - 1 /\ InitrdStart \in 0 .. Word - 1
        /\ InitrdEnd \in 0 .. Word - 1
        /\ BiosEnd - BiosStart \in 0 .. Word - 1 /\ KernelStart - BiosEnd \in 0 .. Word - 1
        /\ InitrdEnd - InitrdStart \in 0 .. Word - 1
        /\ InitrdStart - KernelEnd \in 0 .. Word - 1
        /\ RamSize - InitrdEnd \in 0 .. Word - 1
    BY HeapAssumption
  <2> SUFFICES ASSUME NEW d \in 1 .. 8
               PROVE  /\ SetupRange(leftover)[d].base \in 0 .. Word - 1
                      /\ SetupRange(leftover)[d].size \in 0 .. Word - 1
    OBVIOUS
  <2>3. d = 1 \/ d = 2 \/ d = 3 \/ d = 4 \/ d = 5 \/ d = 6 \/ d = 7 \/ d = 8
    OBVIOUS
  <2> QED
    BY <2>1, <2>2, <2>3 DEF SetupRange
<1>4. /\ DOMAIN range = 1 .. 8
      /\ \A d \in 1 .. 8 : range[d] \in Entry /\ range[d].arena = d /\ range[d].from = 0
  <2>1. DOMAIN range = 1 .. 8 /\
        \A d \in 1 .. 8 : range[d] = [base |-> SetupRange(leftover)[d].base,
                    size |-> SetupRange(leftover)[d].size, arena |-> d, from |-> 0]
    BY <1>1
  <2>2. \A d \in 1 .. 8 : range[d] \in Entry
    BY <1>3, <2>1 DEF Entry
  <2> QED
    BY <2>1, <2>2
<1>5. range \in Seq(Entry)
  BY <1>1, <1>4
<1>6. free \in Seq(2 .. 8) /\ DOMAIN free = 1 .. 7 /\ \A i \in 1 .. 7 : free[i] = i + 1
  BY <1>2
<1>7. used \in Seq(2 .. 8) /\ DOMAIN used = {}
  BY <1>2
<1>8. Made \ {1} = 2 .. 8
  BY <1>4 DEF Made
<1>9. \A a \in Arena : extent[a] = range[a].size /\ range[a].size \in Nat
  <2>1. \A a \in Arena : range[a].size \in 0 .. Word - 1
    BY <1>4 DEF Arena, Entry
  <2>2. \A x \in 0 .. Word - 1 : x \in Nat
    BY HeapAssumption
  <2> QED
    BY <1>2, <2>1, <2>2
<1>10. TypeOK
  <2>1. extent \in [Arena -> 0 .. Word - 1]
    <3>1. \A a \in Arena : range[a].size \in 0 .. Word - 1
      BY <1>4 DEF Arena, Entry
    <3> QED
      BY <1>2, <3>1
  <2> QED
    BY <1>5, <1>6, <1>7, <1>8, <2>1 DEF TypeOK, Entry
<1>11. Apart
  BY <1>4 DEF Apart, Made
<1>12. NothingLost
  BY <1>4, <1>9 DEF NothingLost, Made, Arena, Entry
<1>13. ListedOnce
  BY <1>6, <1>7, <1>8 DEF ListedOnce
<1>14. Asked
  BY <1>7 DEF Asked
<1> QED
  BY <1>10, <1>11, <1>12, <1>13, <1>14 DEF Inv

(* A range moves from one list to the other: nothing else changes. *)
LEMMA ExactCorrect ==
  ASSUME Inv, NEW size \in Requests, Exact(size)
  PROVE  Inv'
<1>1. PICK i \in DOMAIN free :
        free' = Without(free, i) /\ used' = Append(used, free[i]) /\ IsExact(free[i], size)
  BY DEF Exact
<1> DEFINE S == Made \ {1}
<1>2. UNCHANGED <<range, extent>> /\ Made' = Made
  BY DEF Exact, Made
<1>3. /\ free \in Seq(S) /\ used \in Seq(S)
      /\ Parted(free, used) /\ Parted(used, free)
      /\ \A x \in S : Holds(free, x) \/ Holds(used, x)
  BY DEF Inv, TypeOK, ListedOnce, Parted, Once, Holds
<1> HIDE DEF S
<1>4. /\ free' \in Seq(S) /\ used' \in Seq(S) /\ Parted(free', used')
      /\ \A x \in S : Holds(free', x) \/ Holds(used', x)
  BY <1>1, <1>3, Move
<1>5. TypeOK'
  BY <1>2, <1>4 DEF Inv, TypeOK, S
<1>6. Apart' /\ NothingLost'
  BY <1>2 DEF Inv, Apart, NothingLost
<1>7. ListedOnce'
  BY <1>2, <1>4 DEF ListedOnce, Parted, Once, Holds, S
<1>8. Asked'
  <2>1. range[free[i]].size \in Requests
    BY <1>1 DEF IsExact
  <2>2. \A j \in DOMAIN used' : used'[j] = free[i] \/ \E k \in DOMAIN used : used'[j] = used[k]
    BY <1>1, <1>3, AppendElements
  <2> QED
    BY <1>2, <2>1, <2>2 DEF Inv, Asked
<1> QED
  BY <1>5, <1>6, <1>7, <1>8 DEF Inv

LEMMA ReleaseCorrect ==
  ASSUME Inv, NEW i \in DOMAIN used, Release(i)
  PROVE  Inv'
<1>1. free' = Append(free, used[i]) /\ used' = Without(used, i)
  BY DEF Release
<1> DEFINE S == Made \ {1}
<1>2. UNCHANGED <<range, extent>> /\ Made' = Made
  BY DEF Release, Made
<1>3. /\ free \in Seq(S) /\ used \in Seq(S)
      /\ Parted(free, used) /\ Parted(used, free)
      /\ \A x \in S : Holds(free, x) \/ Holds(used, x)
  BY DEF Inv, TypeOK, ListedOnce, Parted, Once, Holds
<1> HIDE DEF S
<1>4. /\ used' \in Seq(S) /\ free' \in Seq(S) /\ Parted(used', free')
      /\ \A x \in S : Holds(used', x) \/ Holds(free', x)
  BY <1>1, <1>3, Move
<1>5. TypeOK'
  BY <1>2, <1>4 DEF Inv, TypeOK, S
<1>6. Apart' /\ NothingLost'
  BY <1>2 DEF Inv, Apart, NothingLost
<1>7. ListedOnce'
  BY <1>2, <1>4 DEF ListedOnce, Parted, Once, Holds, S
<1>8. Asked'
  <2>1. \A j \in DOMAIN used' : \E k \in DOMAIN used : used'[j] = used[k]
    BY <1>1, <1>3, WithoutPlaces
  <2> QED
    BY <1>2, <2>1 DEF Inv, Asked
<1> QED
  BY <1>5, <1>6, <1>7, <1>8 DEF Inv

-----------------------------------------------------------------------------
(* Cutting a range: it keeps its place and its beginning, the new one is   *)
(* its end, the others stay as they are.                                   *)
LEMMA CutEffect ==
  ASSUME TypeOK, NEW d \in Made \ {1}, NEW size \in Requests, Fits(d, size), Cut(d, size)
  PROVE  LET n == Len(range) + 1
         IN  /\ n \notin Made /\ n # 1 /\ Made' = Made \cup {n}
             /\ range' \in Seq(Entry)
             /\ \A e \in Made \ {d} : range'[e] = range[e]
             /\ range'[d].arena = range[d].arena /\ range'[d].from = range[d].from
             /\ range'[d].size = range[d].size - size
             /\ range'[d].base = range[d].base
             /\ range'[n].base = Plus(range[d].base, range[d].size - size)
             /\ range'[n].arena = range[d].arena
             /\ range'[n].from = range[d].from + range[d].size - size
             /\ range'[n].size = size
             /\ size \in Nat \ {0} /\ size <= range[d].size
<1> DEFINE n    == Len(range) + 1
           left == range[d].size - size
           cut  == [range[d] EXCEPT !.size = left]
           new  == [base |-> Plus(range[d].base, left), size |-> size,
                    arena |-> range[d].arena, from |-> range[d].from + left]
           old  == [range EXCEPT ![d].size = left]
<1>1. /\ range \in Seq(Entry) /\ Len(range) \in Nat /\ Made = 1 .. Len(range)
      /\ \A e \in Made : range[e] \in Entry
  BY Lists DEF TypeOK, Entry
<1>2. size \in Nat \ {0} /\ size <= range[d].size /\ left \in 0 .. Word - 1 /\ size <= Word - 1
  <2>1. range[d].size \in 0 .. Word - 1 /\ Word \in Nat
    BY <1>1, HeapAssumption DEF Entry
  <2>2. size \in Nat \ {0} /\ size <= range[d].size
    BY <2>1, HeapAssumption DEF Fits
  <2> QED
    BY <2>1, <2>2
<1>3. /\ cut \in Entry /\ cut.arena = range[d].arena /\ cut.from = range[d].from
      /\ cut.size = left /\ cut.base = range[d].base
  BY <1>1, <1>2, HeapAssumption DEF Entry
<1>4. new \in Entry
  <2>1. /\ range[d].base \in 0 .. Word - 1 /\ range[d].from \in Nat
        /\ range[d].arena \in 1 .. 8
    BY <1>1 DEF Entry
  <2>2. range[d].from + left \in Nat /\ size \in 0 .. Word - 1
    BY <1>2, <2>1
  <2>3. Plus(range[d].base, left) \in 0 .. Word - 1
    BY <1>2, <2>1, HeapAssumption DEF Plus
  <2> QED
    BY <2>1, <2>2, <2>3 DEF Entry
<1>5. old = [range EXCEPT ![d] = cut] /\ range' = Append(old, new)
  BY DEF Cut
<1> HIDE DEF cut, new
<1>6. /\ old \in Seq(Entry) /\ Len(old) = Len(range)
      /\ old[d] = cut /\ \A e \in Made \ {d} : old[e] = range[e]
  BY <1>1, <1>3, <1>5, SMTT(30)
<1> HIDE DEF old
<1>7. /\ range' \in Seq(Entry) /\ DOMAIN range' = 1 .. Len(range) + 1
      /\ \A e \in Made : range'[e] = old[e]
      /\ range'[n] = new
  BY <1>1, <1>4, <1>5, <1>6
<1>8. n \notin Made /\ n # 1 /\ Made' = Made \cup {n}
  BY <1>1, <1>7 DEF Made
<1>9. /\ new.arena = range[d].arena /\ new.size = size
      /\ new.from = range[d].from + left /\ new.base = Plus(range[d].base, left)
  BY DEF new
<1>10. range'[n].from = range[d].from + range[d].size - size
  BY <1>1, <1>2, <1>7, <1>9 DEF Entry
<1> QED
  BY <1>2, <1>3, <1>6, <1>7, <1>8, <1>9, <1>10

(* The interval [a, a + b) outside of [f, f + z) is outside of both halves. *)
LEMMA Halves ==
  ASSUME NEW a \in Nat, NEW b \in Nat, NEW f \in Nat, NEW z \in Nat, NEW s \in Nat,
         s <= z, a + b <= f \/ f + z <= a
  PROVE  /\ a + b <= f \/ f + (z - s) <= a
         /\ a + b <= f + z - s \/ f + z - s + s <= a
  OBVIOUS

LEMMA FirstFitCorrect ==
  ASSUME Inv, NEW size \in Requests, FirstFit(size)
  PROVE  Inv'
<1> DEFINE n == Len(range) + 1
<1>1. PICK i \in DOMAIN free : Fits(free[i], size) /\ Cut(free[i], size)
  BY DEF FirstFit
<1>2. used' = Append(used, n) /\ UNCHANGED <<free, extent>>
  BY DEF FirstFit
<1>3. PICK d \in Made \ {1} : d = free[i]
  BY Lists DEF Inv
<1>4. /\ n \notin Made /\ n # 1 /\ Made' = Made \cup {n}
      /\ range' \in Seq(Entry)
      /\ \A e \in Made \ {d} : range'[e] = range[e]
      /\ range'[d].arena = range[d].arena /\ range'[d].from = range[d].from
      /\ range'[d].size = range[d].size - size
      /\ range'[n].arena = range[d].arena
      /\ range'[n].from = range[d].from + range[d].size - size
      /\ range'[n].size = size
      /\ size \in Nat \ {0} /\ size <= range[d].size
  BY <1>1, <1>3, CutEffect DEF Inv
<1> HIDE DEF n
<1>5. \A e \in Made : range[e].from \in Nat /\ range[e].size \in Nat
  <2> SUFFICES ASSUME NEW e \in Made PROVE range[e].from \in Nat /\ range[e].size \in Nat
    OBVIOUS
  <2>1. range[e].from \in Nat /\ range[e].size \in 0 .. Word - 1
    BY Lists DEF Inv, Entry
  <2> QED
    BY <2>1, HeapAssumption
<1>6. /\ free \in Seq(Made \ {1}) /\ used \in Seq(Made \ {1})
      /\ \A j \in DOMAIN free : free[j] \in Made
      /\ \A j \in DOMAIN used : used[j] \in Made
  BY Lists DEF Inv, TypeOK
<1>7. /\ used' \in Seq(Made' \ {1})
      /\ DOMAIN used' = DOMAIN used \cup {Len(used) + 1}
      /\ Len(used) + 1 \notin DOMAIN used
      /\ \A j \in DOMAIN used : used'[j] = used[j]
      /\ used'[Len(used) + 1] = n
  <2>1. used \in Seq(Made' \ {1}) /\ n \in Made' \ {1}
    BY <1>4, <1>6
  <2> QED
    BY <1>2, <2>1, AppendElements
<1>8. TypeOK'
  <2>1. free' \in Seq(Made' \ {1})
    BY <1>2, <1>4, <1>6
  <2> QED
    BY <1>2, <1>4, <1>7, <2>1 DEF Inv, TypeOK, Entry
<1>9. Apart'
  <2> SUFFICES ASSUME NEW e \in Made', NEW f \in Made', e # f,
                      range'[e].arena = range'[f].arena
               PROVE  \/ range'[e].from + range'[e].size <= range'[f].from
                      \/ range'[f].from + range'[f].size <= range'[e].from
    BY DEF Apart
  <2>1. \A g \in Made \ {d} : range[g].arena = range[d].arena =>
          /\ \/ range'[g].from + range'[g].size <= range'[d].from
             \/ range'[d].from + range'[d].size <= range'[g].from
          /\ \/ range'[g].from + range'[g].size <= range'[n].from
             \/ range'[n].from + range'[n].size <= range'[g].from
    <3> SUFFICES ASSUME NEW g \in Made \ {d}, range[g].arena = range[d].arena
                 PROVE  /\ \/ range'[g].from + range'[g].size <= range'[d].from
                           \/ range'[d].from + range'[d].size <= range'[g].from
                        /\ \/ range'[g].from + range'[g].size <= range'[n].from
                           \/ range'[n].from + range'[n].size <= range'[g].from
      OBVIOUS
    <3>1. \/ range[g].from + range[g].size <= range[d].from
          \/ range[d].from + range[d].size <= range[g].from
      BY DEF Inv, Apart
    <3>2. /\ \/ range[g].from + range[g].size <= range[d].from
             \/ range[d].from + (range[d].size - size) <= range[g].from
          /\ \/ range[g].from + range[g].size <= range[d].from + range[d].size - size
             \/ range[d].from + range[d].size - size + size <= range[g].from
      BY <1>4, <1>5, <3>1, Halves
    <3> QED
      BY <1>4, <3>2
  <2>2. CASE e \in Made \ {d} /\ f \in Made \ {d}
    BY <1>4, <2>2 DEF Inv, Apart
  <2>3. CASE (e \in Made \ {d} /\ f \in {d, n}) \/ (f \in Made \ {d} /\ e \in {d, n})
    BY <1>4, <2>1, <2>3
  <2>4. range'[d].from + range'[d].size = range'[n].from
    <3>1. range[d].from + (range[d].size - size) = range[d].from + range[d].size - size
      BY <1>4, <1>5
    <3> QED
      BY <1>4, <3>1
  <2>5. range'[n].from \in Int
    BY <1>4, <1>5
  <2>6. CASE e \in {d, n} /\ f \in {d, n}
    BY <2>4, <2>5, <2>6
  <2> QED
    BY <1>4, <2>2, <2>3, <2>6
<1>10. NothingLost'
  <2>1. ASSUME NEW a \in Arena, NEW x \in 0 .. extent[a] - 1
        PROVE  \E e \in Made' : /\ range'[e].arena = a
                                /\ range'[e].from <= x /\ x < range'[e].from + range'[e].size
    <3>1. PICK e \in Made : /\ range[e].arena = a
                            /\ range[e].from <= x /\ x < range[e].from + range[e].size
      BY DEF Inv, NothingLost
    <3>2. CASE e # d
      BY <1>4, <3>1, <3>2
    <3>3. CASE e = d
      <4>1. /\ x \in Int /\ range[d].from \in Nat /\ range[d].size \in Nat /\ size \in Nat
            /\ range[d].from <= x /\ x < range[d].from + range[d].size
        BY <1>4, <1>5, <3>1, <3>3 DEF Inv, TypeOK
      <4>2. \/ x < range[d].from + (range[d].size - size)
            \/ /\ range[d].from + range[d].size - size <= x
               /\ x < range[d].from + range[d].size - size + size
        BY <4>1
      <4>3. CASE x < range[d].from + (range[d].size - size)
        BY <1>4, <3>1, <3>3, <4>1, <4>3
      <4>4. CASE /\ range[d].from + range[d].size - size <= x
                 /\ x < range[d].from + range[d].size - size + size
        BY <1>4, <3>1, <3>3, <4>4
      <4> QED
        BY <4>2, <4>3, <4>4
    <3> QED
      BY <3>2, <3>3
  <2>2. ASSUME NEW e \in Made' \ {1}
        PROVE  /\ range'[e].arena \in Arena
               /\ range'[e].from + range'[e].size <= extent[range'[e].arena]
    <3>1. /\ range[d].arena \in Arena /\ extent[range[d].arena] \in Nat
          /\ range[d].from + range[d].size <= extent[range[d].arena]
      BY HeapAssumption DEF Inv, NothingLost, TypeOK
    <3>2. CASE e \in Made \ {d}
      BY <1>4, <3>2 DEF Inv, NothingLost
    <3>3. /\ range[d].from + (range[d].size - size) <= extent[range[d].arena]
          /\ range[d].from + range[d].size - size + size <= extent[range[d].arena]
      <4>1. /\ range[d].from \in Nat /\ range[d].size \in Nat /\ size \in Nat
            /\ size <= range[d].size
        BY <1>4, <1>5
      <4> QED
        BY <3>1, <4>1
    <3>4. CASE e \in {d, n}
      BY <1>4, <3>1, <3>3, <3>4
    <3> QED
      BY <1>4, <3>2, <3>4
  <2> QED
    BY <1>2, <2>1, <2>2 DEF NothingLost
<1>11. ListedOnce'
  <2>1. \A j, k \in DOMAIN used' : used'[j] = used'[k] => j = k
    BY <1>4, <1>6, <1>7 DEF Inv, ListedOnce
  <2>2. \A j \in DOMAIN free, k \in DOMAIN used' : free[j] # used'[k]
    BY <1>4, <1>6, <1>7 DEF Inv, ListedOnce
  <2>3. \A e \in Made' \ {1} : \/ \E j \in DOMAIN free : free[j] = e
                               \/ \E j \in DOMAIN used' : used'[j] = e
    BY <1>4, <1>7 DEF Inv, ListedOnce
  <2> QED
    BY <1>2, <2>1, <2>2, <2>3 DEF Inv, ListedOnce
<1>12. Asked'
  <2>1. \A j \in DOMAIN used : used[j] \in Made /\ used[j] # d
    BY <1>3, <1>6 DEF Inv, ListedOnce
  <2> QED
    BY <1>4, <1>7, <2>1 DEF Inv, Asked
<1> QED
  BY <1>8, <1>9, <1>10, <1>11, <1>12 DEF Inv

-----------------------------------------------------------------------------
LEMMA NextCorrect == Inv /\ [Next]_vars => Inv'
<1> SUFFICES ASSUME Inv, [Next]_vars PROVE Inv'
  OBVIOUS
<1>1. CASE Alloc
  <2>1. PICK size \in Requests : Exact(size) \/ FirstFit(size) \/ Refuse(size)
    BY <1>1 DEF Alloc
  <2>2. CASE Refuse(size)
    BY <2>2 DEF Refuse, vars, Inv, TypeOK, Apart, NothingLost, ListedOnce, Asked, Made
  <2> QED
    BY <2>1, <2>2, ExactCorrect, FirstFitCorrect
<1>2. CASE Free
  BY <1>2, ReleaseCorrect DEF Free
<1>3. CASE UNCHANGED vars
  BY <1>3 DEF vars, Inv, TypeOK, Apart, NothingLost, ListedOnce, Asked, Made
<1> QED
  BY <1>1, <1>2, <1>3 DEF Next

LEMMA InvAlways == Spec => []Inv
  BY InitCorrect, NextCorrect, PTL DEF Spec

(* The descriptors stay descriptors, the sizes never go below zero. *)
THEOREM TypeCorrect == Spec => []TypeOK
<1>1. Inv => TypeOK
  BY DEF Inv
<1> QED
  BY <1>1, InvAlways, PTL

(* Two ranges cut from one arena never share an address. *)
THEOREM RangesApart == Spec => []Apart
<1>1. Inv => Apart
  BY DEF Inv
<1> QED
  BY <1>1, InvAlways, PTL

(* Every address of an arena stays in a range of that arena. *)
THEOREM NoMemoryLost == Spec => []NothingLost
<1>1. Inv => NothingLost
  BY DEF Inv
<1> QED
  BY <1>1, InvAlways, PTL

(* Every range but the first is in one list, once. *)
THEOREM EachListedOnce == Spec => []ListedOnce
<1>1. Inv => ListedOnce
  BY DEF Inv
<1> QED
  BY <1>1, InvAlways, PTL

-----------------------------------------------------------------------------
(* x wraps to the address b. *)
Wraps(x, b) == \E k \in Int : x = b + k * Word

LEMMA WrappedOnce ==
  ASSUME NEW b \in 0 .. Word - 1, NEW x \in Int, Wraps(x, b)
  PROVE  b = x % Word
<1>1. PICK k \in Int : x = b + k * Word
  BY DEF Wraps
<1>2. Word \in Nat /\ Word > 0 /\ b \in Int /\ 0 <= b /\ b < Word
  BY HeapAssumption
<1> DEFINE q == x \div Word
           r == x % Word
<1>3. q \in Int /\ r \in Int /\ 0 <= r /\ r < Word /\ x = Word * q + r
  BY <1>2
<1> HIDE DEF q, r
<1> DEFINE m == k - q
<1>4. m \in Int /\ r - b = m * Word
  BY <1>1, <1>2, <1>3
<1> HIDE DEF m
<1>5. CASE m >= 1
  <2>1. m * Word >= Word
    BY <1>2, <1>4, <1>5
  <2> QED BY <1>2, <1>3, <1>4, <2>1
<1>6. CASE m <= -1
  <2>1. m * Word <= -Word
    BY <1>2, <1>4, <1>6
  <2> QED BY <1>2, <1>3, <1>4, <2>1
<1>7. CASE m = 0
  BY <1>2, <1>3, <1>4, <1>7 DEF r
<1> QED
  BY <1>4, <1>5, <1>6, <1>7

(* Addresses are added modulo Word. *)
LEMMA WrapsOn ==
  ASSUME NEW b \in 0 .. Word - 1, NEW x \in Int, NEW y \in 0 .. Word - 1, Wraps(x, b)
  PROVE  Wraps(x + y, Plus(b, y)) /\ Plus(b, y) \in 0 .. Word - 1
<1>1. PICK k \in Int : x = b + k * Word
  BY DEF Wraps
<1>2. Word \in Nat /\ Word > 0 /\ b \in Int /\ y \in Int
  BY HeapAssumption
<1>3. Plus(b, y) \in 0 .. Word - 1
  BY <1>2 DEF Plus
<1>4. CASE b + y < Word
  <2>1. x + y = Plus(b, y) + k * Word
    BY <1>1, <1>2, <1>4 DEF Plus
  <2> QED BY <1>3, <2>1 DEF Wraps
<1>5. CASE ~(b + y < Word)
  <2>1. x + y = Plus(b, y) + (k + 1) * Word
    BY <1>1, <1>2, <1>5 DEF Plus
  <2> QED BY <1>3, <2>1 DEF Wraps
<1> QED
  BY <1>4, <1>5

(* The descriptors of physical_memory_setup() stay, and every base is the  *)
(* place in the arena.                                                     *)
Place(d) == range[range[d].arena].base + range[d].from

Placed == 1 .. 8 \subseteq Made /\ \A d \in Made : Wraps(Place(d), range[d].base)

LEMMA PlaceType ==
  ASSUME Inv, Placed, NEW d \in Made
  PROVE  /\ range[d].arena \in Made /\ range[d].base \in 0 .. Word - 1
         /\ range[d].from \in Nat /\ range[d].size \in 0 .. Word - 1
         /\ Place(d) \in Int
<1>1. \A e \in Made : /\ range[e].base \in 0 .. Word - 1 /\ range[e].arena \in 1 .. 8
                      /\ range[e].from \in Nat /\ range[e].size \in 0 .. Word - 1
  BY Lists DEF Inv, Entry
<1>2. range[d].arena \in Made
  BY <1>1 DEF Placed
<1>3. range[range[d].arena].base \in Int /\ range[d].from \in Int
  BY <1>1, <1>2
<1>4. Place(d) \in Int
  BY <1>3 DEF Place
<1> QED
  BY <1>1, <1>2, <1>4

LEMMA PlacedInit == Init => Placed
<1> SUFFICES ASSUME Init PROVE Placed
  OBVIOUS
<1>1. Made = 1 .. 8 /\ \A d \in Made : range[d].arena = d /\ range[d].from = 0
  BY DEF Init, Made
<1>2. \A d \in Made : range[d].base \in Int
  BY InitCorrect, Lists, HeapAssumption DEF Inv, Entry
<1>3. ASSUME NEW d \in Made PROVE Wraps(Place(d), range[d].base)
  <2>1. Place(d) = range[d].base + 0 * Word
    BY <1>1, <1>2, HeapAssumption DEF Place
  <2> QED BY <2>1 DEF Wraps
<1> QED
  BY <1>1, <1>3 DEF Placed

LEMMA PlacedFirstFit ==
  ASSUME Inv, Placed, NEW size \in Requests, FirstFit(size)
  PROVE  Placed'
<1>0. PICK n : n = Len(range) + 1
  OBVIOUS
<1>1. PICK i \in DOMAIN free : Fits(free[i], size) /\ Cut(free[i], size)
  BY DEF FirstFit
<1>2. PICK d \in Made \ {1} : d = free[i]
  BY Lists DEF Inv
<1> DEFINE left == range[d].size - size
<1>3. /\ n \notin Made /\ Made' = Made \cup {n}
      /\ \A e \in Made \ {d} : range'[e] = range[e]
      /\ range'[d].arena = range[d].arena /\ range'[d].from = range[d].from
      /\ range'[d].base = range[d].base
      /\ range'[n].base = Plus(range[d].base, left)
      /\ range'[n].arena = range[d].arena
      /\ range'[n].from = range[d].from + range[d].size - size
      /\ size \in Nat \ {0} /\ size <= range[d].size
  BY <1>0, <1>1, <1>2, CutEffect DEF Inv
<1>4. \A e \in Made : range[e].arena \in Made
  BY PlaceType
<1>5. \A e \in Made : /\ range'[e].base = range[e].base
                      /\ range'[e].arena = range[e].arena
                      /\ range'[e].from = range[e].from
  BY <1>3
<1>6. ASSUME NEW e \in Made PROVE Wraps(Place(e), range[e].base)'
  <2>1. Place(e)' = Place(e)
    BY <1>4, <1>5 DEF Place
  <2> QED
    BY <1>5, <2>1 DEF Placed, Wraps
<1>7. Wraps(Place(n), range[n].base)'
  <2>1. /\ range[d].base \in 0 .. Word - 1 /\ range[d].from \in Int
        /\ range[d].size \in 0 .. Word - 1 /\ Place(d) \in Int
    BY PlaceType
  <2>2. left \in 0 .. Word - 1 /\ range'[n].from = range[d].from + left
    BY <1>3, <2>1, HeapAssumption
  <2>3. range'[n].base = Plus(range[d].base, left)
    BY <1>3
  <2> HIDE DEF left
  <2> DEFINE b == range[range[d].arena].base
  <2>4. b \in Int /\ Place(d) = b + range[d].from
    BY <1>4, PlaceType, HeapAssumption DEF Place
  <2>5. Place(n)' = b + range'[n].from
    BY <1>3, <1>4, <1>5 DEF Place
  <2> HIDE DEF b
  <2>6. Place(n)' = Place(d) + left
    BY <2>1, <2>2, <2>4, <2>5
  <2>7. Wraps(Place(d) + left, Plus(range[d].base, left))
    BY <2>1, <2>2, WrapsOn DEF Placed
  <2> QED
    BY <2>3, <2>6, <2>7 DEF Wraps
<1>8. 1 .. 8 \subseteq Made'
  BY <1>3 DEF Placed
<1>9. ASSUME NEW e \in Made' PROVE Wraps(Place(e), range[e].base)'
  BY <1>3, <1>6, <1>7
<1> QED
  BY <1>8, <1>9 DEF Placed

LEMMA PlacedNext == Inv /\ Placed /\ [Next]_vars => Placed'
<1> SUFFICES ASSUME Inv, Placed, [Next]_vars PROVE Placed'
  OBVIOUS
<1>1. CASE UNCHANGED range
  BY <1>1 DEF Placed, Place, Made, Wraps
<1>2. CASE \E size \in Requests : FirstFit(size)
  BY <1>2, PlacedFirstFit
<1> QED
  BY <1>1, <1>2 DEF Next, Alloc, Free, Exact, Refuse, Release, vars

(* However often memory was cut, released and cut again, the address of a  *)
(* block is that of its place in its arena, wrapped to 32 bits.            *)
THEOREM PlacesAreAddresses == Spec => []Addressed
<1>1. Inv /\ Placed => Addressed
  <2> SUFFICES ASSUME Inv, Placed, NEW d \in Made
               PROVE  range[d].base = Place(d) % Word
    BY DEF Addressed, Place
  <2>1. range[d].base \in 0 .. Word - 1 /\ Place(d) \in Int /\ Wraps(Place(d), range[d].base)
    BY PlaceType DEF Placed
  <2> QED
    BY <2>1, WrappedOnce
<1> QED
  BY <1>1, PlacedInit, PlacedNext, InitCorrect, NextCorrect, PTL DEF Spec

-----------------------------------------------------------------------------
(* Addresses: what differs by whole words is one address, and what is less *)
(* than a word apart is not.                                               *)
LEMMA WrapsToItself ==
  ASSUME NEW x \in Int
  PROVE  x % Word \in 0 .. Word - 1 /\ Wraps(x, x % Word)
<1>1. Word \in Nat /\ Word > 0
  BY HeapAssumption
<1> DEFINE q == x \div Word
           r == x % Word
<1>2. q \in Int /\ r \in Int /\ 0 <= r /\ r < Word /\ x = Word * q + r
  BY <1>1
<1> HIDE DEF q, r
<1>3. x = r + q * Word
  BY <1>1, <1>2
<1>4. r \in 0 .. Word - 1
  BY <1>1, <1>2
<1> QED
  BY <1>2, <1>3, <1>4 DEF Wraps, r

LEMMA WholeWords ==
  ASSUME NEW b \in 0 .. Word - 1, NEW x \in Int, NEW i \in Int, Wraps(x, b)
  PROVE  (b + i) % Word = (x + i) % Word
<1>1. PICK k \in Int : x = b + k * Word
  BY DEF Wraps
<1>2. Word \in Nat /\ b \in Int
  BY HeapAssumption
<1>3. PICK r \in 0 .. Word - 1 : r = (b + i) % Word /\ Wraps(b + i, r)
  BY <1>2, WrapsToItself
<1>4. PICK q \in Int : b + i = r + q * Word
  BY <1>3 DEF Wraps
<1>5. x + i = r + (q + k) * Word
  BY <1>1, <1>2, <1>4
<1>6. Wraps(x + i, r)
  BY <1>5 DEF Wraps
<1> QED
  BY <1>3, <1>6, WrappedOnce

LEMMA LessThanAWord ==
  ASSUME NEW x \in Int, NEW y \in Int, x % Word = y % Word, x - y < Word, y - x < Word
  PROVE  x = y
<1>1. Word \in Nat /\ Word > 0
  BY HeapAssumption
<1>2. PICK r \in 0 .. Word - 1 : Wraps(x, r) /\ Wraps(y, r)
  BY WrapsToItself
<1>3. PICK k \in Int : x = r + k * Word
  BY <1>2 DEF Wraps
<1>4. PICK m \in Int : y = r + m * Word
  BY <1>2 DEF Wraps
<1>5. PICK d \in Int : d = k - m
  OBVIOUS
<1>6. x - y = d * Word
  BY <1>1, <1>3, <1>4, <1>5
<1>7. CASE d >= 1
  <2>1. d * Word >= Word
    BY <1>1, <1>7
  <2> QED BY <1>1, <1>6, <2>1
<1>8. CASE d <= -1
  <2>1. d * Word <= -Word
    BY <1>1, <1>8
  <2> QED BY <1>1, <1>6, <2>1
<1>9. CASE d = 0
  BY <1>1, <1>6, <1>9
<1> QED
  BY <1>7, <1>8, <1>9

-----------------------------------------------------------------------------
(* What a range is to the abstract allocator: the addresses of its places  *)
(* in the arena.                                                           *)
Start == [a \in Arena |-> range[a].base]

At(a, i) == (range[a].base + i) % Word

LEMMA HeldPlaces ==
  ASSUME Inv, Placed, NEW d \in Made
  PROVE  Blocks!Held(Block(d)) =
           {At(range[d].arena, range[d].from + i) : i \in 0 .. range[d].size - 1}
<1>1. /\ range[d].arena \in Made /\ range[d].base \in 0 .. Word - 1
      /\ range[d].from \in Nat /\ Place(d) \in Int
  BY PlaceType
<1>2. Wraps(Place(d), range[d].base)
  BY DEF Placed
<1>3. range[range[d].arena].base \in Int
  BY <1>1, PlaceType, HeapAssumption
<1>4. ASSUME NEW i \in 0 .. range[d].size - 1
      PROVE  (range[d].base + i) % Word = At(range[d].arena, range[d].from + i)
  <2>1. (range[d].base + i) % Word = (Place(d) + i) % Word
    BY <1>1, <1>2, WholeWords
  <2>2. Place(d) + i = range[range[d].arena].base + (range[d].from + i)
    BY <1>1, <1>3 DEF Place
  <2> QED
    BY <2>1, <2>2 DEF At
<1>5. Blocks!Held(Block(d)) = {(range[d].base + i) % Word : i \in 0 .. range[d].size - 1}
  BY DEF Blocks!Held, Blocks!Addresses, Block
<1> QED
  BY <1>4, <1>5

LEMMA MemoryPlaces ==
  ASSUME NEW a \in Arena
  PROVE  Blocks!Memory(a) = {At(a, i) : i \in 0 .. extent[a] - 1}
  BY DEF Blocks!Memory, Blocks!Addresses, At

(* A range lies in its arena. *)
LEMMA HeldInMemory ==
  ASSUME Inv, Placed, NEW d \in Made \ {1}
  PROVE  /\ range[d].arena \in Arena
         /\ Blocks!Held(Block(d)) \subseteq Blocks!Memory(range[d].arena)
<1>1. /\ range[d].arena \in Arena
      /\ range[d].from + range[d].size <= extent[range[d].arena]
  BY DEF Inv, NothingLost
<1>2. range[d].from \in Nat /\ range[d].size \in Nat /\ extent[range[d].arena] \in Nat
  BY <1>1, PlaceType, HeapAssumption DEF Inv, TypeOK
<1>3. \A i \in 0 .. range[d].size - 1 :
        range[d].from + i \in 0 .. extent[range[d].arena] - 1
  BY <1>1, <1>2
<1> QED
  BY <1>1, <1>3, HeldPlaces, MemoryPlaces

(* Two ranges of one arena have no address in common. *)
LEMMA NothingShared ==
  ASSUME Inv, Placed, NEW d \in Made \ {1}, NEW e \in Made \ {1}, d # e,
         range[d].arena = range[e].arena
  PROVE  ~Blocks!Overlap(Block(d), Block(e))
<1> DEFINE a == range[d].arena
<1>1. SUFFICES ASSUME NEW x \in Blocks!Held(Block(d)), x \in Blocks!Held(Block(e))
               PROVE  FALSE
  BY DEF Blocks!Overlap
<1>2. PICK i \in 0 .. range[d].size - 1 : x = At(a, range[d].from + i)
  BY <1>1, HeldPlaces
<1>3. PICK j \in 0 .. range[e].size - 1 : x = At(a, range[e].from + j)
  BY <1>1, HeldPlaces
<1>4. /\ range[d].from \in Nat /\ range[d].size \in Nat
      /\ range[e].from \in Nat /\ range[e].size \in Nat
      /\ range[a].base \in Int
  BY PlaceType, HeapAssumption
<1>5. /\ a \in Arena
      /\ range[d].from + range[d].size <= extent[a]
      /\ range[e].from + range[e].size <= extent[a]
  BY DEF Inv, NothingLost
<1>6. extent[a] \in Nat /\ extent[a] < Word /\ Word \in Nat
  <2>1. extent[a] \in 0 .. Word - 1
    BY <1>5 DEF Inv, TypeOK
  <2> HIDE DEF a
  <2> QED
    BY <2>1, HeapAssumption
<1>7. \/ range[d].from + range[d].size <= range[e].from
      \/ range[e].from + range[e].size <= range[d].from
  BY DEF Inv, Apart
<1> PICK b \in Int : b = range[a].base
  BY <1>4
<1> PICK p \in Int : p = range[d].from + i
  BY <1>4
<1> PICK q \in Int : q = range[e].from + j
  BY <1>4
<1>8. (b + p) % Word = (b + q) % Word
  BY <1>2, <1>3 DEF At
<1>9. p # q /\ p \in 0 .. extent[a] - 1 /\ q \in 0 .. extent[a] - 1
  BY <1>4, <1>5, <1>6, <1>7
<1> HIDE DEF a
<1>10. (b + p) - (b + q) < Word /\ (b + q) - (b + p) < Word
  BY <1>6, <1>9
<1>11. b + p = b + q
  BY <1>8, <1>10, LessThanAWord
<1> QED
  BY <1>9, <1>11

(* The same of all ranges, before a call and after it. *)
Inside ==
  \A d \in Made \ {1} :
    /\ range[d].arena \in Arena /\ range[d].base \in 0 .. Word - 1
    /\ Blocks!Held(Block(d)) \subseteq Blocks!Memory(range[d].arena)

Disjoint ==
  \A d, e \in Made \ {1} :
    d # e /\ range[d].arena = range[e].arena => ~Blocks!Overlap(Block(d), Block(e))

LEMMA InPlace == Inv /\ Placed => Inside /\ Disjoint
<1> SUFFICES ASSUME Inv, Placed PROVE Inside /\ Disjoint
  OBVIOUS
<1>1. Inside
  BY HeldInMemory, PlaceType DEF Inside
<1>2. Disjoint
  BY NothingShared DEF Disjoint
<1> QED
  BY <1>1, <1>2

LEMMA StillInPlace == (Inv /\ Placed)' => (Inside /\ Disjoint)'
  BY InPlace, PTL

-----------------------------------------------------------------------------
(* The ranges of the used list are the live blocks of the abstract         *)
(* allocator: the initial states map to its initial state, and each call   *)
(* to an allocation, a release, or nothing.                                *)
Live == {Block(used[i]) : i \in DOMAIN used}

BlockOf(r) == [arena |-> r.arena, base |-> r.base, size |-> r.size]

LEMMA LiveBlocks ==
  /\ Live = {BlockOf(range[used[i]]) : i \in DOMAIN used}
  /\ Live' = {BlockOf(range'[used'[i]]) : i \in DOMAIN used'}
  BY DEF Live, Block, BlockOf

(* The first address of an arena is that of its descriptor: it stays. *)
LEMMA StartStays ==
  ASSUME Inv, Placed, NEW size \in Requests, FirstFit(size)
  PROVE  UNCHANGED <<Start, extent>>
<1>1. PICK i \in DOMAIN free : Fits(free[i], size) /\ Cut(free[i], size)
  BY DEF FirstFit
<1>2. PICK d \in Made \ {1} : d = free[i]
  BY Lists DEF Inv
<1>3. /\ \A e \in Made \ {d} : range'[e] = range[e]
      /\ range'[d].base = range[d].base
  BY <1>1, <1>2, CutEffect DEF Inv
<1>4. \A a \in Arena : a \in Made
  BY DEF Placed, Arena
<1>5. \A a \in Arena : range'[a].base = range[a].base
  BY <1>3, <1>4
<1>6. UNCHANGED extent
  BY DEF FirstFit
<1> QED
  BY <1>5, <1>6 DEF Start

LEMMA InitMaps == Init => Blocks!Init
<1> SUFFICES ASSUME Init PROVE Blocks!Init
  OBVIOUS
<1>1. Live = {}
  BY DEF Init, Live
<1>2. extent \in [Arena -> 0 .. Word - 1]
  BY InitCorrect DEF Inv, TypeOK
<1>3. Start \in [Arena -> 0 .. Word - 1]
  <2>1. \A a \in Arena : a \in Made
    BY PlacedInit DEF Placed, Arena
  <2>2. \A a \in Arena : range[a].base \in 0 .. Word - 1
    BY <2>1, InitCorrect, Lists DEF Inv, Entry
  <2> QED
    BY <2>2 DEF Start
<1> QED
  BY <1>1, <1>2, <1>3 DEF Blocks!Init, Live, Start

(* A range that joins the used list, and was not on it, is an allocation. *)
LEMMA AllocMaps ==
  ASSUME Inv', Placed', UNCHANGED <<Start, extent>>,
         NEW d \in Made' \ {1}, NEW size \in Requests,
         range'[d].size = size, d \notin {used[i] : i \in DOMAIN used},
         Live' = Live \cup {BlockOf(range'[d])},
         \A i \in DOMAIN used :
           /\ used[i] \in Made' \ {1}
           /\ range'[used[i]].arena = range[used[i]].arena
           /\ range'[used[i]] = range[used[i]]
  PROVE  Blocks!Alloc
<1> PICK a : a = range'[d].arena
  OBVIOUS
<1> PICK base : base = range'[d].base
  OBVIOUS
<1> DEFINE b == [arena |-> a, base |-> base, size |-> size]
<1>1. b = Block(d)' /\ b = BlockOf(range'[d])
  BY DEF Block, BlockOf
<1>2. a \in Arena /\ Blocks!Held(b) \subseteq Blocks!Memory(a)'
  <2>1. range'[d].arena \in Arena /\ Blocks!Held(Block(d))' \subseteq Blocks!Memory(range[d].arena)'
    BY StillInPlace DEF Inside
  <2> QED
    BY <1>1, <2>1 DEF Blocks!Held, Blocks!Addresses
<1>3. base \in 0 .. Word - 1
  BY StillInPlace DEF Inside
<1>4. Blocks!Memory(a)' = Blocks!Memory(a)
  BY DEF Blocks!Memory, Start
<1>5. ASSUME NEW i \in DOMAIN used, Blocks!Overlap(b, Block(used[i]))
      PROVE  Blocks!Shared(a, Block(used[i]).arena)
  <2> PICK e \in Made' \ {1} : e = used[i]
    OBVIOUS
  <2>1. e # d /\ range'[e] = range[e] /\ Block(e)' = Block(e)
    BY DEF Block
  <2>2. PICK x : x \in Blocks!Held(b) /\ x \in Blocks!Held(Block(e))
    BY <1>5 DEF Blocks!Overlap
  <2>3. Blocks!Held(Block(e)) \subseteq Blocks!Memory(range[e].arena)'
    <3>1. Blocks!Held(Block(e))' \subseteq Blocks!Memory(range[e].arena)'
      BY StillInPlace DEF Inside
    <3> QED
      BY <2>1, <3>1 DEF Blocks!Held, Blocks!Addresses
  <2>4. a # range[e].arena
    <3>1. SUFFICES ASSUME a = range[e].arena PROVE FALSE
      OBVIOUS
    <3>2. ~Blocks!Overlap(Block(d), Block(e))'
      BY <2>1, <3>1, StillInPlace DEF Disjoint
    <3> QED
      BY <1>1, <2>1, <2>2, <3>2 DEF Blocks!Overlap, Blocks!Held, Blocks!Addresses
  <2>5. range[e].arena \in Arena
    BY <2>1, StillInPlace DEF Inside
  <2>6. Blocks!Memory(range[e].arena)' = Blocks!Memory(range[e].arena)
    BY <2>1, <2>5 DEF Blocks!Memory, Start
  <2>7. x \in Blocks!Memory(a) /\ x \in Blocks!Memory(range[e].arena)
    BY <1>2, <1>4, <2>2, <2>3, <2>6
  <2>8. Block(e).arena = range[e].arena
    BY DEF Block
  <2> QED
    BY <2>4, <2>7, <2>8 DEF Blocks!Shared
<1>6. Blocks!Held(b) \subseteq Blocks!Memory(a)
  BY <1>2, <1>4
<1>7. \A other \in Live : Blocks!Overlap(b, other) => Blocks!Shared(a, other.arena)
  BY <1>5 DEF Live
<1>8. Live' = Live \cup {b}
  BY <1>1
<1> HIDE DEF b
<1>9. \E ar \in Arena, bs \in 0 .. Word - 1, sz \in Requests :
        LET block == [arena |-> ar, base |-> bs, size |-> sz]
        IN  /\ Live' = Live \cup {block}
            /\ Blocks!Held(block) \subseteq Blocks!Memory(ar)
            /\ \A other \in Live :
                 Blocks!Overlap(block, other) => Blocks!Shared(ar, other.arena)
            /\ UNCHANGED <<Start, extent>>
  BY <1>2, <1>3, <1>6, <1>7, <1>8 DEF b
<1> QED
  BY <1>9 DEF Blocks!Alloc, Live, Start

(* An element that is appended to the used list is a new block. *)
LEMMA LiveGrows ==
  ASSUME Inv, NEW n, used' = Append(used, n),
         \A i \in DOMAIN used : range'[used[i]] = range[used[i]]
  PROVE  Live' = Live \cup {BlockOf(range'[n])}
<1>1. /\ DOMAIN used' = DOMAIN used \cup {Len(used) + 1}
      /\ Len(used) + 1 \notin DOMAIN used
      /\ \A j \in DOMAIN used : used'[j] = used[j]
      /\ used'[Len(used) + 1] = n
  <2>1. used \in Seq((Made \ {1}) \cup {n})
    BY DEF Inv, TypeOK
  <2> QED
    BY <2>1, AppendElements
<1>2. \A i \in DOMAIN used : range'[used'[i]] = range[used[i]]
  BY <1>1
<1> QED
  BY <1>1, <1>2, LiveBlocks

LEMMA ExactMaps ==
  ASSUME Inv, Placed, NEW size \in Requests, Exact(size)
  PROVE  Blocks!Alloc
<1>1. PICK i \in DOMAIN free : IsExact(free[i], size) /\ used' = Append(used, free[i])
  BY DEF Exact
<1>2. UNCHANGED <<range, extent>> /\ Made' = Made
  BY DEF Exact, Made
<1>3. Inv' /\ Placed' /\ UNCHANGED <<Start, extent>>
  BY <1>2, ExactCorrect DEF Placed, Place, Made, Wraps, Start
<1> PICK d : d = free[i]
  OBVIOUS
<1>4. d \in Made' \ {1} /\ range'[d].size = size
  BY <1>1, <1>2, Lists DEF Inv, IsExact
<1>5. d \notin {used[j] : j \in DOMAIN used}
  BY DEF Inv, ListedOnce
<1>6. \A j \in DOMAIN used :
        range'[used[j]] = range[used[j]] /\ used[j] \in Made' \ {1}
  BY <1>2, Lists DEF Inv
<1>7. Live' = Live \cup {BlockOf(range'[d])}
  BY <1>1, <1>6, LiveGrows
<1> QED
  BY <1>3, <1>4, <1>5, <1>6, <1>7, AllocMaps

LEMMA FirstFitMaps ==
  ASSUME Inv, Placed, NEW size \in Requests, FirstFit(size)
  PROVE  Blocks!Alloc
<1> PICK n : n = Len(range) + 1
  OBVIOUS
<1>1. PICK i \in DOMAIN free : Fits(free[i], size) /\ Cut(free[i], size)
  BY DEF FirstFit
<1>2. used' = Append(used, n) /\ UNCHANGED extent
  BY DEF FirstFit
<1>3. PICK d \in Made \ {1} : d = free[i]
  BY Lists DEF Inv
<1>4. /\ n \notin Made /\ n # 1 /\ Made' = Made \cup {n}
      /\ \A e \in Made \ {d} : range'[e] = range[e]
      /\ range'[n].size = size
  BY <1>1, <1>3, CutEffect DEF Inv
<1>5. Inv' /\ Placed' /\ UNCHANGED <<Start, extent>>
  BY FirstFitCorrect, PlacedFirstFit, StartStays
<1>6. \A j \in DOMAIN used : used[j] \in Made \ {1} /\ used[j] # d
  BY <1>3, Lists DEF Inv, ListedOnce
<1>7. \A j \in DOMAIN used :
        range'[used[j]] = range[used[j]] /\ used[j] \in Made' \ {1}
  BY <1>4, <1>6
<1>8. n \in Made' \ {1} /\ n \notin {used[j] : j \in DOMAIN used}
  BY <1>4, <1>6
<1>9. Live' = Live \cup {BlockOf(range'[n])}
  BY <1>2, <1>7, LiveGrows
<1> QED
  BY <1>4, <1>5, <1>7, <1>8, <1>9, AllocMaps

LEMMA ReleaseMaps ==
  ASSUME Inv, Placed, NEW i \in DOMAIN used, Release(i)
  PROVE  Blocks!Free
<1>1. used' = Without(used, i) /\ UNCHANGED <<range, extent>>
  BY DEF Release
<1>2. used \in Seq(Made \ {1})
  BY DEF Inv, TypeOK
<1>3. /\ \A j \in DOMAIN used' : \E k \in DOMAIN used : k # i /\ used'[j] = used[k]
      /\ \A k \in DOMAIN used : k # i => \E j \in DOMAIN used' : used'[j] = used[k]
  BY <1>1, <1>2, WithoutPlaces
<1>4. Live' = {Block(used'[j]) : j \in DOMAIN used'}
  BY <1>1, LiveBlocks DEF Block, BlockOf
<1>5. \A j, k \in DOMAIN used : j # k => Block(used[j]) # Block(used[k])
  <2> SUFFICES ASSUME NEW j \in DOMAIN used, NEW k \in DOMAIN used, j # k,
                      Block(used[j]) = Block(used[k])
               PROVE  FALSE
    OBVIOUS
  <2>1. used[j] # used[k] /\ used[j] \in Made \ {1} /\ used[k] \in Made \ {1}
    BY Lists DEF Inv, ListedOnce
  <2>2. range[used[j]].arena = range[used[k]].arena
    BY DEF Block
  <2>3. ~Blocks!Overlap(Block(used[j]), Block(used[k]))
    BY <2>1, <2>2, NothingShared
  <2>4. Blocks!Held(Block(used[j])) = {}
    BY <2>3 DEF Blocks!Overlap
  <2>5. range[used[j]].size \in Nat \ {0}
    BY HeapAssumption DEF Inv, Asked
  <2>6. 0 \in 0 .. range[used[j]].size - 1
    BY <2>5
  <2> QED
    BY <2>1, <2>4, <2>6, HeldPlaces
<1>6. Live' = Live \ {Block(used[i])}
  BY <1>3, <1>4, <1>5 DEF Live
<1>7. Block(used[i]) \in Live
  BY DEF Live
<1>8. UNCHANGED <<Start, extent>>
  BY <1>1 DEF Start
<1> QED
  BY <1>6, <1>7, <1>8 DEF Blocks!Free, Live, Start

LEMMA NextMaps == Inv /\ Placed /\ [Next]_vars => [Blocks!Next]_(Blocks!vars)
<1> SUFFICES ASSUME Inv, Placed, [Next]_vars PROVE [Blocks!Next]_(Blocks!vars)
  OBVIOUS
<1>1. UNCHANGED vars => UNCHANGED Blocks!vars
  BY DEF vars, Blocks!vars, Block
<1>2. CASE Alloc
  <2>1. PICK size \in Requests : Exact(size) \/ FirstFit(size) \/ Refuse(size)
    BY <1>2 DEF Alloc
  <2>2. CASE Refuse(size)
    BY <1>1, <2>2 DEF Refuse
  <2> QED
    BY <2>1, <2>2, ExactMaps, FirstFitMaps DEF Blocks!Next
<1>3. CASE Free
  BY <1>3, ReleaseMaps DEF Free, Blocks!Next
<1> QED
  BY <1>1, <1>2, <1>3 DEF Next

(* In any layout of the memory and for any calls, every call is one of the *)
(* abstract allocator: the addresses of a block, wrapped to 32 bits, are   *)
(* its arena's, and it shares one with another live block only if they are *)
(* cut from two arenas that overlap.                                       *)
THEOREM HeapIsAllocator == Spec => ImplementsAllocator
<1>1. Inv /\ Placed /\ [Next]_vars => [Blocks!Next]_(Blocks!vars)
  BY NextMaps
<1> QED
  BY <1>1, InitMaps, PlacedInit, PlacedNext, InitCorrect, NextCorrect, PTL
     DEF Spec, ImplementsAllocator, Blocks!Spec
=============================================================================
