---------------------------- MODULE ConsoleProofs ----------------------------
(***************************************************************************)
(* Proofs about Console for every buffer length and every bound on the     *)
(* number of keys: the order of the keys is kept through any overrun, and  *)
(* a keyboard that stays less than a buffer ahead loses nothing.           *)
(***************************************************************************)
EXTENDS Console, TLAPS

(* The first key of the lap the writer is in is Lap + 1; the reader's lap  *)
(* is counted from the slot it reads next.                                 *)
Lap        == keys - wr
NextSlot   == IF pc = "advance" THEN After(rd) ELSE rd
ReaderLap  == last - NextSlot

(* Slots below wr hold the writer's lap, the others the lap before it, or  *)
(* nothing in the first lap.                                               *)
BufferInv ==
  /\ Lap = 0 \/ Lap >= Length
  /\ \A i \in Slot :
       buffer[i] = IF i < wr THEN Lap + i + 1
                   ELSE IF Lap = 0 THEN 0 ELSE Lap + i + 1 - Length

(* The reader is in the writer's lap, or a whole lap behind at least.      *)
LapInv ==
  /\ last <= keys
  /\ ReaderLap >= 0
  /\ ReaderLap = Lap \/ ReaderLap + Length <= Lap

(* Once the indices have been seen different, the slot holds a new key.    *)
ReadInv == pc \in {"load", "copy"} => buffer[rd] > last

Inv == TypeOK /\ BufferInv /\ LapInv /\ ReadInv

LEMMA Indices ==
  ASSUME NEW i \in Slot
  PROVE  /\ Length \in Nat /\ Length > 1 /\ i \in Nat /\ i < Length
         /\ After(i) \in Slot
         /\ \/ After(i) = i + 1 /\ i + 1 < Length
            \/ After(i) = 0 /\ i + 1 = Length
<1>1. /\ Length \in Nat /\ Length > 1 /\ i \in Nat /\ i < Length
      /\ \A j : j \in Slot <=> j \in Nat /\ j < Length
  BY ConsoleAssumption DEF Slot
<1>2. CASE i + 1 = Length
  BY <1>1, <1>2 DEF After
<1>3. CASE i + 1 # Length
  BY <1>1, <1>3 DEF After
<1> QED
  BY <1>2, <1>3

LEMMA InvInit == Init => Inv
<1> SUFFICES ASSUME Init PROVE Inv
  OBVIOUS
<1>1. TypeOK
  BY ConsoleAssumption DEF Init, TypeOK, Slot
<1>2. BufferInv /\ LapInv /\ ReadInv
  BY ConsoleAssumption
     DEF Init, BufferInv, LapInv, ReadInv, Lap, ReaderLap, NextSlot, Slot
<1> QED
  BY <1>1, <1>2 DEF Inv

LEMMA InvPress == Inv /\ Press => Inv'
<1> SUFFICES ASSUME Inv, Press PROVE Inv'
  OBVIOUS
<1> USE DEF Inv
<1>1. /\ keys \in Nat /\ keys < MaxKeys /\ MaxKeys \in Nat /\ keys' = keys + 1
      /\ wr \in Slot /\ rd \in Slot /\ buffer \in [Slot -> 0 .. MaxKeys]
      /\ buffer' = [buffer EXCEPT ![wr] = keys + 1] /\ wr' = After(wr)
      /\ UNCHANGED <<rd, pc, len, count, c, last>>
      /\ last \in Nat
  BY ConsoleAssumption DEF Press, reader, TypeOK
<1>2. TypeOK'
  BY <1>1, Indices DEF TypeOK
<1>3. /\ buffer'[wr] = keys + 1
      /\ \A i \in Slot : i # wr => buffer'[i] = buffer[i]
  BY <1>1
<1>4. Lap \in Int /\ Lap >= 0 /\ Lap = keys - wr
  BY <1>1, Indices DEF BufferInv, Lap
<1>5. Lap' = IF wr + 1 = Length THEN Lap + Length ELSE Lap
  BY <1>1, <1>4, Indices DEF Lap, After
<1>6. BufferInv'
  <2>1. ASSUME NEW i \in Slot
        PROVE  buffer'[i] = IF i < wr' THEN Lap' + i + 1
                            ELSE IF Lap' = 0 THEN 0 ELSE Lap' + i + 1 - Length
    <3>1. i \in Nat /\ i < Length /\ wr \in Nat /\ wr < Length /\ Length \in Nat
      BY <1>1, Indices
    <3>2. buffer[i] = IF i < wr THEN Lap + i + 1
                      ELSE IF Lap = 0 THEN 0 ELSE Lap + i + 1 - Length
      BY DEF BufferInv
    <3>3. CASE wr + 1 = Length
      BY <1>1, <1>3, <1>4, <1>5, <3>1, <3>2, <3>3 DEF After
    <3>4. CASE wr + 1 # Length
      BY <1>1, <1>3, <1>4, <1>5, <3>1, <3>2, <3>4 DEF After
    <3> QED
      BY <3>3, <3>4
  <2> QED
    BY <1>1, <1>4, <1>5, <2>1, Indices DEF BufferInv
<1>7. LapInv'
  <2>1. NextSlot' = NextSlot /\ ReaderLap' = ReaderLap
    BY <1>1 DEF ReaderLap, NextSlot, After
  <2>2. ReaderLap \in Int /\ Length \in Nat
    BY <1>1, Indices DEF ReaderLap, NextSlot, Slot
  <2> QED
    BY <1>1, <1>4, <1>5, <2>1, <2>2 DEF LapInv
<1>8. ReadInv'
  BY <1>1, <1>3 DEF ReadInv, LapInv
<1> QED
  BY <1>2, <1>6, <1>7, <1>8

LEMMA InvRead == Inv /\ (Call \/ Spin \/ Test \/ Load \/ Advance) => Inv'
<1> SUFFICES ASSUME Inv, Call \/ Spin \/ Test \/ Load \/ Advance PROVE Inv'
  OBVIOUS
<1> USE DEF Inv
<1>1. /\ UNCHANGED <<buffer, wr, keys, last>>
      /\ rd \in Slot /\ wr \in Slot /\ buffer \in [Slot -> 0 .. MaxKeys]
      /\ keys \in Nat /\ last \in Nat /\ Lap' = Lap
  BY ConsoleAssumption
     DEF Call, Spin, Test, Load, Advance, vars, reader, TypeOK, Lap
<1>2. TypeOK'
  <2>1. rd' \in Slot /\ count' \in Nat
    BY <1>1, Indices DEF Call, Spin, Test, Load, Advance, vars, reader, TypeOK
  <2>2. len' \in Nat /\ c' \in 0 .. MaxKeys
    BY <1>1, ConsoleAssumption DEF Call, Spin, Test, Load, Advance, vars, reader, TypeOK
  <2>3. pc' \in {"caller", "test", "load", "copy", "advance"}
    BY DEF Call, Spin, Test, Load, Advance, vars, reader, TypeOK
  <2> QED
    BY <1>1, <2>1, <2>2, <2>3 DEF TypeOK
<1>3. BufferInv'
  BY <1>1 DEF BufferInv
<1>4. NextSlot' = NextSlot
  BY DEF Call, Spin, Test, Load, Advance, vars, reader, NextSlot
<1>5. LapInv'
  BY <1>1, <1>4 DEF LapInv, ReaderLap
<1>6. ReadInv'
  <2>1. CASE Test
    <3>1. rd # wr /\ NextSlot = rd /\ rd' = rd
      BY <2>1 DEF Test, NextSlot
    <3>2. /\ rd \in Nat /\ rd < Length /\ wr \in Nat /\ Length \in Nat
          /\ ReaderLap = last - rd /\ Lap = keys - wr
      BY <1>1, <3>1, Indices DEF ReaderLap, Lap
    <3>3. buffer[rd] = IF rd < wr THEN Lap + rd + 1
                       ELSE IF Lap = 0 THEN 0 ELSE Lap + rd + 1 - Length
      BY <1>1 DEF BufferInv
    <3>4. buffer[rd] > last
      BY <1>1, <3>1, <3>2, <3>3 DEF LapInv
    <3> QED
      BY <1>1, <3>1, <3>4 DEF ReadInv
  <2>2. CASE ~Test
    BY <1>1, <2>2 DEF Call, Spin, Load, Advance, vars, reader, ReadInv
  <2> QED
    BY <2>1, <2>2
<1> QED
  BY <1>2, <1>3, <1>5, <1>6

LEMMA InvCopy == Inv /\ Copy => Inv' /\ last' > last
<1> SUFFICES ASSUME Inv, Copy PROVE Inv' /\ last' > last
  OBVIOUS
<1> USE DEF Inv
<1>1. /\ pc = "copy" /\ pc' = "advance" /\ last' = buffer[rd]
      /\ UNCHANGED <<buffer, wr, keys, rd, len, count, c>>
      /\ rd \in Slot /\ wr \in Slot /\ buffer[rd] \in 0 .. MaxKeys
      /\ keys \in Nat /\ last \in Nat /\ MaxKeys \in Nat /\ Lap' = Lap
  BY ConsoleAssumption DEF Copy, TypeOK, Lap
<1>2. TypeOK' /\ BufferInv' /\ ReadInv'
  BY <1>1 DEF TypeOK, BufferInv, ReadInv
<1>3. last' > last
  BY <1>1 DEF ReadInv
<1>4. LapInv'
  <2>1. NextSlot' = After(rd)
    BY <1>1 DEF NextSlot, After
  <2>2. buffer[rd] > 0
    BY <1>1, <1>3
  <2>3. Lap \in Int /\ Lap = keys - wr
    BY <1>1, Indices DEF Lap
  <2>4. CASE rd < wr
    BY <1>1, <2>1, <2>3, <2>4, Indices DEF BufferInv, LapInv, ReaderLap
  <2>5. CASE ~(rd < wr)
    BY <1>1, <2>1, <2>2, <2>3, <2>5, Indices DEF BufferInv, LapInv, ReaderLap
  <2> QED
    BY <2>4, <2>5
<1> QED
  BY <1>2, <1>3, <1>4

LEMMA InvStep == Inv /\ [Next]_vars => Inv'
<1> SUFFICES ASSUME Inv, [Next]_vars PROVE Inv'
  OBVIOUS
<1>1. CASE UNCHANGED vars
  BY <1>1
     DEF vars, reader, Inv, TypeOK, BufferInv, LapInv, ReadInv, Lap, ReaderLap, NextSlot
<1> QED
  BY <1>1, InvPress, InvRead, InvCopy DEF Next, Read

LEMMA InvAlways == Spec => []Inv
  BY InvInit, InvStep, PTL DEF Spec

(* The types, for every buffer length. *)
THEOREM TypeCorrect == Spec => []TypeOK
<1>1. Inv => TypeOK
  BY DEF Inv
<1> QED
  BY <1>1, InvAlways, PTL

(* Whatever the length of the buffer and however far the keyboard runs     *)
(* ahead of the thread in console_read(), each character handed over was   *)
(* pressed after the one handed over before it.                            *)
THEOREM KeysStayInOrder == Spec => KeysInOrder
<1>1. Inv /\ [Next]_vars => [Copy => last' > last]_vars
  BY InvCopy
<1> QED
  BY <1>1, InvAlways, PTL DEF Spec, KeysInOrder

-----------------------------------------------------------------------------
(* A number of whole laps. *)
Laps(d) == \E k \in Int : d = k * Length

(* The laps of the reader and the writer are whole, and the slot that was  *)
(* loaded is overwritten by a key that comes whole laps later.             *)
WholeLaps ==
  /\ Laps(Lap) /\ Laps(ReaderLap)
  /\ pc = "copy" => c <= buffer[rd] /\ Laps(buffer[rd] - c)
  /\ pc = "advance" => c <= last /\ Laps(last - c)

LEMMA LapArithmetic ==
  /\ Laps(0)
  /\ \A d \in Int : Laps(d) => Laps(d + Length) /\ Laps(d - Length)
  /\ \A d, e \in Int : Laps(d) /\ Laps(e) => Laps(d - e)
<1>1. Length \in Nat
  BY ConsoleAssumption
<1>2. Laps(0)
  <2>1. 0 = 0 * Length
    BY <1>1
  <2> QED BY <2>1 DEF Laps
<1>3. ASSUME NEW d \in Int, Laps(d) PROVE Laps(d + Length) /\ Laps(d - Length)
  <2>1. PICK k \in Int : d = k * Length
    BY <1>3 DEF Laps
  <2>2. d + Length = (k + 1) * Length /\ d - Length = (k - 1) * Length
    BY <1>1, <2>1
  <2> QED BY <2>2 DEF Laps
<1>4. ASSUME NEW d \in Int, NEW e \in Int, Laps(d), Laps(e) PROVE Laps(d - e)
  <2>1. PICK k \in Int, l \in Int : d = k * Length /\ e = l * Length
    BY <1>4 DEF Laps
  <2>2. d - e = (k - l) * Length
    BY <1>1, <2>1
  <2> QED BY <2>2 DEF Laps
<1> QED
  BY <1>2, <1>3, <1>4

LEMMA LapsAreMultiples ==
  ASSUME NEW d \in Int, Laps(d)
  PROVE  d % Length = 0
<1>1. PICK k \in Int : d = k * Length
  BY DEF Laps
<1>2. Length \in Nat /\ Length > 0
  BY ConsoleAssumption
<1> DEFINE q == d \div Length
           r == d % Length
<1>3. q \in Int /\ r \in Int /\ 0 <= r /\ r < Length /\ d = Length * q + r
  BY <1>2
<1> HIDE DEF q, r
<1>4. r = (k - q) * Length
  BY <1>1, <1>2, <1>3
<1> DEFINE m == k - q
<1>5. m \in Int /\ r = m * Length
  BY <1>3, <1>4
<1> HIDE DEF m
<1>6. CASE m >= 1
  <2>1. m * Length >= Length
    BY <1>2, <1>5, <1>6
  <2> QED BY <1>2, <1>3, <1>5, <2>1
<1>7. CASE m <= -1
  <2>1. m * Length <= -Length
    BY <1>2, <1>5, <1>7
  <2> QED BY <1>2, <1>3, <1>5, <2>1
<1>8. CASE m = 0
  BY <1>2, <1>5, <1>8 DEF r
<1> QED
  BY <1>5, <1>6, <1>7, <1>8

LEMMA WholeInit == Init => WholeLaps
<1> SUFFICES ASSUME Init PROVE WholeLaps
  OBVIOUS
<1>1. Lap = 0 /\ ReaderLap = 0 /\ pc = "caller"
  BY DEF Init, Lap, ReaderLap, NextSlot
<1> QED
  BY <1>1, LapArithmetic DEF WholeLaps

LEMMA WholePress == Inv /\ WholeLaps /\ Press => WholeLaps'
<1> SUFFICES ASSUME Inv, WholeLaps, Press PROVE WholeLaps'
  OBVIOUS
<1>1. /\ keys \in Nat /\ keys' = keys + 1 /\ wr \in Slot /\ rd \in Slot
      /\ buffer \in [Slot -> 0 .. MaxKeys] /\ MaxKeys \in Nat
      /\ buffer' = [buffer EXCEPT ![wr] = keys + 1] /\ wr' = After(wr)
      /\ UNCHANGED <<rd, pc, c, last>> /\ c \in Nat /\ last \in Nat
  BY ConsoleAssumption DEF Press, reader, Inv, TypeOK
<1>2. Lap \in Int /\ Lap = keys - wr /\ Length \in Nat /\ wr \in Nat
  BY <1>1, Indices DEF Lap
<1>3. Lap' = Lap \/ Lap' = Lap + Length
  BY <1>1, <1>2, Indices DEF Lap, After
<1>4. Laps(Lap')
  BY <1>2, <1>3, LapArithmetic DEF WholeLaps
<1>5. ReaderLap' = ReaderLap
  BY <1>1 DEF ReaderLap, NextSlot, After
<1>6. ASSUME pc = "copy" PROVE c <= buffer'[rd] /\ Laps(buffer'[rd] - c)
  <2>1. c <= buffer[rd] /\ Laps(buffer[rd] - c) /\ buffer[rd] \in Nat
    BY <1>1, <1>6 DEF WholeLaps
  <2>2. CASE rd # wr
    BY <1>1, <2>1, <2>2
  <2>3. CASE rd = wr
    <3>1. buffer'[rd] = keys + 1
      BY <1>1, <2>3
    <3>2. buffer[rd] > 0
      BY <1>1, <1>6, <2>1 DEF Inv, ReadInv
    <3>3. buffer[rd] = Lap + wr + 1 - Length
      BY <1>1, <1>2, <2>3, <3>2 DEF Inv, BufferInv
    <3> DEFINE d == buffer[rd] - c
    <3>4. buffer'[rd] - c = d + Length /\ d \in Int /\ Laps(d) /\ c <= buffer'[rd]
      BY <1>1, <1>2, <2>1, <3>1, <3>3
    <3> HIDE DEF d
    <3>5. Laps(d + Length)
      BY <3>4, LapArithmetic
    <3> QED
      BY <3>4, <3>5
  <2> QED
    BY <2>2, <2>3
<1> QED
  BY <1>1, <1>4, <1>5, <1>6 DEF WholeLaps

LEMMA WholeCopy ==
  Inv /\ WholeLaps /\ Copy => WholeLaps' /\ (last' - last - 1) % Length = 0
<1> SUFFICES ASSUME Inv, WholeLaps, Copy
             PROVE  WholeLaps' /\ (last' - last - 1) % Length = 0
  OBVIOUS
<1>1. /\ pc = "copy" /\ pc' = "advance" /\ last' = buffer[rd] /\ buffer[rd] > last
      /\ UNCHANGED <<keys, wr, rd, c, buffer>>
      /\ rd \in Slot /\ wr \in Slot /\ keys \in Nat /\ last \in Nat /\ c \in Nat
      /\ buffer[rd] \in Nat
  BY ConsoleAssumption DEF Copy, Inv, TypeOK, ReadInv
<1>2. /\ rd \in Nat /\ wr \in Nat /\ Length \in Nat /\ After(rd) \in Nat
      /\ After(rd) = rd + 1 \/ After(rd) = rd + 1 - Length
  BY <1>1, Indices
<1>3. /\ ReaderLap = last - rd /\ ReaderLap' = last' - After(rd)
      /\ Lap = keys - wr /\ Lap' = Lap /\ Lap \in Int /\ ReaderLap \in Int
  BY <1>1, <1>2 DEF ReaderLap, NextSlot, Lap, After
<1>4. last' = Lap + rd + 1 \/ last' = Lap - Length + rd + 1
  BY <1>1, <1>2, <1>3 DEF Inv, BufferInv
<1>5. Laps(Lap) /\ Laps(Lap - Length) /\ Laps(Lap + Length) /\ Laps(ReaderLap)
  BY <1>3, LapArithmetic DEF WholeLaps
<1>6. Laps(ReaderLap')
  <2>1. \/ ReaderLap' = Lap \/ ReaderLap' = Lap - Length \/ ReaderLap' = Lap + Length
    BY <1>2, <1>3, <1>4
  <2> QED BY <1>5, <2>1
<1>7. Laps(last' - last - 1)
  <2>1. \/ last' - last - 1 = Lap - ReaderLap
        \/ last' - last - 1 = (Lap - Length) - ReaderLap
    BY <1>1, <1>2, <1>3, <1>4
  <2>2. Laps(Lap - ReaderLap)
    BY <1>3, <1>5, LapArithmetic
  <2> DEFINE d == Lap - Length
  <2>3. d \in Int /\ Laps(d)
    BY <1>2, <1>3, <1>5
  <2> HIDE DEF d
  <2>4. Laps(d - ReaderLap)
    BY <1>3, <1>5, <2>3, LapArithmetic
  <2> QED BY <2>1, <2>2, <2>4 DEF d
<1>8. last' - last - 1 \in Int
  BY <1>1
<1>9. (last' - last - 1) % Length = 0
  BY <1>7, <1>8, LapsAreMultiples
<1>10. c <= last' /\ Laps(last' - c)
  BY <1>1 DEF WholeLaps
<1> QED
  BY <1>1, <1>3, <1>5, <1>6, <1>9, <1>10 DEF WholeLaps

LEMMA WholeRead ==
  Inv /\ WholeLaps /\ (Call \/ Spin \/ Test \/ Load \/ Advance \/ UNCHANGED vars)
    => WholeLaps'
<1> SUFFICES ASSUME Inv, WholeLaps,
                    Call \/ Spin \/ Test \/ Load \/ Advance \/ UNCHANGED vars
             PROVE  WholeLaps'
  OBVIOUS
<1>1. UNCHANGED <<keys, wr, last, buffer>>
  BY DEF Call, Spin, Test, Load, Advance, vars, reader
<1>2. NextSlot' = NextSlot
  <2>1. CASE Advance
    BY <2>1 DEF Advance, NextSlot
  <2>2. CASE UNCHANGED vars
    BY <2>2 DEF vars, reader, NextSlot, After
  <2>3. CASE Call \/ Spin \/ Test \/ Load
    BY <2>3 DEF Call, Spin, Test, Load, vars, reader, NextSlot
  <2> QED
    BY <2>1, <2>2, <2>3
<1>3. Lap' = Lap /\ ReaderLap' = ReaderLap
  BY <1>1, <1>2 DEF Lap, ReaderLap
<1>4. CASE Load
  <2>1. /\ c' = buffer[rd] /\ rd' = rd /\ pc' = "copy" /\ buffer[rd] \in Nat
    BY <1>4, ConsoleAssumption DEF Load, Inv, TypeOK
  <2>2. buffer[rd] - buffer[rd] = 0 /\ buffer[rd] <= buffer[rd]
    BY <2>1
  <2>3. Laps(buffer'[rd'] - c') /\ c' <= buffer'[rd']
    BY <1>1, <2>1, <2>2, LapArithmetic
  <2> QED
    BY <1>3, <2>1, <2>3 DEF WholeLaps
<1>5. CASE Call \/ Spin \/ Test \/ Advance \/ UNCHANGED vars
  <2>1. \/ pc' \notin {"copy", "advance"}
        \/ UNCHANGED <<pc, c, rd>>
    BY <1>5 DEF Call, Spin, Test, Advance, vars, reader
  <2> QED
    BY <1>1, <1>3, <2>1 DEF WholeLaps
<1> QED
  BY <1>4, <1>5

LEMMA WholeStep ==
  Inv /\ WholeLaps /\ [Next]_vars
    => WholeLaps' /\ [Copy => (last' - last - 1) % Length = 0]_vars
<1> SUFFICES ASSUME Inv, WholeLaps, [Next]_vars
             PROVE  WholeLaps' /\ (Copy => (last' - last - 1) % Length = 0)
  OBVIOUS
<1>1. CASE Copy
  BY <1>1, WholeCopy
<1>2. CASE ~Copy
  BY <1>2, WholePress, WholeRead DEF Next, Read
<1> QED
  BY <1>1, <1>2

LEMMA WholeAlways == Spec => []WholeLaps
  BY InvAlways, WholeInit, WholeStep, PTL DEF Spec

(* However far the keyboard laps the reader, what is lost is a multiple of *)
(* the buffer's length.                                                    *)
THEOREM LossIsInLaps == Spec => LossInLaps
  BY InvAlways, WholeAlways, WholeStep, PTL DEF Spec, LossInLaps

(* However the two loads of a slot and the key presses interleave, the     *)
(* character that is tested for a new line is the one that is handed over, *)
(* or one that was pressed whole laps before it.                           *)
THEOREM TestedThenCopied == Spec => []TestedIsCopied
<1>1. Inv /\ WholeLaps => TestedIsCopied
  <2> SUFFICES ASSUME Inv, WholeLaps, pc = "advance"
               PROVE  c <= last /\ (last - c) % Length = 0
    BY DEF TestedIsCopied
  <2>1. c <= last /\ Laps(last - c) /\ last - c \in Int
    BY ConsoleAssumption DEF WholeLaps, Inv, TypeOK
  <2> QED
    BY <2>1, LapsAreMultiples
<1> QED
  BY <1>1, InvAlways, WholeAlways, PTL

-----------------------------------------------------------------------------
(* With a keyboard that is less than a buffer ahead, the reader is at most *)
(* one lap behind, so each key it copies is the next one.                  *)
PaceInv ==
  /\ keys - last <= Length - 1
  /\ ReaderLap = Lap \/ ReaderLap = Lap - Length

LEMMA PaceInit == Init => PaceInv
  BY ConsoleAssumption DEF Init, PaceInv, Lap, ReaderLap, NextSlot

LEMMA PacePress == Inv /\ PaceInv /\ PacedPress => PaceInv'
<1> SUFFICES ASSUME Inv, PaceInv, PacedPress PROVE PaceInv'
  OBVIOUS
<1>1. /\ keys \in Nat /\ last \in Nat /\ keys' = keys + 1 /\ last' = last
      /\ wr \in Slot /\ rd \in Slot /\ wr' = After(wr) /\ keys - last < Length - 1
      /\ UNCHANGED <<rd, pc>>
  BY ConsoleAssumption DEF PacedPress, Press, reader, Inv, TypeOK
<1>2. NextSlot \in Slot /\ NextSlot' = NextSlot /\ ReaderLap' = ReaderLap
  BY <1>1, Indices DEF NextSlot, ReaderLap, After
<1>3. NextSlot \in Nat /\ NextSlot < Length /\ wr \in Nat /\ wr < Length /\ Length \in Nat
  BY <1>1, <1>2, Indices
<1>4. Lap = keys - wr /\ ReaderLap = last - NextSlot
  BY DEF Lap, ReaderLap
<1>5. Lap' = IF wr + 1 = Length THEN Lap + Length ELSE Lap
  BY <1>1, <1>3 DEF Lap, After
<1>6. CASE wr + 1 = Length
  BY <1>1, <1>2, <1>3, <1>4, <1>5, <1>6 DEF PaceInv
<1>7. CASE wr + 1 # Length
  BY <1>1, <1>2, <1>3, <1>4, <1>5, <1>7 DEF PaceInv
<1> QED
  BY <1>6, <1>7

LEMMA PaceCopy == Inv /\ PaceInv /\ Copy => PaceInv' /\ last' = last + 1
<1> SUFFICES ASSUME Inv, PaceInv, Copy PROVE PaceInv' /\ last' = last + 1
  OBVIOUS
<1>1. /\ pc = "copy" /\ pc' = "advance" /\ last' = buffer[rd] /\ buffer[rd] > last
      /\ UNCHANGED <<keys, wr, rd>>
      /\ rd \in Slot /\ wr \in Slot /\ keys \in Nat /\ last \in Nat /\ last <= keys
  BY ConsoleAssumption DEF Copy, Inv, TypeOK, ReadInv, LapInv
<1>2. /\ rd \in Nat /\ rd < Length /\ wr \in Nat /\ wr < Length /\ Length \in Nat
      /\ After(rd) \in Nat
      /\ After(rd) = rd + 1 \/ (After(rd) = 0 /\ rd + 1 = Length)
  BY <1>1, Indices
<1>3. /\ ReaderLap = last - rd /\ ReaderLap' = last' - After(rd)
      /\ Lap = keys - wr /\ Lap' = Lap
  BY <1>1 DEF ReaderLap, NextSlot, Lap, After
<1>4. /\ buffer[rd] = IF rd < wr THEN Lap + rd + 1
                      ELSE IF Lap = 0 THEN 0 ELSE Lap + rd + 1 - Length
  BY <1>1 DEF Inv, BufferInv
<1>5. last' = last + 1
  <2>1. CASE rd < wr
    BY <1>1, <1>2, <1>3, <1>4, <2>1 DEF PaceInv
  <2>2. CASE ~(rd < wr)
    BY <1>1, <1>2, <1>3, <1>4, <2>2 DEF PaceInv
  <2> QED
    BY <2>1, <2>2
<1>6. keys' - last' <= Length - 1
  <2>1. keys' = keys /\ last' = last + 1 /\ keys - last <= Length - 1
    BY <1>1, <1>5 DEF PaceInv
  <2> QED
    BY <1>1, <1>2, <2>1
<1>7. ReaderLap' = Lap' \/ ReaderLap' = Lap' - Length
  <2>1. CASE rd < wr
    <3>1. last' = Lap + rd + 1 /\ After(rd) = rd + 1
      BY <1>1, <1>2, <1>4, <2>1
    <3> QED
      BY <1>2, <1>3, <1>1, <3>1
  <2>2. CASE ~(rd < wr)
    <3>1. Lap # 0 /\ last' = Lap + rd + 1 - Length
      BY <1>1, <1>2, <1>4, <2>2
    <3> QED
      BY <1>1, <1>2, <1>3, <3>1
  <2> QED
    BY <2>1, <2>2
<1> QED
  BY <1>5, <1>6, <1>7 DEF PaceInv

LEMMA PaceRead ==
  Inv /\ PaceInv /\ (Call \/ Spin \/ Test \/ Load \/ Advance \/ UNCHANGED vars)
    => PaceInv' /\ UNCHANGED <<keys, last>>
<1> SUFFICES ASSUME Inv, PaceInv,
                    Call \/ Spin \/ Test \/ Load \/ Advance \/ UNCHANGED vars
             PROVE  PaceInv' /\ UNCHANGED <<keys, last>>
  OBVIOUS
<1>1. UNCHANGED <<keys, wr, last>>
  BY DEF Call, Spin, Test, Load, Advance, vars, reader
<1>2. NextSlot' = NextSlot
  <2>1. CASE Advance
    BY <2>1 DEF Advance, NextSlot
  <2>2. CASE UNCHANGED vars
    BY <2>2 DEF vars, reader, NextSlot, After
  <2>3. CASE Call \/ Spin \/ Test \/ Load
    BY <2>3 DEF Call, Spin, Test, Load, vars, reader, NextSlot
  <2> QED
    BY <2>1, <2>2, <2>3
<1> QED
  BY <1>1, <1>2 DEF PaceInv, ReaderLap, Lap

LEMMA PaceStep ==
  Inv /\ PaceInv /\ [PacedNext]_vars
    => Inv' /\ PaceInv' /\ [Stream!Next]_(Stream!vars)
<1> SUFFICES ASSUME Inv, PaceInv, [PacedNext]_vars
             PROVE  Inv' /\ PaceInv' /\ [Stream!Next]_(Stream!vars)
  OBVIOUS
<1>1. Inv'
  BY InvStep DEF PacedNext, PacedPress, Next
<1>2. CASE PacedPress
  BY <1>1, <1>2, PacePress
     DEF PacedPress, Press, reader, Stream!Next, Stream!Press, Stream!vars, vars
<1>3. CASE Copy
  <2>1. last < keys
    BY <1>1, <1>3, PaceCopy, ConsoleAssumption DEF Copy, Inv, LapInv, TypeOK
  <2> QED
    BY <1>1, <1>3, <2>1, PaceCopy DEF Copy, Stream!Next, Stream!Receive, Stream!vars
<1>4. CASE Call \/ Spin \/ Test \/ Load \/ Advance \/ UNCHANGED vars
  BY <1>1, <1>4, PaceRead DEF Stream!vars
<1> QED
  BY <1>2, <1>3, <1>4 DEF PacedNext, Read

(* The safety of the refinement: with a keyboard that is less than a       *)
(* buffer ahead, the reader gets every key, once, in order.  (That it gets *)
(* them in the end is liveness, and left to the model checker.)            *)
THEOREM NothingIsLost == PacedSpec => Stream!Init /\ [][Stream!Next]_(Stream!vars)
<1>1. Init => Stream!Init
  BY DEF Init, Stream!Init
<1> QED
  BY <1>1, InvInit, PaceInit, PaceStep, PTL DEF PacedSpec
=============================================================================
